SPECIFICATION FairSpec
CONSTANTS
  a1 = a1
  a2 = a2
  h1 = h1
  h2 = h2
  Agents <- MCAgents
  Configured <- MCConfigured
  Handlers <- MCHandlers
  MaxWritten = 2
  Limited = TRUE
INVARIANTS
  NothingRunsUnseen
  RunsWhatIsConfigured
  GoesDownInOrder
PROPERTIES
  StopsAndChangesEnd
CHECK_DEADLOCK FALSE

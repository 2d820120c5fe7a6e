------------------------------ MODULE NodeAgents ------------------------------
(***************************************************************************)
(* A node and the agents it runs (app/application.py), while an operator   *)
(* changes them, commands are carried out on them, a reminder wakes them   *)
(* and the node goes down.                                                 *)
(*                                                                         *)
(* Requests come one at a time through the control's fetch task, `Ctl`:    *)
(* it stops the agent a change is about and leaves the start of the new    *)
(* one to a task of its own, kept in `starting` until it is over.  `Main`  *)
(* is the task that starts the node and, within one limit, stops it.  The  *)
(* instances of an agent are told apart by the number of the configuration *)
(* they were started from; `live` says which parts of one are running.     *)
(*                                                                         *)
(* A cancellation is delivered where the task next waits: `cut` is one not *)
(* yet delivered, `hurt` says the task will end cancelled.                 *)
(***************************************************************************)
EXTENDS Naturals, FiniteSets, Sequences

CONSTANTS
  Agents,        \* the ids of the agents a node may ever have
  Configured,    \* those in its configuration when it starts
  Handlers,      \* the local connections a command may come over
  MaxWritten,    \* bound on how often the configuration is written
  Limited        \* whether the stop of the node is held to its limit

ASSUME NodeAssumption ==
  /\ Configured \subseteq Agents
  /\ MaxWritten \in Nat \ {0}
  /\ Limited \in BOOLEAN

Ctl == "ctl"
Main == "main"
ASSUME TasksDiffer == {Ctl, Main} \cap Agents = {}

Tasks == Agents \cup {Ctl, Main}     \* a start task goes by its agent
Stoppers == {Ctl, Main}
Versions == 1..MaxWritten
Instances == Agents \X Versions
None == <<>>

Parts == {"channel", "receive", "worker", "session", "runtime"}

VARIABLES
  cfg,        \* the configuration: an agent's number, 0 when not in it
  written,    \* how often it was written
  gone,       \* agents struck from it: an id is not given twice
  agents,     \* the list of instances: the number one was started from, or 0
  starting,   \* agents whose start was left for after an answer
  life, live, \* of every instance: its lifecycle and its running parts
  pc, on, cut, hurt,  \* of every task: where it is, on which instance
  change,     \* the change `Ctl` is making: <<kind, agent>>
  inFlight,   \* the commands: the instance each is carried out on
  told,       \* those a drain cancelled
  wake,       \* the instance a reminder is waking
  limit       \* whether the limit on the node's stop has passed

vars == <<cfg, written, gone, agents, starting, life, live, pc, on, cut, hurt,
          change, inFlight, told, wake, limit>>

configuration == <<cfg, written, gone>>
instances == <<life, live>>
commands == <<inFlight, told>>
tasks == <<pc, on, cut, hurt>>

StopSteps == {"drain", "gather", "channel", "receive", "workers", "sessions",
              "runtimes", "stopped"}
StartSteps == {"load", "prepare", "runtime up", "channel up", "undo"}
MainSteps == {"boot", "up", "control", "reminders", "starts", "agents",
              "server", "down", "cut off"}

\* Every variable has its type.
TypeOK ==
  /\ cfg \in [Agents -> 0..MaxWritten]
  /\ written \in Versions
  /\ gone \subseteq Agents
  /\ agents \in [Agents -> 0..MaxWritten]
  /\ starting \subseteq Agents
  /\ life \in [Instances -> {"none", "init", "idle", "terminated"}]
  /\ live \in [Instances -> SUBSET Parts]
  /\ pc \in [Tasks -> StopSteps \cup StartSteps \cup MainSteps
                      \cup {"over", "poll", "tell"}]
  /\ on \in [Tasks -> Instances \cup {None}]
  /\ cut \in [Tasks -> BOOLEAN]
  /\ hurt \in [Tasks -> BOOLEAN]
  /\ change \in ({"update", "remove"} \X Agents) \cup {None}
  /\ inFlight \in [Handlers -> Instances \cup {None}]
  /\ told \subseteq Handlers
  /\ wake \in Instances \cup {None}
  /\ limit \in BOOLEAN

(***************************************************************************)
(* The node has read its configuration and starts every agent in it.       *)
(***************************************************************************)
Init ==
  /\ cfg = [a \in Agents |-> IF a \in Configured THEN 1 ELSE 0]
  /\ written = 1
  /\ gone = {}
  /\ agents = [a \in Agents |-> 0]
  /\ starting = {}
  /\ life = [i \in Instances |-> "none"]
  /\ live = [i \in Instances |-> {}]
  /\ pc = [t \in Tasks |-> IF t = Main THEN "boot"
                           ELSE IF t \in Configured THEN "load" ELSE "over"]
  /\ on = [t \in Tasks |-> IF t \in Configured THEN <<t, 1>> ELSE None]
  /\ cut = [t \in Tasks |-> FALSE]
  /\ hurt = [t \in Tasks |-> FALSE]
  /\ change = None
  /\ inFlight = [h \in Handlers |-> None]
  /\ told = {}
  /\ wake = None
  /\ limit = FALSE

Running == pc[Main] \notin {"down", "cut off"}
Accepting == pc[Main] = "up"
Listed(a) == <<a, agents[a]>>
Up(a) == agents[a] # 0 /\ life[Listed(a)] = "idle"
Carrying(i) == {h \in Handlers : inFlight[h] = i}


-----------------------------------------------------------------------------
(***************************************************************************)
(* The stop of an agent, whoever makes it: the commands it is carrying out *)
(* are drained, then the orchestrator walks through its parts.  A part     *)
(* that does not run is not waited for, but the channel's stop always is.  *)
(***************************************************************************)
Walk == <<"channel", "receive", "workers", "sessions", "runtimes", "stopped">>
Place(s) == CHOOSE k \in 1..Len(Walk) : Walk[k] = s

\* What each step of the walk takes down: a runtime takes its sessions along.
Takes == [s \in {"channel", "receive", "workers", "sessions", "runtimes"} |->
            CASE s = "channel"  -> {"channel"}
              [] s = "receive"  -> {"receive"}
              [] s = "workers"  -> {"worker"}
              [] s = "sessions" -> {"session"}
              [] s = "runtimes" -> {"runtime", "session"}]

Later(s, i) == {k \in (Place(s) + 1)..(Len(Walk) - 1) :
                  Takes[Walk[k]] \cap live[i] # {}}
NextStep(s, i) == IF Later(s, i) = {} THEN "stopped"
                  ELSE Walk[CHOOSE k \in Later(s, i) :
                              \A j \in Later(s, i) : k <= j]

Goes(t, s) == pc' = [pc EXCEPT ![t] = s]

\* The turn to terminated is taken before anything is waited for.
Terminate(i) == life' = [life EXCEPT ![i] = "terminated"]
StopOfUndrained(t, i) ==
  /\ Terminate(i)
  /\ on' = [on EXCEPT ![t] = i]
  /\ Goes(t, "channel")

StopOf(t, i) ==
  /\ Terminate(i)
  /\ on' = [on EXCEPT ![t] = i]
  /\ Goes(t, IF Carrying(i) = {} THEN "channel" ELSE "drain")

\* The commands end by themselves, or are cancelled and then end.
Drained(t) ==
  /\ pc[t] \in {"drain", "gather"} /\ ~cut[t]
  /\ Carrying(on[t]) = {}
  /\ Goes(t, "channel")
  /\ UNCHANGED <<configuration, agents, starting, instances, on, cut, hurt,
                 change, commands, wake, limit>>

DrainTimesOut(t) ==
  /\ pc[t] = "drain" /\ ~cut[t]
  /\ Carrying(on[t]) # {}
  /\ told' = told \cup Carrying(on[t])
  /\ Goes(t, "gather")
  /\ UNCHANGED <<configuration, agents, starting, instances, on, cut, hurt,
                 change, inFlight, wake, limit>>

TakeDown(t) ==
  /\ pc[t] \in DOMAIN Takes /\ ~cut[t]
  /\ live' = [live EXCEPT ![on[t]] = @ \ Takes[pc[t]]]
  /\ Goes(t, NextStep(pc[t], on[t]))
  /\ UNCHANGED <<configuration, agents, starting, life, on, cut, hurt, change,
                 commands, wake, limit>>

(***************************************************************************)
(* The one stopping is cancelled.  A drain gives up and the walk begins.   *)
(* The wait for the receive task takes the cancellation for that task's    *)
(* own and goes on; any other step of the walk is left, and the rest of    *)
(* the walk with it.  Workers had been cancelled before they were waited   *)
(* for.  A start that failed swallows it with the other errors of its      *)
(* cleanup; a stop ends cancelled.                                         *)
(***************************************************************************)
CutWhileDraining(t) ==
  /\ pc[t] \in {"drain", "gather"} /\ cut[t]
  /\ cut' = [cut EXCEPT ![t] = FALSE]
  /\ hurt' = [hurt EXCEPT ![t] = TRUE]
  /\ Goes(t, "channel")
  /\ UNCHANGED <<configuration, agents, starting, instances, on, change,
                 commands, wake, limit>>

CutWhileReceiving(t) ==
  /\ pc[t] = "receive" /\ cut[t]
  /\ cut' = [cut EXCEPT ![t] = FALSE]
  /\ live' = [live EXCEPT ![on[t]] = @ \ Takes["receive"]]
  /\ Goes(t, NextStep("receive", on[t]))
  /\ UNCHANGED <<configuration, agents, starting, life, on, hurt, change,
                 commands, wake, limit>>

CutOnTheWalk(t) ==
  /\ pc[t] \in {"channel", "workers", "sessions", "runtimes"} /\ cut[t]
  /\ cut' = [cut EXCEPT ![t] = FALSE]
  /\ hurt' = [hurt EXCEPT ![t] = @ \/ t \in Stoppers]
  /\ live' = [live EXCEPT ![on[t]] =
                @ \ (IF pc[t] = "workers" THEN {"worker"} ELSE {})]
  /\ Goes(t, "stopped")
  /\ UNCHANGED <<configuration, agents, starting, life, on, change, commands,
                 wake, limit>>

-----------------------------------------------------------------------------
(***************************************************************************)
(* The task that starts an agent.  The instance is on the list from the    *)
(* moment it exists.                                                       *)
(***************************************************************************)
Unlist(a) == agents' = [agents EXCEPT ![a] = 0]

\* The end of the task: what it was kept under is dropped.
StartOver(a) == Goes(a, "over") /\ starting' = starting \ {a}

\* A start of the boot is waited for; one made for a change says so first.
StartSettles(a) == IF a \in starting THEN Goes(a, "tell") /\ UNCHANGED starting
                   ELSE StartOver(a)

Loaded(a) ==
  /\ pc[a] = "load" /\ ~cut[a]
  /\ agents' = [agents EXCEPT ![a] = on[a][2]]
  /\ life' = [life EXCEPT ![on[a]] = "init"]
  /\ Goes(a, "prepare")
  /\ UNCHANGED <<configuration, starting, live, on, cut, hurt, change,
                 commands, wake, limit>>

LoadFails(a) ==
  /\ pc[a] = "load" /\ ~cut[a]
  /\ StartSettles(a)
  /\ UNCHANGED <<configuration, agents, instances, on, cut, hurt, change,
                 commands, wake, limit>>

Prepared(a) ==
  /\ pc[a] = "prepare" /\ ~cut[a]
  /\ Goes(a, "runtime up")
  /\ UNCHANGED <<configuration, agents, starting, instances, on, cut, hurt,
                 change, commands, wake, limit>>

RuntimeUp(a) ==
  /\ pc[a] = "runtime up" /\ ~cut[a]
  /\ live' = [live EXCEPT ![on[a]] = @ \cup {"runtime"}]
  /\ Goes(a, "channel up")
  /\ UNCHANGED <<configuration, agents, starting, life, on, cut, hurt, change,
                 commands, wake, limit>>

\* The channel is up and the agent with it - unless it was done for in the
\* meantime: then it is given up with what was started.
ChannelUp(a) ==
  /\ pc[a] = "channel up" /\ ~cut[a]
  /\ live' = [live EXCEPT ![on[a]] = @ \cup {"channel", "receive"}]
  /\ IF life[on[a]] = "terminated"
       THEN Goes(a, "stopped") /\ UNCHANGED <<life, starting>>
       ELSE /\ life' = [life EXCEPT ![on[a]] = "idle"]
            /\ StartSettles(a)
  /\ UNCHANGED <<configuration, agents, on, cut, hurt, change, commands, wake,
                 limit>>

StartFailsUncleaned(a) ==
  /\ pc[a] \in {"prepare", "runtime up", "channel up"}
  /\ cut' = [cut EXCEPT ![a] = FALSE]
  /\ hurt' = [hurt EXCEPT ![a] = cut[a]]
  /\ Terminate(on[a])
  /\ Goes(a, "stopped")
  /\ UNCHANGED <<configuration, agents, starting, live, on, change, commands,
                 wake, limit>>

\* A step of the start fails or overruns its limit, or the start is cancelled:
\* the runtimes are stopped if they were touched, then the whole agent.
StartFails(a) ==
  /\ pc[a] \in {"prepare", "runtime up", "channel up"}
  /\ cut' = [cut EXCEPT ![a] = FALSE]
  /\ hurt' = [hurt EXCEPT ![a] = cut[a]]
  /\ IF pc[a] = "prepare" THEN Goes(a, "channel") /\ Terminate(on[a])
     ELSE Goes(a, "undo") /\ UNCHANGED life
  /\ UNCHANGED <<configuration, agents, starting, live, on, change, commands,
                 wake, limit>>

Undone(a) ==
  /\ pc[a] = "undo"
  /\ cut' = [cut EXCEPT ![a] = FALSE]
  /\ hurt' = [hurt EXCEPT ![a] = @ \/ cut[a]]
  /\ live' = [live EXCEPT ![on[a]] = @ \ (IF cut[a] THEN {} ELSE {"runtime"})]
  /\ Terminate(on[a])
  /\ Goes(a, "channel")
  /\ UNCHANGED <<configuration, agents, starting, on, change, commands, wake,
                 limit>>

\* A failed start is taken off the list; the failure is said, a cancellation
\* is not.
StartGivenUp(a) ==
  /\ pc[a] = "stopped"
  /\ Unlist(a)
  /\ IF hurt[a] THEN StartOver(a) ELSE StartSettles(a)
  /\ UNCHANGED <<configuration, instances, on, cut, hurt, change, commands,
                 wake, limit>>

StartTold(a) ==
  /\ pc[a] = "tell"
  /\ StartOver(a)
  /\ cut' = [cut EXCEPT ![a] = FALSE]
  /\ UNCHANGED <<configuration, agents, instances, on, hurt, change, commands,
                 wake, limit>>

CutBeforeTheStart(a) ==
  /\ pc[a] = "load" /\ cut[a]
  /\ StartOver(a)
  /\ cut' = [cut EXCEPT ![a] = FALSE]
  /\ UNCHANGED <<configuration, agents, instances, on, hurt, change, commands,
                 wake, limit>>

-----------------------------------------------------------------------------
(***************************************************************************)
(* The control's task.  A change is refused while the agent is coming up   *)
(* or on its way out.  The configuration is written first, in one go.      *)
(***************************************************************************)
SettledByState(a) == agents[a] # 0 => Up(a)
Settled(a) == a \notin starting /\ (agents[a] # 0 => Up(a))

Write(a, number) == cfg' = [cfg EXCEPT ![a] = number]

\* The start is on record before the answer.
BringUp(a, number) ==
  /\ starting' = starting \cup {a}
  /\ on' = [on EXCEPT ![a] = <<a, number>>]
  /\ pc' = [pc EXCEPT ![a] = "load", ![Ctl] = "tell"]
  /\ hurt' = [hurt EXCEPT ![a] = FALSE]

Asked == pc[Ctl] = "poll" /\ ~cut[Ctl]

AddAgent(a) ==
  /\ Asked /\ written < MaxWritten
  /\ cfg[a] = 0 /\ a \notin gone
  /\ written' = written + 1
  /\ Write(a, written + 1)
  /\ BringUp(a, written + 1)
  /\ UNCHANGED <<gone, agents, instances, cut, change, commands, wake, limit>>

UpdateAgent(a) ==
  /\ Asked /\ written < MaxWritten
  /\ cfg[a] # 0 /\ Settled(a)
  /\ written' = written + 1
  /\ Write(a, written + 1)
  /\ IF agents[a] = 0
       THEN BringUp(a, written + 1) /\ UNCHANGED <<life, change>>
       ELSE /\ StopOf(Ctl, Listed(a))
            /\ change' = <<"update", a>>
            /\ UNCHANGED <<starting, hurt>>
  /\ UNCHANGED <<gone, agents, live, cut, commands, wake, limit>>

RemoveAgent(a) ==
  /\ Asked
  /\ cfg[a] # 0 /\ Settled(a)
  /\ Write(a, 0)
  /\ gone' = gone \cup {a}
  /\ IF agents[a] = 0
       THEN Goes(Ctl, "tell") /\ UNCHANGED <<life, on, change>>
       ELSE StopOf(Ctl, Listed(a)) /\ change' = <<"remove", a>>
  /\ UNCHANGED <<written, agents, starting, live, cut, hurt, commands, wake,
                 limit>>

\* The stop is over, whatever went wrong in it; a cancellation ends the task.
ChangeStopped ==
  LET a == change[2] IN
  /\ pc[Ctl] = "stopped"
  /\ Unlist(a)
  /\ change' = None
  /\ CASE hurt[Ctl] ->
            Goes(Ctl, "over") /\ UNCHANGED <<starting, on, hurt>>
       [] ~hurt[Ctl] /\ change[1] = "update" -> BringUp(a, cfg[a])
       [] ~hurt[Ctl] /\ change[1] = "remove" ->
            Goes(Ctl, "tell") /\ UNCHANGED <<starting, on, hurt>>
  /\ UNCHANGED <<configuration, instances, cut, commands, wake, limit>>

ChangeTold ==
  /\ pc[Ctl] = "tell" /\ ~cut[Ctl]
  /\ Goes(Ctl, "poll")
  /\ UNCHANGED <<configuration, agents, starting, instances, on, cut, hurt,
                 change, commands, wake, limit>>

ControlCut ==
  /\ pc[Ctl] \in {"poll", "tell"} /\ cut[Ctl]
  /\ Goes(Ctl, "over")
  /\ cut' = [cut EXCEPT ![Ctl] = FALSE]
  /\ UNCHANGED <<configuration, agents, starting, instances, on, hurt, change,
                 commands, wake, limit>>

-----------------------------------------------------------------------------
(***************************************************************************)
(* The node itself.                                                        *)
(***************************************************************************)
NodeReady ==
  /\ pc[Main] = "boot"
  /\ \A a \in Agents : pc[a] = "over"
  /\ pc' = [pc EXCEPT ![Main] = "up", ![Ctl] = "poll"]
  /\ UNCHANGED <<configuration, agents, starting, instances, on, cut, hurt,
                 change, commands, wake, limit>>

\* Requests stop being taken before anything they need goes.
StopNode ==
  /\ pc[Main] = "up"
  /\ Goes(Main, "control")
  /\ cut' = [cut EXCEPT ![Ctl] = TRUE]
  /\ UNCHANGED <<configuration, agents, starting, instances, on, hurt, change,
                 commands, wake, limit>>

ControlStopped ==
  /\ pc[Main] = "control" /\ ~cut[Main]
  /\ pc[Ctl] = "over"
  /\ Goes(Main, "reminders")
  /\ UNCHANGED <<configuration, agents, starting, instances, on, cut, hurt,
                 change, commands, wake, limit>>

\* A start left for after an answer is not waited out on the way down.
RemindersStopped ==
  /\ pc[Main] = "reminders" /\ ~cut[Main]
  /\ wake = None
  /\ Goes(Main, "starts")
  /\ cut' = [t \in Tasks |-> cut[t] \/ t \in starting]
  /\ UNCHANGED <<configuration, agents, starting, instances, on, hurt, change,
                 commands, wake, limit>>

StartsStopped ==
  /\ pc[Main] = "starts" /\ ~cut[Main]
  /\ \A a \in Agents : pc[a] = "over"
  /\ Goes(Main, "agents")
  /\ UNCHANGED <<configuration, agents, starting, instances, on, cut, hurt,
                 change, commands, wake, limit>>

ToStop == {a \in Agents : agents[a] # 0 /\ life[Listed(a)] # "terminated"}

StopNextAgent(a) ==
  /\ pc[Main] = "agents" /\ a \in ToStop
  /\ StopOf(Main, Listed(a))
  /\ UNCHANGED <<configuration, agents, starting, live, cut, hurt, change,
                 commands, wake, limit>>

NextAgentStopped ==
  /\ pc[Main] = "stopped"
  /\ Goes(Main, IF hurt[Main] THEN "cut off" ELSE "agents")
  /\ UNCHANGED <<configuration, agents, starting, instances, on, cut, hurt,
                 change, commands, wake, limit>>

AgentsStopped ==
  /\ pc[Main] = "agents" /\ ToStop = {}
  /\ agents' = [a \in Agents |-> 0]
  /\ Goes(Main, "server")
  /\ UNCHANGED <<configuration, starting, instances, on, cut, hurt, change,
                 commands, wake, limit>>

\* The command server waits for its connections; then the timer wheel, the
\* audit and the storage are closed.
NodeDown ==
  /\ pc[Main] = "server" /\ ~cut[Main]
  /\ \A h \in Handlers : inFlight[h] = None
  /\ Goes(Main, "down")
  /\ UNCHANGED <<configuration, agents, starting, instances, on, cut, hurt,
                 change, commands, wake, limit>>

Stopping == Running /\ pc[Main] \notin {"boot", "up"}

\* The whole of the stop gets one limit, and is cancelled when it passes.
LimitPasses ==
  /\ Limited /\ Stopping /\ ~limit
  /\ limit' = TRUE
  /\ cut' = [cut EXCEPT ![Main] = TRUE]
  /\ UNCHANGED <<configuration, agents, starting, instances, pc, on, hurt,
                 change, commands, wake>>

NodeCutOffShielded ==
  /\ pc[Main] \in {"reminders", "starts", "server"} /\ cut[Main]
  /\ Goes(Main, "cut off")
  /\ UNCHANGED <<configuration, agents, starting, instances, on, cut, hurt,
                 change, commands, wake, limit>>

NodeCutOff ==
  /\ pc[Main] \in {"control", "reminders", "starts", "server"} /\ cut[Main]
  /\ Goes(Main, "cut off")
  /\ UNCHANGED <<configuration, agents, starting, instances, on, cut, hurt,
                 change, commands, wake, limit>>

-----------------------------------------------------------------------------
(***************************************************************************)
(* What goes on meanwhile: commands, reminders, messages.                  *)
(***************************************************************************)
Dispatch(h, a) ==
  /\ Accepting /\ inFlight[h] = None
  /\ Up(a)
  /\ inFlight' = [inFlight EXCEPT ![h] = Listed(a)]
  /\ UNCHANGED <<configuration, agents, starting, instances, tasks, change,
                 told, wake, limit>>

CommandEnds(h) ==
  /\ Running /\ inFlight[h] # None
  /\ inFlight' = [inFlight EXCEPT ![h] = None]
  /\ told' = told \ {h}
  /\ UNCHANGED <<configuration, agents, starting, instances, tasks, change,
                 wake, limit>>

\* A wake looks whether the agent is up, then reads the conversation.
Wake(a) ==
  /\ pc[Main] \in {"up", "control"} /\ wake = None
  /\ Up(a)
  /\ wake' = Listed(a)
  /\ UNCHANGED <<configuration, agents, starting, instances, tasks, change,
                 commands, limit>>

\* It is then queued, and a worker made for the queue, whatever became of
\* the agent in the meantime.
WakeLands ==
  /\ Running /\ wake # None
  /\ live' = [live EXCEPT ![wake] = @ \cup {"worker"}]
  /\ wake' = None
  /\ UNCHANGED <<configuration, agents, starting, life, tasks, change,
                 commands, limit>>

Receive(i) ==
  /\ Running /\ life[i] = "idle" /\ "receive" \in live[i]
  /\ "worker" \notin live[i]
  /\ live' = [live EXCEPT ![i] = @ \cup {"worker"}]
  /\ UNCHANGED <<configuration, agents, starting, life, tasks, change,
                 commands, wake, limit>>

\* A worker starts a session with its runtime, up to the moment it is
\* cancelled.
Converse(i) ==
  /\ Running
  /\ {"worker", "runtime"} \subseteq live[i] /\ "session" \notin live[i]
  /\ ~\E t \in Tasks : on[t] = i /\ pc[t] = "workers"
  /\ live' = [live EXCEPT ![i] = @ \cup {"session"}]
  /\ UNCHANGED <<configuration, agents, starting, life, tasks, change,
                 commands, wake, limit>>

-----------------------------------------------------------------------------
StopStep(t) ==
  \/ Drained(t) \/ DrainTimesOut(t) \/ TakeDown(t)
  \/ CutWhileDraining(t) \/ CutWhileReceiving(t) \/ CutOnTheWalk(t)

StartStep(a) ==
  \/ Loaded(a) \/ LoadFails(a) \/ Prepared(a) \/ RuntimeUp(a) \/ ChannelUp(a)
  \/ StartFails(a) \/ Undone(a) \/ StartGivenUp(a) \/ StartTold(a)
  \/ CutBeforeTheStart(a)

Change(a) == AddAgent(a) \/ UpdateAgent(a) \/ RemoveAgent(a)
ControlStep == ChangeStopped \/ ChangeTold \/ ControlCut

NodeStep ==
  \/ NodeReady \/ ControlStopped \/ RemindersStopped \/ StartsStopped
  \/ (\E a \in Agents : StopNextAgent(a))
  \/ NextAgentStopped \/ AgentsStopped \/ NodeDown \/ NodeCutOff

Traffic ==
  \/ \E h \in Handlers, a \in Agents : Dispatch(h, a)
  \/ \E h \in Handlers : CommandEnds(h)
  \/ \E a \in Agents : Wake(a)
  \/ WakeLands
  \/ \E i \in Instances : Receive(i) \/ Converse(i)

\* Once the node is down its process ends, and every task in it.
Next ==
  \/ Running /\ \E t \in Tasks : StopStep(t)
  \/ Running /\ \E a \in Agents : StartStep(a) \/ Change(a)
  \/ Running /\ ControlStep
  \/ NodeStep
  \/ StopNode
  \/ LimitPasses
  \/ Traffic

Spec == Init /\ [][Next]_vars

(***************************************************************************)
(* Every task that can go on does: a start is held to its limit, a drain   *)
(* to its own, and what is cancelled ends.  Nothing makes a command end    *)
(* that is not cancelled, and nobody has to ask for anything.              *)
(***************************************************************************)
Fairness ==
  /\ \A t \in Tasks : WF_vars(Running /\ StopStep(t))
  /\ \A a \in Agents : WF_vars(Running /\ StartStep(a))
  /\ WF_vars(Running /\ ControlStep)
  /\ WF_vars(NodeStep)
  /\ WF_vars(LimitPasses)
  /\ WF_vars(WakeLands)
  /\ \A h \in Handlers : WF_vars(h \in told /\ CommandEnds(h))

FairSpec == Spec /\ Fairness

-----------------------------------------------------------------------------
StoppingOf(t, i) == on[t] = i /\ pc[t] \in StopSteps
StartingOf(a, i) == on[a] = i /\ pc[a] \in StartSteps
CutShort(i) == \E t \in Stoppers : on[t] = i /\ hurt[t]

(***************************************************************************)
(* No instance runs on once nobody has it: whatever runs is on the node's  *)
(* list, or being started or stopped - or its stop was cancelled half-way, *)
(* or all that is left of it is a worker a late wake was queued for.  The  *)
(* node stops only what is on its list: another channel or provider        *)
(* session would run unseen until the process ends.  And an agent faces    *)
(* its channel once: two instances of it never both have the channel up,   *)
(* whatever changes are made while it starts or stops, so a message is not *)
(* taken in by one and answered by the other.                              *)
(***************************************************************************)
NothingRunsUnseen ==
  /\ \A i \in Instances :
       live[i] # {} => \/ agents[i[1]] = i[2]
                       \/ \E t \in Tasks : StoppingOf(t, i)
                       \/ \E a \in Agents : StartingOf(a, i)
                       \/ CutShort(i)
                       \/ live[i] = {"worker"}
  /\ \A i, j \in Instances :
       i[1] = j[1] /\ i # j => ~("channel" \in live[i] /\ "channel" \in live[j])

(***************************************************************************)
(* What runs is what is configured: but for an agent being changed or      *)
(* started, an instance on the list is up and was started from the         *)
(* configuration in force, and an agent struck from it has none.           *)
(***************************************************************************)
RunsWhatIsConfigured ==
  /\ TypeOK
  /\ Accepting =>
       \A a \in Agents \ starting :
         (change = None \/ change[2] # a) /\ agents[a] # 0 =>
           Up(a) /\ agents[a] = cfg[a]

(***************************************************************************)
(* Things go down in order.  Nobody stops an agent that is still coming up *)
(* (a change is refused, and the node cancels the start and waits for it); *)
(* no command is carried out on an agent whose channel is being taken      *)
(* down, unless the drain itself was cancelled; and when the storage is    *)
(* closed nothing is left that uses it: no command, wake, request or       *)
(* start, and no part of an agent but what a cancelled stop or a late wake *)
(* left.                                                                   *)
(***************************************************************************)
GoesDownInOrder ==
  /\ \A t \in Stoppers, a \in Agents :
       on[t] # None /\ StoppingOf(t, on[t]) => ~StartingOf(a, on[t])
  /\ \A h \in Handlers, t \in Tasks :
       inFlight[h] # None /\ StoppingOf(t, inFlight[h])
         => pc[t] \in {"drain", "gather"} \/ hurt[t]
  /\ pc[Main] = "down" =>
       /\ \A h \in Handlers : inFlight[h] = None
       /\ wake = None
       /\ \A t \in Tasks \ {Main} : pc[t] = "over"
       /\ \A i \in Instances : live[i] \subseteq {"worker"} \/ CutShort(i)

(* the limit passed where a stop loses the cancellation *)
LimitLost == pc[Main] = "server" /\ limit /\ ~cut[Main]

(***************************************************************************)
(* The stop of a node comes to its end, by itself or at its limit - unless *)
(* the limit passed in the one place where a stop loses a cancellation,    *)
(* and a command nobody cancelled is waited for afterwards.  And a change  *)
(* is carried through: the stop in the middle of it ends whatever the      *)
(* commands of the agent do, and the control's task goes on.               *)
(***************************************************************************)
StopsAndChangesEnd ==
  /\ Stopping ~> (~Running \/ LimitLost)
  /\ change # None ~> (change = None \/ ~Running)
=============================================================================

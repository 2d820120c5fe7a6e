--------------------------- MODULE MCRuntimeTurns ---------------------------
(***************************************************************************)
(* A session of the one runtime or of the other: the bounds of Claude's are *)
(* those of the configuration, Codex may meet one upset more.               *)
(***************************************************************************)
EXTENDS ClaudeTurns

VARIABLES runtime, app, queue, call, xsteer, xconn, xturn, agent, halt, xcount, xpast

Codex == INSTANCE CodexTurns
    WITH steer <- xsteer, conn <- xconn, turn <- xturn, count <- xcount, past <- xpast,
         MaxSteers <- MaxSteers - 1, MaxUpsets <- MaxUpsets + 1

claude == vars
codex == <<app, queue, call, xsteer, xconn, xturn, agent, halt, xcount, xpast>>

MCInit == runtime \in {"claude", "codex"} /\ Init /\ Codex!Init

MCNext ==
    \/ runtime = "claude" /\ Next /\ UNCHANGED <<runtime, codex>>
    \/ runtime = "codex" /\ Codex!Next /\ UNCHANGED <<runtime, claude>>

MCSpec == MCInit /\ [][MCNext]_<<runtime, claude, codex>> /\ Fairness /\ Codex!Fairness

(* Between two operations on a Codex session nothing is left over: see      *)
(* NothingLeft of CodexTurns (runtime.py:266, :399, :500).                  *)
CodexLeavesNothing == Codex!NothingLeft

(* A turn of Codex is reported as the server ended it: see OutcomeIsOwn of  *)
(* CodexTurns (events.py:236, runtime.py:255).                              *)
CodexOutcomeIsOwn == Codex!OutcomeIsOwn

(* Every stream comes to an end, that of the one runtime and that of the    *)
(* other (claude/events.py:90, codex/events.py:165).                        *)
EveryStreamEnds == StreamsEnd /\ Codex!StreamsEnd
=============================================================================

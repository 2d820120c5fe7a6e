---------------------------- MODULE TurnFailover ----------------------------
(***************************************************************************)
(* What a turn goes through before its conversation hears how it ended:     *)
(* _run_notification and what it calls in core/orchestration/               *)
(* orchestrator.py, the TurnCoordinator of turn.py, the Agent's states of   *)
(* core/agent.py, and the pool of core/runtime.py that every actor of an    *)
(* agent shares.  RuntimeLoop sees of all this that its turn task ends.     *)
(*                                                                         *)
(* A session that will not come to rest is replaced once, a runtime that    *)
(* fails is banned for an hour and hands the turn to another one, and a     *)
(* turn the runtime lost sight of is reconciled until somebody knows.  One  *)
(* step is what an actor's task runs up to the answer it waits for next.    *)
(***************************************************************************)
EXTENDS Integers, FiniteSets, SequencesExt

CONSTANTS
    Actors,
    LastRuntime,  \* the runtimes are 0 .. LastRuntime, in order of priority
    MaxTurns,     \* bound: turns, of all actors together
    MaxUpsets     \* bound: bans that run out, contexts that go out of date,
                  \* processes that end by themselves, lost turns found running

ASSUME BoundsAssumption ==
    /\ LastRuntime \in Nat
    /\ MaxTurns \in Nat
    /\ MaxUpsets \in Nat

Runtimes == 0 .. LastRuntime
NoRuntime == -1
NoSession == [rt |-> NoRuntime, thread |-> FALSE, live |-> FALSE, stale |-> FALSE]
Fresh(r) == [rt |-> r, thread |-> FALSE, live |-> FALSE, stale |-> FALSE]

VARIABLES
    bans,     \* the banned runtimes, the one banned longest ago first
    holder,   \* the runtime that holds an actor's conversation
    session,  \* the actor's runtime session: whether its provider confirmed a
              \* thread, whether its process runs, whether its context is stale
    agent,    \* the agent as the actor sees it
    task,     \* the task of the actor's turn, see NoTask
    turns,    \* turns begun
    upsets    \* upsets so far

vars == <<bans, holder, session, agent, task, turns, upsets>>

(* pc: what the task waits for; tried: `attempted`; try: which of its two   *)
(* goes; result: how the turn came out.  The rest is history: the terminal  *)
(* events the conversation heard, whether a stream ended without one, the   *)
(* runtimes that have had the turn, and whether a process was just let go   *)
(* that runs on, with no session and nobody to stop it.                     *)
NoTask == [pc |-> "off", tried |-> {}, try |-> 0, result |-> "none",
           heard |-> 0, cut |-> FALSE, had |-> <<>>, loose |-> FALSE]

Init ==
    /\ bans = <<>>
    /\ holder = [a \in Actors |-> NoRuntime]
    /\ session = [a \in Actors |-> NoSession]
    /\ agent = [a \in Actors |-> "idle"]
    /\ task = [a \in Actors |-> NoTask]
    /\ turns = 0
    /\ upsets = 0

-----------------------------------------------------------------------------
(* The pool *)

Banned == {bans[i] : i \in DOMAIN bans}
Least(S) == CHOOSE x \in S : \A y \in S : x <= y

(* select: the first that is not banned, or the one banned longest ago *)
SelectOf(candidates) ==
    LET free == candidates \ Banned
    IN  IF free # {} THEN Least(free)
        ELSE bans[Least({i \in DOMAIN bans : bans[i] \in candidates})]

Select(tried) == SelectOf(Runtimes \ tried)

Without(r) == RemoveFirst(bans, r)
RecordFailure(r) == Append(Without(r), r)
RecordSuccess(r) == Without(r)

(* _record_runtime_outcome *)
Recorded(a, result) ==
    CASE result \in {"failed", "unknown"} -> RecordFailure(holder[a])
      [] result = "completed" -> RecordSuccess(holder[a])
      [] OTHER -> bans

(* _create_runtime_session *)
BoundOnce(a, r) == IF holder[a] = NoRuntime THEN [holder EXCEPT ![a] = r] ELSE holder
Bound(a, r) == [holder EXCEPT ![a] = r]

Creates(a, r) ==
    /\ session' = [session EXCEPT ![a] = Fresh(r)]
    /\ holder' = Bound(a, r)

(* A session and the agent as the actor sees it with that session           *)
Answer(s, live, state) == [session |-> [s EXCEPT !.live = live], agent |-> state]
Becomes(a, answer) ==
    /\ session' = [session EXCEPT ![a] = answer.session]
    /\ agent' = [agent EXCEPT ![a] = answer.agent]

(* _discard_runtime_session: with the session goes the actor's entry among  *)
(* the agent's states, and who has none is at rest.  What replaces the      *)
(* session is started, whatever became of the one before.                   *)
DiscardedAlone(a) == Answer(NoSession, FALSE, agent[a])
Discarded(a) == Answer(NoSession, FALSE, "idle")
Replaced(a, r) ==
    /\ Creates(a, r)
    /\ agent' = [agent EXCEPT ![a] = Discarded(a).agent]

Upset == upsets < MaxUpsets /\ upsets' = upsets + 1

Goes(a, f) == task' = [task EXCEPT ![a] = f]

-----------------------------------------------------------------------------
(* A turn finds its session *)

(* _run_notification, with something unread *)
Begin(a) ==
    /\ task[a].pc = "off"
    /\ turns < MaxTurns
    /\ turns' = turns + 1
    /\ Goes(a, [NoTask EXCEPT !.pc = "take"])
    /\ UNCHANGED <<bans, holder, session, agent, upsets>>

(* The actor's session, or one on a runtime the turn has not tried *)
TakeSession(a) ==
    LET t == task[a]
        r == Select(t.tried)
        s == IF session[a] = NoSession THEN Fresh(r) ELSE session[a]
    IN  /\ t.pc = "take"
        /\ IF session[a] = NoSession THEN Creates(a, r) ELSE UNCHANGED <<session, holder>>
        /\ Goes(a, [t EXCEPT !.pc = IF s.stale THEN "job" ELSE "ensure", !.try = 0,
                             !.tried = @ \cup {s.rt}, !.loose = FALSE])
        /\ UNCHANGED <<bans, agent, turns, upsets>>

(* _establish_runtime_session: a session whose context is out of date is    *)
(* replaced, unless it works in the background                              *)
StaleReplaced(a) ==
    /\ task[a].pc = "job"
    /\ Replaced(a, Select({}))
    /\ Goes(a, [task[a] EXCEPT !.pc = "ensure"])
    /\ UNCHANGED <<bans, turns, upsets>>

StaleKept(a) ==
    /\ task[a].pc = "job"
    /\ Goes(a, [task[a] EXCEPT !.pc = "ensure"])
    /\ UNCHANGED <<bans, holder, session, agent, turns, upsets>>

(* What start_session and reconcile_session leave, as the adapters answer:  *)
(* there is nothing to reconcile in a session without a thread              *)
Unsure(s) == {Answer(s, live, "recovering") : live \in BOOLEAN}

Start(s) ==
    {Answer([s EXCEPT !.thread = TRUE], TRUE, "idle"), Answer(s, FALSE, "failed")}
        \cup Unsure(s)

Reconcile(s) ==
    IF s.thread THEN {Answer(s, TRUE, "idle"), Answer(s, FALSE, "failed")} \cup Unsure(s)
    ELSE {Answer(s, FALSE, "failed")}

(* _ensure_runtime_session *)
Ensured(a) ==
    IF agent[a] = "recovering" THEN Reconcile(session[a])
    ELSE IF ~ session[a].thread THEN Start(session[a])
    ELSE {[session |-> session[a], agent |-> agent[a]]}

(* It rests, or it is the second go anyway *)
ReplacesAlways(t) == TRUE
Replaces(t) == t.try = 0

Ensure(a) ==
    /\ task[a].pc = "ensure"
    /\ \E answer \in Ensured(a) :
        /\ answer.agent = "idle" \/ ~ Replaces(task[a])
        /\ Becomes(a, answer)
    /\ Goes(a, [task[a] EXCEPT !.pc = "open", !.loose = FALSE])
    /\ UNCHANGED <<bans, holder, turns, upsets>>

(* It does not: it is abandoned to a teardown if nobody knows, discarded    *)
(* and replaced                                                             *)
LetGo(s, state) == s.live /\ state # "recovering"

EnsureAgain(a) ==
    /\ task[a].pc = "ensure" /\ Replaces(task[a])
    /\ \E answer \in Ensured(a) :
        /\ answer.agent # "idle"
        /\ Goes(a, [task[a] EXCEPT !.try = 1 - @, !.loose = LetGo(answer.session, answer.agent)])
    /\ Replaced(a, Select({}))
    /\ UNCHANGED <<bans, turns, upsets>>

(* _open_turn: the first attempt is recorded, or the turn ends there and    *)
(* its session is stopped                                                   *)
OpenTurn(a) ==
    /\ task[a].pc = "open"
    /\ Goes(a, [task[a] EXCEPT !.pc = "run", !.try = 0])
    /\ UNCHANGED <<bans, holder, session, agent, turns, upsets>>

SaveFails(a) ==
    /\ task[a].pc = "open" /\ task[a].had = <<>>
    /\ Becomes(a, Discarded(a))
    /\ Goes(a, NoTask)
    /\ UNCHANGED <<bans, holder, turns, upsets>>

-----------------------------------------------------------------------------
(* How a turn comes out *)

Terminal == {"completed", "cancelled", "failed", "unknown"}
Retryable == {"failed", "unknown"}

(* finish_turn keeps quiet while another runtime may have the turn; an      *)
(* event does so too, and leaves an unknown outcome to the orchestrator     *)
RetryAvailable(t) == t.tried # Runtimes
Announced(t, result) == IF RetryAvailable(t) /\ result \in Retryable THEN 0 ELSE 1
AnnouncedAlways(t, result) == Announced(t, result)
AnnouncedEvent(t, result) == IF result = "unknown" THEN 0 ELSE Announced(t, result)

AgentAfter(result) == IF result = "unknown" THEN "recovering" ELSE "idle"

(* _conclude: another runtime, if the turn has not tried them all.  The one *)
(* that had it is banned and its session discarded, running or not.  kept   *)
(* is the session, and the agent, that the turn left.                       *)
HandsOver(t, result) == result \in Retryable /\ RetryAvailable(t)

Concludes(a, t, kept, result) ==
    LET had == [t EXCEPT !.had = Append(@, holder[a])]
    IN  IF HandsOver(t, result)
        THEN /\ bans' = RecordFailure(holder[a])
             /\ Becomes(a, Discarded(a))
             /\ Goes(a, [had EXCEPT !.pc = "take", !.result = "none",
                                    !.loose = @ \/ kept.session.live])
        ELSE /\ Becomes(a, kept)
             /\ Goes(a, [had EXCEPT !.pc = "report", !.result = result])
             /\ UNCHANGED bans

(* _fail_turn: the runtime never carried the turn.  Its session is          *)
(* discarded, and abandoned to a teardown if nobody knows about it.         *)
FailTurn(a, result) ==
    LET t == task[a]
        told == [t EXCEPT !.heard = @ + Announced(t, result),
                          !.loose = LetGo(session[a], AgentAfter(result))]
    IN  /\ Concludes(a, told, Discarded(a), result)
        /\ UNCHANGED <<holder, turns, upsets>>

(* _run_turn_on_runtime: a session that is not at rest carries no turn *)
NotAtRest(a) ==
    /\ task[a].pc = "run"
    /\ agent[a] # "idle"
    /\ FailTurn(a, IF agent[a] = "recovering" THEN "unknown" ELSE "failed")

(* start_turn of a runtime whose process is gone: the session is reconciled *)
(* and asked once more                                                      *)
Unavailable(a) ==
    /\ task[a].pc = "run" /\ task[a].try = 0
    /\ agent[a] = "idle" /\ ~ session[a].live
    /\ agent' = [agent EXCEPT ![a] = "recovering"]
    /\ Goes(a, [task[a] EXCEPT !.pc = "again", !.try = 1])
    /\ UNCHANGED <<bans, holder, session, turns, upsets>>

Again(a) ==
    /\ task[a].pc = "again"
    /\ \E answer \in Ensured(a) : Becomes(a, answer)
    /\ Goes(a, [task[a] EXCEPT !.pc = "run"])
    /\ UNCHANGED <<bans, holder, turns, upsets>>

UnavailableAgain(a) ==
    /\ task[a].pc = "run" /\ task[a].try = 1
    /\ agent[a] = "idle" /\ ~ session[a].live
    /\ FailTurn(a, "failed")

(* start_turn answers with a stream *)
Streams(a) ==
    /\ task[a].pc = "run"
    /\ agent[a] = "idle" /\ session[a].live
    /\ agent' = [agent EXCEPT ![a] = "working"]
    /\ Goes(a, [task[a] EXCEPT !.pc = "stream"])
    /\ UNCHANGED <<bans, holder, session, turns, upsets>>

(* The stream's terminal event.  After an unknown one the adapter may have  *)
(* retired the connection.                                                  *)
TurnEvent(a) ==
    LET t == task[a]
    IN  /\ t.pc = "stream"
        /\ \E result \in Terminal, live \in BOOLEAN :
            /\ live => session[a].live
            /\ live # session[a].live => result = "unknown"
            /\ session' = [session EXCEPT ![a].live = live]
            /\ agent' = [agent EXCEPT ![a] = AgentAfter(result)]
            /\ Goes(a, [t EXCEPT !.pc = "settle", !.result = result,
                                 !.heard = @ + AnnouncedEvent(t, result)])
        /\ UNCHANGED <<bans, holder, turns, upsets>>

(* It ends without one, or it fails, or start_turn did: finish_turn *)
StreamCut(a) ==
    LET t == task[a]
    IN  /\ t.pc = "stream"
        /\ \E result \in Retryable, live \in BOOLEAN :
            /\ live => session[a].live
            /\ session' = [session EXCEPT ![a].live = live]
            /\ agent' = [agent EXCEPT ![a] = AgentAfter(result)]
            /\ Goes(a, [t EXCEPT !.pc = "settle", !.result = result,
                                 !.heard = @ + Announced(t, result),
                                 !.cut = @ \/ result = "unknown"])
        /\ UNCHANGED <<bans, holder, turns, upsets>>

(* _recover_turn, as long as the runtime is to say what became of the turn: *)
(* it still runs it, and the task reads on                                  *)
Resumes(a) ==
    /\ task[a].pc = "settle"
    /\ agent[a] = "recovering" /\ session[a].thread
    /\ session' = [session EXCEPT ![a].live = TRUE]
    /\ agent' = [agent EXCEPT ![a] = "working"]
    /\ Goes(a, [task[a] EXCEPT !.pc = "stream", !.result = "none"])
    /\ Upset
    /\ UNCHANGED <<bans, holder, turns>>

(* notify_terminal, for what only the orchestrator can settle *)
Told(t, result) ==
    [t EXCEPT !.heard = IF result = "unknown" /\ ~ HandsOver(t, result) THEN @ + 1 ELSE @]

(* it does not, and the session is at rest, or stopped and discarded *)
Recovered(a, answer) == IF answer.agent = "idle" THEN answer ELSE Discarded(a)

Settles(a) ==
    LET t == task[a]
    IN  /\ t.pc = "settle"
        /\ agent[a] = "recovering"
        /\ \E answer \in Ensured(a) :
            Concludes(a, Told(t, t.result), Recovered(a, answer), t.result)
        /\ UNCHANGED <<holder, turns, upsets>>

(* Nothing to recover *)
Concluded(a) ==
    LET t == task[a]
    IN  /\ t.pc = "settle"
        /\ agent[a] # "recovering"
        /\ Concludes(a, Told(t, t.result), Answer(session[a], session[a].live, agent[a]), t.result)
        /\ UNCHANGED <<holder, turns, upsets>>

(* The worker reports the end of the turn and records it for the pool *)
Report(a) ==
    /\ task[a].pc = "report"
    /\ bans' = Recorded(a, task[a].result)
    /\ Goes(a, NoTask)
    /\ UNCHANGED <<holder, session, agent, turns, upsets>>

-----------------------------------------------------------------------------
(* Beside the turns *)

(* An hour after it began: the turn that earned it is over by then, or it   *)
(* is with another runtime, for everything else it waits for ends sooner    *)
BanLapses ==
    /\ bans # <<>>
    /\ \A a \in Actors :
        (\E i \in DOMAIN task[a].had : task[a].had[i] = Head(bans)) =>
            task[a].pc = "stream"
    /\ Upset
    /\ bans' = Tail(bans)
    /\ UNCHANGED <<holder, session, agent, task, turns>>

(* _receive_runtime_event_loop: one session's context is out of date, and   *)
(* so is that of every session of the runtime                               *)
ContextExpires(a) ==
    /\ session[a].live
    /\ Upset
    /\ session' = [b \in Actors |->
                      IF session[b].rt = session[a].rt THEN [session[b] EXCEPT !.stale = TRUE]
                      ELSE session[b]]
    /\ UNCHANGED <<bans, holder, agent, task, turns>>

ProcessDies(a) ==
    /\ session[a].live
    /\ Upset
    /\ session' = [session EXCEPT ![a].live = FALSE]
    /\ UNCHANGED <<bans, holder, agent, task, turns>>

(* _stop_expired_runtime_if_idle *)
IdleStop(a) ==
    /\ task[a].pc = "off"
    /\ session[a] # NoSession /\ agent[a] = "idle"
    /\ Becomes(a, Discarded(a))
    /\ UNCHANGED <<bans, holder, task, turns, upsets>>

-----------------------------------------------------------------------------
Establishes(a) ==
    \/ TakeSession(a) \/ StaleReplaced(a) \/ StaleKept(a)
    \/ Ensure(a) \/ EnsureAgain(a) \/ OpenTurn(a) \/ SaveFails(a)

Runs(a) ==
    \/ NotAtRest(a) \/ Unavailable(a) \/ Again(a) \/ UnavailableAgain(a)
    \/ Streams(a) \/ TurnEvent(a) \/ StreamCut(a)
    \/ Resumes(a) \/ Settles(a) \/ Concluded(a) \/ Report(a)

Next ==
    \/ \E a \in Actors :
        \/ Begin(a) \/ Establishes(a) \/ Runs(a)
        \/ ContextExpires(a) \/ ProcessDies(a) \/ IdleStop(a)
    \/ BanLapses

Spec == Init /\ [][Next]_vars

(* Every call to a runtime ends in its time, a turn it streams ends, and    *)
(* the task then goes on.  Nobody has to write to the agent.                *)
FairSpec ==
    /\ Spec
    /\ \A a \in Actors : WF_vars(Establishes(a)) /\ WF_vars(Runs(a))

-----------------------------------------------------------------------------
(* Properties *)

(* Every variable has its type *)
TypeOK ==
    /\ bans \in Seq(Runtimes)
    /\ holder \in [Actors -> Runtimes \cup {NoRuntime}]
    /\ session \in [Actors -> [rt : Runtimes \cup {NoRuntime}, thread : BOOLEAN,
                              live : BOOLEAN, stale : BOOLEAN]]
    /\ agent \in [Actors -> {"idle", "working", "recovering", "failed"}]
    /\ task \in [Actors ->
          [pc : {"off", "take", "job", "ensure", "open", "run", "again", "stream",
                 "settle", "report"},
           tried : SUBSET Runtimes, try : 0 .. 1, result : Terminal \cup {"none"},
           heard : Nat, cut : BOOLEAN, had : Seq(Runtimes), loose : BOOLEAN]]
    /\ turns \in 0 .. MaxTurns
    /\ upsets \in 0 .. MaxUpsets

(* A conversation hears how its turn ended exactly once, however many       *)
(* runtimes had the turn and however often it was lost and found; it hears  *)
(* more only of a stream that ended without a terminal event on the last    *)
(* runtime (finish_turn announces the unknown outcome, and so does          *)
(* notify_terminal), and no adapter ends one like that.                     *)
AnnouncedOnce ==
    \A a \in Actors :
        /\ ~ task[a].cut => task[a].heard <= 1
        /\ task[a].pc = "report" => task[a].heard >= 1

(* Between turns, and while a turn looks for its session, the agent is at   *)
(* rest for the actor, whatever the turn or the runtime before left: so the *)
(* idle timer is started for a session that is kept, which its provider has *)
(* confirmed, and a session that replaces another is started and never      *)
(* reconciled.  A process is left running without a session, or anyone to   *)
(* stop it, only where its runtime lost the turn to another one.            *)
AtRestBetweenTurns ==
    \A a \in Actors :
        /\ task[a].pc \in {"off", "take", "job", "ensure"} => agent[a] = "idle"
        /\ task[a].pc = "off" /\ session[a] # NoSession => session[a].thread
        /\ task[a].loose => task[a].pc = "take" /\ task[a].had # <<>>

(* The pool blames the runtime that had the turn, though all it asks is     *)
(* which one holds the conversation: a session is of the holder's runtime,  *)
(* and a turn is handed on once for each runtime at the most.               *)
HolderIsRight ==
    /\ TypeOK
    /\ \A a \in Actors : Len(task[a].had) <= LastRuntime + 1
    /\ \A a \in Actors : session[a] # NoSession => holder[a] = session[a].rt

(* Every turn comes to its end. *)
TurnsEnd == \A a \in Actors : task[a].pc # "off" ~> task[a].pc = "off"
=============================================================================

----------------------------- MODULE RuntimeLoop -----------------------------
(***************************************************************************)
(* The worker that runs one actor's turns: _runtime_loop of                 *)
(* core/orchestration/orchestrator.py, with the queue it reads, the task    *)
(* that waits on that queue while a turn runs, the quiet timer that steers  *)
(* what came in into the turn, and the idle timer whose expiry stops the    *)
(* runtime session.                                                         *)
(*                                                                         *)
(* The turn task is what the loop sees of it: it runs, it ends, and it      *)
(* leaves the actor with a session at rest or without one.  A step is what  *)
(* the event loop runs between two suspensions of the worker.               *)
(***************************************************************************)
EXTENDS Integers, Sequences, FiniteSets

CONSTANTS
    MaxNotes,   \* bound: notifications that arrive
    MaxJobs     \* bound: expiries that find the runtime busy in the background

ASSUME BoundsAssumption == MaxNotes \in Nat /\ MaxJobs \in Nat

Notes == 1 .. MaxNotes              \* in the order of their arrival
MaxTimers == MaxNotes + MaxJobs     \* every batch and every busy expiry starts one
NoTimer == 0
IsNote(x) == x > 0
Expiry(t) == -t                     \* the expiry that timer t puts on the queue
Items == -MaxTimers .. MaxNotes

(* The items of s at the places S, in their order; its notifications, and   *)
(* what else it holds                                                       *)
Place(S, k) == CHOOSE i \in S : Cardinality({j \in S : j <= i}) = k
Picked(s, S) == [k \in 1 .. Cardinality(S) |-> s[Place(S, k)]]
NotesIn(s) == Picked(s, {i \in DOMAIN s : IsNote(s[i])})
OthersIn(s) == Picked(s, {i \in DOMAIN s : ~ IsNote(s[i])})

VARIABLES
    queue,     \* the runtime queue
    (* the worker *)
    pc,        \* where it is suspended
    pending,   \* taken off the queue, not yet taken up
    batch,     \* what the running turn was opened for
    joined,    \* what was steered into it
    getting,   \* whether queue_task waits for an item
    got,       \* the item of a queue_task that is done, until it is absorbed
    turn,      \* turn_task
    steer,     \* the quiet timer
    (* the actor's runtime session and its idle timer *)
    session,   \* whether there is a session
    bound,     \* the timer bound to it, NoTimer when there is none
    fired,     \* whether that timer has run out
    expired,   \* binding.expired
    (* history *)
    timers,    \* idle timers made
    jobs,      \* expiries that found a background job
    arrived,   \* notifications put on the queue
    settled,   \* how often each was settled
    steered    \* the notifications fetched while a steer waited for its answer

worker   == <<pc, pending, batch, joined, getting, got, turn, steer>>
timer    == <<session, bound, fired, expired, timers>>
loopVars == <<queue, worker, timer, jobs, arrived, settled, steered>>

LoopInit ==
    /\ queue = <<>>
    /\ pc = "rest"
    /\ pending = <<>>
    /\ batch = <<>>
    /\ joined = <<>>
    /\ getting = FALSE
    /\ got = <<>>
    /\ turn = "off"
    /\ steer = "off"
    /\ session = FALSE
    /\ bound = NoTimer
    /\ fired = FALSE
    /\ expired = FALSE
    /\ timers = 0
    /\ jobs = 0
    /\ arrived = 0
    /\ settled = [n \in Notes |-> 0]
    /\ steered = {}

-----------------------------------------------------------------------------
(* What happens beside the worker *)

(* The ingress worker, a wake or a reminder puts a notification *)
Arrive ==
    /\ arrived < MaxNotes
    /\ arrived' = arrived + 1
    /\ queue' = Append(queue, arrived + 1)
    /\ UNCHANGED <<worker, timer, jobs, settled, steered>>

(* _forward_runtime_session_expiry: the idle time is over *)
IdleTimerFires ==
    /\ bound # NoTimer /\ ~ fired
    /\ fired' = TRUE
    /\ queue' = Append(queue, Expiry(bound))
    /\ UNCHANGED <<worker, session, bound, expired, timers, jobs, arrived, settled, steered>>

(* queue_task has its item *)
Fetch ==
    /\ getting /\ queue # <<>>
    /\ getting' = FALSE
    /\ got' = <<Head(queue)>>
    /\ queue' = Tail(queue)
    /\ UNCHANGED <<pc, pending, batch, joined, turn, steer, timer, jobs, arrived, settled,
                   steered>>

(* turn_task ends, well or with an error: the actor's session is at rest,   *)
(* or it was discarded, or there was nothing unread and none was started    *)
TurnEnds ==
    /\ turn = "on"
    /\ turn' = "over"
    /\ session' \in BOOLEAN
    /\ UNCHANGED <<queue, pc, pending, batch, joined, getting, got, steer, bound, fired,
                   expired, timers, jobs, arrived, settled, steered>>

(* Nothing came in for a while *)
QuietEnds ==
    /\ steer = "on"
    /\ steer' = "due"
    /\ UNCHANGED <<queue, pc, pending, batch, joined, getting, got, turn, timer, jobs,
                   arrived, settled, steered>>

-----------------------------------------------------------------------------
(* The worker at rest: the next item, from pending before the queue *)

NoBinding == bound' = NoTimer /\ fired' = FALSE /\ expired' = FALSE
NewBinding ==
    /\ timers' = timers + 1
    /\ bound' = timers + 1
    /\ fired' = FALSE
    /\ expired' = FALSE

(* _take_notifications: the run of notifications at the head of s *)
RunOf(s) == CHOOSE k \in 0 .. Len(s) :
                /\ \A i \in 1 .. k : IsNote(s[i])
                /\ k < Len(s) => ~ IsNote(s[k + 1])

(* An expiry that ends the run was taken off the queue, and stays pending *)
LeftPending(s, k) ==
    LET all == s \o queue
    IN  IF k < Len(s) THEN SubSeq(s, k + 1, Len(s))
        ELSE IF k < Len(all) THEN <<all[k + 1]>> ELSE <<>>

TakeBatch ==
    LET all == pending \o queue
        k   == RunOf(all)
        q   == SubSeq(all, k + 2, Len(all))
    IN  /\ pc = "rest"
        /\ all # <<>> /\ IsNote(all[1])
        /\ batch' = SubSeq(all, 1, k)
        /\ pending' = LeftPending(pending, k)
        /\ queue' = IF k < Len(pending) THEN queue ELSE q
        /\ NoBinding
        /\ turn' = "on"
        /\ getting' = TRUE
        /\ joined' = <<>>
        /\ pc' = "turn"
        /\ UNCHANGED <<got, steer, session, timers, jobs, arrived, settled, steered>>

(* _handle_runtime_expiry: an expiry of the timer now bound marks it.  *)
AnyBinding(x) == bound # NoTimer
Matches(x) == bound # NoTimer /\ x = Expiry(bound)

TakeExpiry ==
    LET all == pending \o queue
        quiescent == Len(all) = 1
    IN  /\ pc = "rest"
        /\ all # <<>> /\ ~ IsNote(all[1])
        /\ pending' = IF pending = <<>> THEN <<>> ELSE Tail(pending)
        /\ queue' = IF pending = <<>> THEN Tail(queue) ELSE queue
        /\ expired' = (expired \/ Matches(all[1]))
        /\ pc' = IF Matches(all[1]) /\ session /\ quiescent THEN "expiry" ELSE "rest"
        /\ UNCHANGED <<batch, joined, getting, got, turn, steer, session, bound, fired,
                       timers, jobs, arrived, settled, steered>>

(* _stop_expired_runtime_if_idle, once it holds the actor's lock *)
ExpiryLooks ==
    /\ pc = "expiry"
    /\ pc' = IF queue = <<>> THEN "probe" ELSE "rest"
    /\ UNCHANGED <<queue, pending, batch, joined, getting, got, turn, steer, timer, jobs,
                   arrived, settled, steered>>

(* The runtime still works in the background, or does not answer: once more *)
JobGoesOn == NewBinding

FindsJob ==
    /\ pc = "probe"
    /\ jobs < MaxJobs
    /\ jobs' = jobs + 1
    /\ JobGoesOn
    /\ pc' = "rest"
    /\ UNCHANGED <<queue, pending, batch, joined, getting, got, turn, steer, session,
                   arrived, settled, steered>>

(* It does not: the session is stopped *)
StopSession ==
    /\ pc = "probe"
    /\ session' = FALSE
    /\ NoBinding
    /\ pc' = "rest"
    /\ UNCHANGED <<queue, pending, batch, joined, getting, got, turn, steer, timers, jobs,
                   arrived, settled, steered>>

-----------------------------------------------------------------------------
(* The worker beside a turn: asyncio.wait returns with what is done by then *)

(* _absorb_queue_item: a notification waits in pending and starts the quiet *)
(* time again, an expiry is looked at and comes too late                    *)
Absorb ==
    /\ pending' = pending \o NotesIn(got)
    /\ expired' = (expired \/ \E i \in DOMAIN got : Matches(got[i]))
    /\ got' = <<>>

SteerNow == steer = "due" /\ NotesIn(got) = <<>> /\ turn = "on"

(* Round and round: a new queue_task in place of one that is done *)
Absorbs ==
    /\ pc = "turn" /\ turn = "on" /\ ~ SteerNow
    /\ got # <<>>
    /\ Absorb
    /\ steer' = IF NotesIn(got) # <<>> THEN "on" ELSE steer
    /\ getting' = TRUE
    /\ UNCHANGED <<queue, pc, batch, joined, turn, session, bound, fired, timers, jobs,
                   arrived, settled, steered>>

(* The quiet time is over: _steer_active_turn asks the runtime *)
SteerStarts ==
    /\ pc = "turn" /\ SteerNow
    /\ Absorb
    /\ steer' = "off"
    /\ pc' = "steering"
    /\ UNCHANGED <<queue, batch, joined, getting, turn, session, bound, fired, timers, jobs,
                   arrived, settled, steered>>

(* It answers.  A queue_task that is done by now, absorbed before or not,   *)
(* is replaced by a new one, and its item with it.                          *)
SteeredIn == joined \o NotesIn(pending)

PendingLeft == OthersIn(pending)

SteerAnswered(taken) ==
    /\ pc = "steering"
    /\ joined' = IF taken THEN SteeredIn ELSE joined
    /\ pending' = IF taken THEN PendingLeft ELSE pending
    /\ steered' = steered \cup {got[i] : i \in DOMAIN got}
    /\ got' = <<>>
    /\ getting' = TRUE
    /\ pc' = "turn"
    /\ UNCHANGED <<queue, batch, turn, steer, timer, jobs, arrived, settled>>

(* The turn is over: the idle timer starts, the ending is reported *)
BreaksWhenDrained == turn = "over" /\ pending = <<>>
Breaks == turn = "over"

TurnIsOver ==
    /\ pc = "turn" /\ Breaks
    /\ pending' = pending \o NotesIn(got)
    /\ got' = <<>>
    /\ steer' = IF NotesIn(got) # <<>> THEN "on" ELSE steer
    /\ IF session THEN NewBinding
       ELSE bound' = bound /\ fired' = fired /\ timers' = timers
            /\ expired' = (expired \/ \E i \in DOMAIN got : Matches(got[i]))
    /\ pc' = "ending"
    /\ UNCHANGED <<queue, batch, joined, getting, turn, session, jobs, arrived, settled,
                   steered>>

(* The completions of what the turn took are settled, and an item that was  *)
(* fetched meanwhile is kept for the next round                             *)
GotFirst == got \o pending
GotKept == pending \o got

Settle ==
    /\ pc = "ending"
    /\ settled' = [n \in Notes |-> settled[n] +
                      Cardinality({i \in DOMAIN batch : batch[i] = n}) +
                      Cardinality({i \in DOMAIN joined : joined[i] = n})]
    /\ pending' = GotKept
    /\ got' = <<>>
    /\ getting' = FALSE
    /\ steer' = "off"
    /\ turn' = "off"
    /\ batch' = <<>>
    /\ joined' = <<>>
    /\ pc' = "rest"
    /\ UNCHANGED <<queue, timer, jobs, arrived, steered>>

-----------------------------------------------------------------------------
Beside == Arrive \/ IdleTimerFires \/ Fetch \/ TurnEnds \/ QuietEnds

Rest == TakeBatch \/ TakeExpiry \/ ExpiryLooks \/ FindsJob \/ StopSession

Steering == SteerStarts \/ \E taken \in BOOLEAN : SteerAnswered(taken)

LoopNext == Beside \/ Rest \/ Absorbs \/ Steering \/ TurnIsOver \/ Settle

LoopSpec == LoopInit /\ [][LoopNext]_loopVars

(* Tasks that can go on do, a runtime answers a steer in its time, and a    *)
(* turn comes to its end.  Nothing makes messages arrive.                   *)
LoopFairSpec ==
    /\ LoopSpec
    /\ WF_loopVars(Fetch) /\ WF_loopVars(TurnEnds)
    /\ WF_loopVars(Rest) /\ WF_loopVars(Absorbs) /\ WF_loopVars(Steering)
    /\ WF_loopVars(TurnIsOver) /\ WF_loopVars(Settle)

-----------------------------------------------------------------------------
(* Properties *)

(* Every variable has its type *)
LoopTypeOK ==
    /\ queue \in Seq(Items)
    /\ pc \in {"rest", "expiry", "probe", "turn", "steering", "ending"}
    /\ pending \in Seq(Items)
    /\ batch \in Seq(Notes)
    /\ joined \in Seq(Notes)
    /\ getting \in BOOLEAN
    /\ got \in Seq(Items) /\ Len(got) <= 1
    /\ turn \in {"off", "on", "over"}
    /\ steer \in {"off", "on", "due"}
    /\ session \in BOOLEAN
    /\ bound \in 0 .. MaxTimers
    /\ fired \in BOOLEAN
    /\ expired \in BOOLEAN
    /\ timers \in 0 .. MaxTimers
    /\ jobs \in 0 .. MaxJobs
    /\ arrived \in 0 .. MaxNotes
    /\ settled \in [Notes -> Nat]
    /\ steered \subseteq Items

(* Everything on its way, in the order in which it will be taken up *)
Line == batch \o joined \o pending \o got \o queue
Waiting == {n \in Notes : \E i \in DOMAIN Line : Line[i] = n}

(* Messages are taken up in the order in which they arrived, whatever was   *)
(* steered, turned down or fetched while a turn was ending, and every one   *)
(* is accounted for: it is on its way, or whoever waits for it was          *)
(* answered, once, and it is not taken up again.  Only one that came in     *)
(* while a steer waited for its answer may drop out of the loop (l. 780).   *)
AccountedInOrder ==
    /\ LoopTypeOK
    /\ \A i, j \in DOMAIN Line :
          i < j /\ IsNote(Line[i]) /\ IsNote(Line[j]) => Line[i] < Line[j]
    /\ \A n \in 1 .. arrived :
          \/ settled[n] = IF n \in Waiting THEN 0 ELSE 1
          \/ settled[n] = 0 /\ n \in steered

(* "What the turn takes is settled with it, what it does not is the next    *)
(* batch" (_runtime_loop): no message drops out of the loop.                *)
NoneLost == \A n \in 1 .. arrived : settled[n] > 0 \/ n \in Waiting

(* A session at rest has a timer that will stop it, or its expiry or        *)
(* another message is on the way to the worker: none is forgotten.          *)
SessionTimed ==
    pc = "rest" /\ session =>
        \/ bound # NoTimer /\ ~ fired
        \/ \E i \in DOMAIN pending : IsNote(pending[i]) \/ Matches(pending[i])
        \/ \E i \in DOMAIN queue : IsNote(queue[i]) \/ Matches(queue[i])

(* Idle sessions are timed: one is stopped for being idle only when the     *)
(* timer started after its last turn has run out, with no turn on it, and   *)
(* then it is (orchestrator.py:919 and :971).                               *)
IdleIsTimed ==
    /\ []SessionTimed
    /\ [][session /\ ~ session' /\ turn # "on" => fired /\ turn = "off"]_loopVars

(* Every message is dealt with in the end, or was lost to a steer. *)
AllSettled == \A n \in Notes : n <= arrived ~> settled[n] > 0 \/ n \in steered
=============================================================================

----------------------------- MODULE FleetControl -----------------------------
(***************************************************************************)
(* Requests handed down to a computer and their answers coming back: the   *)
(* askers and the Controls of the server (bazaar_compute_server/control.py) *)
(* and the node that polls, runs and answers (contrib/server/control.py),   *)
(* over a stream that may lose answers (contrib/server/audit.py), with      *)
(* restarts on both sides.  One computer; they share nothing.               *)
(***************************************************************************)
EXTENDS Integers, FiniteSets

CONSTANTS
    Askers,          \* pages that ask, each one thing at a time
    Requests,        \* what may be asked
    PollLimit,       \* how many requests one poll hands over (20)
    ClockClimbs,     \* whether a restarted server finds a clock past every id given out
    MaxClock,        \* bound: the last millisecond of the clock
    MaxId,           \* bound: the last update id
    MaxServerStops,  \* bound: restarts of the server
    MaxNodeStops     \* bound: restarts of the node

ASSUME BoundsAssumption == /\ PollLimit \in Nat \ {0}
                           /\ ClockClimbs \in BOOLEAN
                           /\ MaxClock \in Nat \ {0}
                           /\ MaxId \in Nat
                           /\ MaxServerStops \in Nat
                           /\ MaxNodeStops \in Nat

Ids == 1 .. MaxId
Nothing == 0
ASSUME RequestsAssumption == Nothing \notin Requests

VARIABLES
    clock,     \* now_ms() at the server
    (* the server process *)
    lastId,    \* _last_id
    asks,      \* the _Asked objects that someone can still see, by update id
    table,     \* _asked: the ids a poll may hand over
    inflight,  \* _in_flight: the id out for each request, Nothing when there is none
    asker,     \* the id whose answer each asker waits for, Nothing when it is not asking
    (* the node process *)
    offset,    \* _offset
    todo,      \* the updates of the last poll still to be answered, by rising id
    ran,       \* whether the request of the next of them has been run
    outbox,    \* the control.result events on their way to the server
    (* history *)
    runs,      \* how often each id was run since the node started
    serverStops, nodeStops

server == <<lastId, asks, table, inflight, asker>>
node   == <<offset, todo, ran, outbox, runs>>
stops  == <<serverStops, nodeStops>>
controlVars == <<clock, server, node, stops>>

AskedRecord == [request : Requests \cup {Nothing}, answer : Requests \cup {Nothing},
                waiters : SUBSET Askers]
NoAsk == [request |-> Nothing, answer |-> Nothing, waiters |-> {}]
Update == [id : Ids, request : Requests]

ControlInit ==
    /\ clock = 1
    /\ lastId = 0
    /\ asks = [i \in Ids |-> NoAsk]
    /\ table = {}
    /\ inflight = [r \in Requests |-> Nothing]
    /\ asker = [a \in Askers |-> Nothing]
    /\ offset = 0
    /\ todo = {}
    /\ ran = FALSE
    /\ outbox = {}
    /\ runs = [i \in Ids |-> 0]
    /\ serverStops = 0
    /\ nodeStops = 0

Elapse ==
    /\ clock < MaxClock
    /\ clock' = clock + 1
    /\ UNCHANGED <<server, node, stops>>

-----------------------------------------------------------------------------
(* Controls.ask *)

IdAfterLast(last) == last + 1
NextId(last) == IF last + 1 > clock THEN last + 1 ELSE clock

(* The request is out already: one more waits on it *)
Join(a, r) ==
    /\ asker[a] = Nothing
    /\ inflight[r] # Nothing
    /\ asks' = [asks EXCEPT ![inflight[r]].waiters = @ \cup {a}]
    /\ asker' = [asker EXCEPT ![a] = inflight[r]]
    /\ UNCHANGED <<clock, lastId, table, inflight, node, stops>>

Ask(a, r) ==
    LET id == NextId(lastId)
    IN  /\ asker[a] = Nothing
        /\ inflight[r] = Nothing
        /\ id <= MaxId
        /\ lastId' = id
        /\ asks' = [asks EXCEPT ![id] = [request |-> r, answer |-> Nothing, waiters |-> {a}]]
        /\ table' = table \cup {id}
        /\ inflight' = [inflight EXCEPT ![r] = id]
        /\ asker' = [asker EXCEPT ![a] = id]
        /\ UNCHANGED <<clock, node, stops>>

(* _forget: only the object that is in flight takes its request out of it *)
Forget(id) ==
    /\ table' = table \ {id}
    /\ inflight' = IF inflight[asks[id].request] = id
                   THEN [inflight EXCEPT ![asks[id].request] = Nothing] ELSE inflight

(* Whether nobody waits for it once a has left *)
LastOrNot(a, id) == TRUE
LastToLeave(a, id) == asks[id].waiters = {a}

Leaves(a, id) == [asks EXCEPT ![id].waiters = @ \ {a}]

(* The wait times out, or the page is gone; the last to leave forgets it *)
GiveUp(a) ==
    LET id == asker[a]
    IN  /\ id # Nothing
        /\ asker' = [asker EXCEPT ![a] = Nothing]
        /\ asks' = Leaves(a, id)
        /\ IF LastToLeave(a, id) /\ asks[id].answer = Nothing
           THEN Forget(id) ELSE UNCHANGED <<table, inflight>>
        /\ UNCHANGED <<clock, lastId, node, stops>>

(* An asker is resumed with the answer; one that joined just before the     *)
(* callback below ran is not even suspended.                                *)
TakeAnswer(a) ==
    LET id == asker[a]
    IN  /\ id # Nothing
        /\ asks[id].answer # Nothing
        /\ asker' = [asker EXCEPT ![a] = Nothing]
        /\ asks' = Leaves(a, id)
        /\ UNCHANGED <<clock, lastId, table, inflight, node, stops>>

(* The done callback of an answered request, run by the loop a while later *)
ForgetAnswered(id) ==
    /\ id \in table
    /\ asks[id].answer # Nothing
    /\ Forget(id)
    /\ UNCHANGED <<clock, lastId, asks, asker, node, stops>>

(* The server goes down and comes up: who asked is cut off *)
ServerRestart ==
    /\ serverStops < MaxServerStops
    /\ serverStops' = serverStops + 1
    /\ clock' \in 1 .. MaxClock
    /\ ClockClimbs => clock' > clock /\ clock' > lastId
    /\ lastId' = 0
    /\ asks' = [i \in Ids |-> NoAsk]
    /\ table' = {}
    /\ inflight' = [r \in Requests |-> Nothing]
    /\ asker' = [a \in Askers |-> Nothing]
    /\ UNCHANGED <<node, nodeStops>>

-----------------------------------------------------------------------------
(* The node's poll, and its way through what it got *)

(* _pending: past the offset, oldest first, up to the limit *)
PendingNewest(after) ==
    {i \in table : i > after /\ Cardinality({j \in table : j > i}) < PollLimit}
Pending(after) ==
    {i \in table : i > after /\ Cardinality({j \in table : j > after /\ j < i}) < PollLimit}

(* A poll that comes through with something; one that finds nothing, is     *)
(* refused or is lost changes nothing, and the node polls again             *)
Poll ==
    /\ todo = {}
    /\ Pending(offset) # {}
    /\ todo' = {[id |-> i, request |-> asks[i].request] : i \in Pending(offset)}
    /\ UNCHANGED <<clock, server, offset, ran, outbox, runs, stops>>

IsNext(u) == u \in todo /\ \A v \in todo : u.id <= v.id

(* _answer_request: the request takes effect *)
Run(u) ==
    /\ IsNext(u)
    /\ ~ ran
    /\ ran' = TRUE
    /\ runs' = [runs EXCEPT ![u.id] = @ + 1]
    /\ UNCHANGED <<clock, server, offset, todo, outbox, stops>>

(* The offset after an update has been answered *)
OffsetKept(id) == offset
OffsetAfter(id) == IF id > offset THEN id ELSE offset

(* The rest of _answer: the result is put on the stream, or turned away at  *)
(* its door when too much waits there (audit.append), and the offset moves  *)
(* on                                                                       *)
Answer(u) ==
    /\ IsNext(u)
    /\ ran
    /\ outbox' \in {outbox \cup {u}, outbox}
    /\ offset' = OffsetAfter(u.id)
    /\ todo' = todo \ {u}
    /\ ran' = FALSE
    /\ UNCHANGED <<clock, server, runs, stops>>

(* A report carries a result to the server: Controls.answered.  One that    *)
(* timed out at the node may still arrive, after later ones.                *)
Answerable(id) == id \in table /\ asks[id].answer = Nothing

Report(u) ==
    /\ u \in outbox
    /\ asks' = IF Answerable(u.id) THEN [asks EXCEPT ![u.id].answer = u.request] ELSE asks
    /\ outbox' = outbox \ {u}
    /\ UNCHANGED <<clock, lastId, table, inflight, asker, offset, todo, ran, runs, stops>>

(* A report that does not get through is not sent again *)
Lose(u) ==
    /\ u \in outbox
    /\ outbox' = outbox \ {u}
    /\ UNCHANGED <<clock, server, offset, todo, ran, runs, stops>>

(* What is on its way when the node goes down may arrive or be lost *)
NodeRestart ==
    /\ nodeStops < MaxNodeStops
    /\ nodeStops' = nodeStops + 1
    /\ offset' = 0
    /\ todo' = {}
    /\ ran' = FALSE
    /\ runs' = [i \in Ids |-> 0]
    /\ UNCHANGED <<clock, server, outbox, serverStops>>

-----------------------------------------------------------------------------
Node == Poll \/ \E u \in todo : Run(u) \/ Answer(u)

ControlNext ==
    \/ Elapse
    \/ \E a \in Askers :
          \/ \E r \in Requests : Join(a, r) \/ Ask(a, r)
          \/ GiveUp(a)
          \/ TakeAnswer(a)
    \/ \E id \in Ids : ForgetAnswered(id)
    \/ ServerRestart
    \/ Node
    \/ \E u \in outbox : Report(u) \/ Lose(u)
    \/ NodeRestart

ControlSpec == ControlInit /\ [][ControlNext]_controlVars

(* The node polls for as long as it runs, and a poll comes through in the   *)
(* end; nothing makes pages ask, wait, or reports arrive.                   *)
ControlFairSpec == ControlSpec /\ WF_controlVars(Node)

-----------------------------------------------------------------------------
(* Properties *)

ControlTypeOK ==
    /\ clock \in 1 .. MaxClock
    /\ lastId \in 0 .. MaxId
    /\ asks \in [Ids -> AskedRecord]
    /\ table \subseteq Ids
    /\ inflight \in [Requests -> Ids \cup {Nothing}]
    /\ asker \in [Askers -> Ids \cup {Nothing}]
    /\ offset \in 0 .. MaxId
    /\ todo \subseteq Update
    /\ ran \in BOOLEAN
    /\ outbox \subseteq Update
    /\ runs \in [Ids -> Nat]
    /\ serverStops \in 0 .. MaxServerStops
    /\ nodeStops \in 0 .. MaxNodeStops

(* "Nothing kept once no one waits any more": a request that polls hand out *)
(* is one somebody waits for, or one answered whose callback is about to    *)
(* run; and what new askers join is handed out.                             *)
NothingKept ==
    /\ \A id \in table : asks[id].waiters # {} \/ asks[id].answer # Nothing
    /\ \A r \in Requests : inflight[r] # Nothing =>
          inflight[r] \in table /\ asks[inflight[r]].request = r

(* Whoever waits, waits for something that can still come: its request is   *)
(* on the table, or its answer is there.                                    *)
NoAskerStranded ==
    \A a \in Askers : asker[a] # Nothing =>
        /\ a \in asks[asker[a]].waiters
        /\ asker[a] \in table \/ asks[asker[a]].answer # Nothing

(* An answer is the answer to the request it is given for, whatever was     *)
(* forgotten, asked again or restarted while it was on its way.             *)
RightAnswer == \A id \in Ids : asks[id].answer \in {Nothing, asks[id].request}

(* A node runs what it is asked once in its lifetime.  (test_control.py:     *)
(* "asked once, run once, answered once".)                                  *)
RunOnce == \A id \in Ids : runs[id] <= 1

(* "A node's offset from before a restart of the server is still behind     *)
(* what comes after it" (Controls.__init__): no request is invisible to the *)
(* node, unless the node has run it or is about to.                         *)
AheadOfOffset ==
    \A id \in table : asks[id].answer = Nothing => id > offset \/ runs[id] > 0

(* What is asked of a node that polls is run, or given up by who asked. *)
AskedIsRun ==
    \A id \in Ids : id \in table /\ asks[id].answer = Nothing ~>
                        runs[id] > 0 \/ id \notin table \/ asks[id].answer # Nothing
=============================================================================

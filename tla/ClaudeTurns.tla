---------------------------- MODULE ClaudeTurns ----------------------------
(***************************************************************************)
(* One session of the Claude runtime: the process and its pipes, the client *)
(* that reads them (contrib/claude/client.py), the connection that counts   *)
(* the results a turn has still to come (contrib/claude/runtime.py), the    *)
(* stream that ends with the last of them (contrib/claude/events.py), and   *)
(* messages steered into a turn, permissions asked for, sessions stopped    *)
(* and opened again around it.                                             *)
(*                                                                         *)
(* The process is not this repository's.  As the client expects of it, it   *)
(* works in cycles: one begins with the next input, or by itself for the    *)
(* background work that has come to an end, may take in further inputs as   *)
(* it goes, and ends with a result.                                        *)
(***************************************************************************)
EXTENDS Integers, Sequences

CONSTANTS
    MaxTurns,   \* bound: turns
    MaxSteers,  \* bound: messages steered in
    MaxOwn,     \* bound: cycles the process begins by itself, and permissions it asks for
    MaxUpsets   \* bound: what goes wrong

ASSUME BoundsAssumption == {MaxTurns, MaxSteers, MaxOwn, MaxUpsets} \subseteq Nat

VARIABLES
    process,  \* up; stdin: inputs not yet taken; its cycle; whether it waits
              \* for a permission; out: what it has written and nobody read
    client,   \* whether the reader runs, the inbox of the turn, the provider
              \* cycle, the route lock, whether a permission is being seen to
    conn,     \* the connection: registered, its lock, turn and counts
    turn,     \* where the turn stands, and the result it looks at
    steer,    \* where the steering stands
    old,      \* a process that has been replaced is still being stopped
    count,    \* how much of everything there has been
    past      \* history: what the code cannot tell apart (NothingLeftBehind, StreamsEnd)

vars == <<process, client, conn, turn, steer, old, count, past>>

None == "none"
NoInbox == [open |-> FALSE, items |-> <<>>, adopted |-> FALSE]
NewProcess == [up |-> TRUE, stdin |-> 0, cycle |-> None, asks |-> FALSE, out |-> <<>>]
NoProcess == [NewProcess EXCEPT !.up = FALSE]
NewClient == [reader |-> TRUE, inbox |-> NoInbox, cycle |-> "idle", route |-> FALSE, task |-> FALSE]
NewConn == [state |-> "open", lock |-> None, active |-> FALSE, pending |-> 0,
            init |-> FALSE, doomed |-> FALSE]
NotYet == [begun |-> FALSE, early |-> FALSE, astray |-> FALSE]

Init ==
    /\ process = NewProcess
    /\ client = NewClient
    /\ conn = NewConn
    /\ turn = [pc |-> "off", result |-> None]
    /\ steer = "off"
    /\ old = FALSE
    /\ count = [turns |-> 0, steers |-> 0, own |-> 0, upsets |-> 0]
    /\ past = NotYet

Counted(what, max) == count[what] < max /\ count' = [count EXCEPT ![what] = @ + 1]
Upset == Counted("upsets", MaxUpsets)
Goes(pc) == turn' = [turn EXCEPT !.pc = pc, !.result = None]

-----------------------------------------------------------------------------
(* The process *)

Writes(envelope) == Append(process.out, envelope)
HumanResult == "human_result"
WakeResult == "wake_result"
Results == {HumanResult, WakeResult}

CycleStarts ==
    /\ process.up /\ process.cycle = None /\ process.stdin > 0
    /\ process' = [process EXCEPT !.cycle = HumanResult, !.stdin = @ - 1, !.out = Writes("init")]
    /\ UNCHANGED <<client, conn, turn, steer, old, count, past>>

WakeStarts ==
    /\ process.up /\ process.cycle = None
    /\ count.turns > 0 /\ Counted("own", MaxOwn)
    /\ process' = [process EXCEPT !.cycle = WakeResult, !.out = Writes("notification")]
    /\ UNCHANGED <<client, conn, turn, steer, old, past>>

Absorbs ==
    /\ process.up /\ process.cycle # None /\ process.stdin > 0
    /\ process' = [process EXCEPT !.stdin = @ - 1]
    /\ UNCHANGED <<client, conn, turn, steer, old, count, past>>

CycleEnds ==
    /\ process.up /\ process.cycle # None /\ ~ process.asks
    /\ process' = [process EXCEPT !.cycle = None, !.out = Writes(process.cycle)]
    /\ UNCHANGED <<client, conn, turn, steer, old, count, past>>

SeesTo == \E i \in DOMAIN process.out : process.out[i] \in {"ask", "withdrawn"}

(* one permission at a time *)
AsksPermission ==
    /\ process.up /\ process.cycle # None
    /\ ~ process.asks /\ ~ client.task /\ ~ SeesTo
    /\ Counted("own", MaxOwn)
    /\ process' = [process EXCEPT !.asks = TRUE, !.out = Writes("ask")]
    /\ UNCHANGED <<client, conn, turn, steer, old, past>>

Withdraws ==
    /\ process.up /\ process.asks
    /\ process' = [process EXCEPT !.asks = FALSE, !.out = Writes("withdrawn")]
    /\ UNCHANGED <<client, conn, turn, steer, old, count, past>>

(* the user clears the conversation from within, or Claude does *)
Resets ==
    /\ process.up /\ Upset
    /\ process' = [process EXCEPT !.out = Writes("reset")]
    /\ UNCHANGED <<client, conn, turn, steer, old, past>>

(* _watch_process puts the end behind what the process has written *)
Dies ==
    /\ process.up /\ Upset
    /\ process' = [NoProcess EXCEPT !.out = Writes("closed")]
    /\ UNCHANGED <<client, conn, turn, steer, old, past>>

-----------------------------------------------------------------------------
(* The client *)

Opened(cycle) == IF cycle = "wake" THEN "adopted" ELSE "foreground"
Closed(cycle) == IF cycle \in {"wake", "adopted"} THEN "wake" ELSE "idle"
WakeBegun(cycle) == IF cycle \in {"foreground", "adopted"} THEN "adopted" ELSE "wake"
WakeOver(cycle) == IF cycle \in {"foreground", "adopted"} THEN "foreground" ELSE "idle"

Delivered(inbox, item) ==
    IF inbox.open THEN [inbox EXCEPT !.items = Append(@, item)] ELSE inbox

(* _route_business_message; the stream passes over what is no result, so    *)
(* only results and resets are kept                                         *)
Routed(c, m) ==
    LET begun == IF m = "notification" THEN WakeBegun(c.cycle) ELSE c.cycle
        seen == [c.inbox EXCEPT !.adopted = @ \/ (c.inbox.open /\ begun = "adopted")]
    IN  [c EXCEPT
           !.inbox = IF m \in Results \cup {"reset"} THEN Delivered(seen, m) ELSE seen,
           !.cycle = IF m = WakeResult THEN WakeOver(begun) ELSE begun]

(* observe: an init while more than one result is to come proves that       *)
(* another follows; a reset with no turn on retires the connection          *)
Observed(m) ==
    /\ conn' = [conn EXCEPT
                  !.init = @ \/ (m = "init" /\ conn.pending > 1),
                  !.doomed = @ \/ (m = "reset" /\ ~ client.inbox.open)]
    /\ past' = [past EXCEPT
                  !.begun = @ \/ m = "init",
                  !.early = @ \/ (m = "init" /\ ~ past.begun /\ conn.pending > 1)]

Fresh == Head(process.out)
Taken == process' = [process EXCEPT !.out = Tail(@)]
Hears == client.reader /\ process.out # <<>>

(* a message read while a turn opens waits for the route lock, and comes    *)
(* next                                                                     *)
Reads ==
    /\ Hears /\ Fresh \notin {"closed", "ask", "withdrawn"}
    /\ ~ client.route
    /\ Taken
    /\ client' = Routed(client, Fresh)
    /\ Observed(Fresh)
    /\ UNCHANGED <<turn, steer, old, count>>

(* _handle_control_request becomes a task, or is cancelled *)
ReadsControl ==
    /\ Hears /\ Fresh \in {"ask", "withdrawn"}
    /\ Taken
    /\ client' = [client EXCEPT !.task = Fresh = "ask"]
    /\ UNCHANGED <<conn, turn, steer, old, count, past>>

(* the turn's handler has an answer, or there is no handler and that is it; *)
(* to the turn it is a failure where the process is gone or does not read   *)
(* for ten seconds, after which it may still come to it                     *)
Answers ==
    /\ client.task
    /\ process' = [process EXCEPT !.asks = FALSE]
    /\ \/ /\ process.up /\ UNCHANGED count
          /\ client' = [client EXCEPT !.task = FALSE]
       \/ /\ (~ process.up /\ UNCHANGED count) \/ Upset
          /\ client' = [client EXCEPT !.task = FALSE, !.inbox = Delivered(@, "failure")]
    /\ UNCHANGED <<conn, turn, steer, old, past>>

(* receive raises: _publish_failure, and the reader is done *)
ReaderEnds ==
    /\ Hears /\ Fresh = "closed"
    /\ Taken
    /\ client' = [client EXCEPT !.reader = FALSE, !.inbox = Delivered(@, "failure")]
    /\ UNCHANGED <<conn, turn, steer, old, count, past>>

-----------------------------------------------------------------------------
(* A turn *)

(* start_turn, up to the drain of what open_turn has written *)
TurnStarts ==
    /\ turn.pc = "off" /\ steer = "off"
    /\ Counted("turns", MaxTurns)
    /\ conn.state = "open" /\ process.up
    /\ conn.lock = None /\ ~ conn.active
    /\ ~ client.route
    /\ conn' = [conn EXCEPT !.lock = "turn", !.active = TRUE, !.pending = 1,
                            !.init = FALSE]
    /\ client' = [client EXCEPT
                    !.route = TRUE, !.cycle = Opened(@),
                    !.inbox = [open |-> TRUE, items |-> <<>>,
                               adopted |-> Opened(client.cycle) = "adopted"]]
    /\ process' = [process EXCEPT !.stdin = @ + 1]
    /\ past' = [past EXCEPT !.begun = FALSE, !.early = FALSE]
    /\ Goes("opens")
    /\ UNCHANGED <<steer, old>>

Unlocked == [conn EXCEPT !.lock = None]

TurnOpens ==
    /\ turn.pc = "opens"
    /\ conn' = Unlocked
    /\ client' = [client EXCEPT !.route = FALSE]
    /\ Goes("reads")
    /\ UNCHANGED <<process, steer, old, count, past>>

(* the drain takes too long, or finds the process gone; what handles its    *)
(* permissions is cancelled                                                 *)
OpenFails ==
    /\ turn.pc = "opens"
    /\ (~ process.up /\ UNCHANGED count) \/ Upset
    /\ conn' = Unlocked
    /\ client' = [client EXCEPT !.route = FALSE, !.task = FALSE]
    /\ Goes("fails")
    /\ UNCHANGED <<process, steer, old, past>>

(* cancelled while it drains: closed again, but not unwritten *)
OpenCancelled ==
    /\ turn.pc = "opens" /\ Upset
    /\ conn' = [Unlocked EXCEPT !.active = FALSE, !.pending = 0]
    /\ client' = [client EXCEPT !.route = FALSE, !.task = FALSE,
                                !.inbox = NoInbox, !.cycle = Closed(@)]
    /\ past' = [past EXCEPT !.astray = TRUE]
    /\ Goes("off")
    /\ UNCHANGED <<process, steer, old>>

(* __anext__ *)
StreamReads ==
    /\ turn.pc = "reads" /\ client.inbox.items # <<>>
    /\ LET item == Head(client.inbox.items)
       IN  IF item \in {"failure", "reset"}
           THEN Goes("fails")
           ELSE turn' = IF item = HumanResult \/ client.inbox.adopted
                        THEN [turn EXCEPT !.pc = "claims", !.result = item]
                        ELSE turn
    /\ client' = [client EXCEPT !.inbox.items = Tail(@)]
    /\ UNCHANGED <<process, conn, steer, old, count, past>>

(* _claim_result: with one result to come this was it; with more, an init   *)
(* says that another follows, and none within the grace says it does not    *)
OneResultLess == [Unlocked EXCEPT !.init = FALSE, !.pending = @ - 1]
LastResult == [Unlocked EXCEPT !.pending = 0]

Claims ==
    /\ turn.pc = "claims" /\ conn.lock = None
    /\ CASE conn.pending <= 1 -> conn' = LastResult /\ Goes("closes")
         [] conn.pending > 1 /\ conn.init -> conn' = OneResultLess /\ Goes("reads")
         [] OTHER -> conn' = [conn EXCEPT !.lock = "turn"] /\ Goes("grace")
    /\ past' = [past EXCEPT !.astray = @ \/ turn.result = WakeResult]
    /\ UNCHANGED <<process, client, steer, old, count>>

GraceEnds ==
    /\ turn.pc = "grace"
    /\ \/ conn.init /\ conn' = OneResultLess /\ Goes("reads") /\ UNCHANGED past
       \/ /\ conn' = LastResult /\ Goes("closes")
          /\ past' = [past EXCEPT !.astray = TRUE]
    /\ UNCHANGED <<process, client, steer, old, count>>

(* aclose before the end, or cancelled: the turn is given up *)
StreamCloses ==
    /\ turn.pc \in {"reads", "claims", "grace"} /\ Upset
    /\ conn' = IF turn.pc = "grace" THEN Unlocked ELSE conn
    /\ Goes("fails")
    /\ UNCHANGED <<process, client, steer, old, past>>

(* _retire_connection, unless somebody else has *)
Fails ==
    /\ turn.pc = "fails"
    /\ IF conn.state = "open"
       THEN conn' = [conn EXCEPT !.state = "stopping"] /\ Goes("retires")
       ELSE Goes("closes") /\ UNCHANGED conn
    /\ UNCHANGED <<process, client, steer, old, count, past>>

Retires ==
    /\ turn.pc = "retires" /\ conn.state = "closed"
    /\ Goes("closes")
    /\ UNCHANGED <<process, client, conn, steer, old, count, past>>

(* close_turn, with the one lock after the other *)
Closes ==
    /\ turn.pc = "closes" /\ ~ client.route
    /\ client' = [client EXCEPT !.inbox = NoInbox, !.cycle = Closed(@)]
    /\ Goes("clears")
    /\ UNCHANGED <<process, conn, steer, old, count, past>>

Clears ==
    /\ turn.pc = "clears" /\ conn.lock = None
    /\ conn' = [conn EXCEPT !.active = FALSE, !.pending = 0]
    /\ Goes("off")
    /\ UNCHANGED <<process, client, steer, old, count, past>>

-----------------------------------------------------------------------------
(* steer_turn *)

Turning == {"opens", "reads", "claims", "grace", "fails", "retires", "closes", "clears"}

SteerStarts ==
    /\ steer = "off" /\ turn.pc \in Turning
    /\ Counted("steers", MaxSteers)
    /\ conn.state = "open" /\ process.up
    /\ steer' = "waits"
    /\ UNCHANGED <<process, client, conn, turn, old, past>>

SteerSends ==
    /\ steer = "waits" /\ conn.lock = None
    /\ IF conn.active /\ conn.pending > 0 /\ process.up
       THEN /\ conn' = [conn EXCEPT !.lock = "steer", !.init = @ /\ conn.pending > 1]
            /\ process' = [process EXCEPT !.stdin = @ + 1]
            /\ steer' = "sends"
       ELSE steer' = "off" /\ UNCHANGED <<conn, process>>
    /\ UNCHANGED <<client, turn, old, count, past>>

(* counted once it is written, and not where the process is gone *)
SteerUncounted ==
    /\ steer = "sends"
    /\ conn' = Unlocked
    /\ steer' = "off"
    /\ UNCHANGED <<process, client, turn, old, count, past>>
SteerCounts ==
    /\ steer = "sends"
    /\ \/ conn' = [Unlocked EXCEPT !.pending = @ + 1]
       \/ ~ process.up /\ conn' = Unlocked
    /\ steer' = "off"
    /\ UNCHANGED <<process, client, turn, old, count, past>>

SteerTimesOut ==
    /\ steer = "sends" /\ Upset
    /\ conn' = Unlocked
    /\ steer' = "off"
    /\ past' = [past EXCEPT !.astray = TRUE]
    /\ UNCHANGED <<process, client, turn, old>>

-----------------------------------------------------------------------------
(* The session *)

(* a reset between turns: a task of its own *)
RetiresDoomed ==
    /\ conn.doomed /\ conn.state = "open"
    /\ conn' = [conn EXCEPT !.state = "stopping"]
    /\ UNCHANGED <<process, client, turn, steer, old, count, past>>

(* stop_session *)
StopsSession ==
    /\ turn.pc = "off" /\ steer = "off"
    /\ conn.state = "open" /\ Upset
    /\ conn' = [conn EXCEPT !.state = "stopping"]
    /\ Goes("stops")
    /\ UNCHANGED <<process, client, steer, old, past>>

(* _stop_connection is through: the process is gone, and close has told the *)
(* turn that is still attached                                              *)
SilentlyStopped ==
    /\ conn.state = "stopping"
    /\ process' = NoProcess
    /\ client' = [client EXCEPT !.reader = FALSE, !.task = FALSE]
    /\ conn' = [conn EXCEPT !.state = "closed"]
    /\ UNCHANGED <<turn, steer, old, count, past>>
Stopped ==
    /\ conn.state = "stopping"
    /\ process' = NoProcess
    /\ client' = [client EXCEPT !.reader = FALSE, !.task = FALSE,
                                !.inbox = Delivered(@, "failure")]
    /\ conn' = [conn EXCEPT !.state = "closed"]
    /\ UNCHANGED <<turn, steer, old, count, past>>

(* reconcile_session, where there is no process to take a turn or it is in  *)
(* doubt: what is registered is stopped first                               *)
ReconcilesAtOnce ==
    /\ turn.pc = "off" /\ steer = "off"
    /\ (conn.state # "open" /\ UNCHANGED count) \/ Upset
    /\ Goes("opens_session")
    /\ UNCHANGED <<process, client, conn, steer, old, past>>
Reconciles ==
    /\ turn.pc = "off" /\ steer = "off"
    /\ IF conn.state = "open"
       THEN /\ (~ process.up /\ UNCHANGED count) \/ Upset
            /\ conn' = [conn EXCEPT !.state = "stopping"]
            /\ Goes("restarts")
       ELSE Goes("opens_session") /\ UNCHANGED <<conn, count>>
    /\ UNCHANGED <<process, client, steer, old, past>>

StopsFirst ==
    /\ turn.pc \in {"stops", "restarts"} /\ conn.state = "closed"
    /\ Goes(IF turn.pc = "stops" THEN "off" ELSE "opens_session")
    /\ UNCHANGED <<process, client, conn, steer, old, count, past>>

(* _open_connection *)
OpensSession ==
    /\ turn.pc = "opens_session"
    /\ old' = (old \/ conn.state # "closed")
    /\ process' = NewProcess
    /\ client' = NewClient
    /\ conn' = NewConn
    /\ past' = NotYet
    /\ Goes("off")
    /\ UNCHANGED <<steer, count>>

OldStops ==
    /\ old
    /\ old' = FALSE
    /\ UNCHANGED <<process, client, conn, turn, steer, count, past>>

-----------------------------------------------------------------------------
Works == CycleStarts \/ CycleEnds
Listens == Reads \/ ReadsControl \/ ReaderEnds
Streams == TurnOpens \/ StreamReads \/ Claims \/ GraceEnds \/ Fails \/ Retires \/ Closes \/ Clears
Steers == SteerSends \/ SteerCounts
Opens == StopsFirst \/ OpensSession

Next ==
    \/ Works \/ WakeStarts \/ Absorbs \/ AsksPermission \/ Withdraws \/ Resets \/ Dies
    \/ Listens \/ Answers
    \/ TurnStarts \/ Streams \/ OpenFails \/ OpenCancelled \/ StreamCloses
    \/ SteerStarts \/ Steers \/ SteerTimesOut
    \/ RetiresDoomed \/ StopsSession \/ Stopped \/ Reconciles \/ Opens \/ OldStops

Spec == Init /\ [][Next]_vars

(* The process works on, every task that can goes on, a stop kills what     *)
(* does not end by itself, and a handler answers within its time            *)
Fairness ==
    /\ WF_vars(Works) /\ WF_vars(Listens) /\ WF_vars(Answers)
    /\ WF_vars(Streams) /\ WF_vars(Steers) /\ WF_vars(Stopped) /\ WF_vars(Opens)

FairSpec == Spec /\ Fairness

-----------------------------------------------------------------------------
(* Properties *)

Envelopes == Results \cup {"init", "notification", "ask", "withdrawn", "reset", "closed"}
Items == Results \cup {"reset", "failure"}
Pcs == Turning \cup {"off", "stops", "restarts", "opens_session"}

TypeOK ==
    /\ process \in [up : BOOLEAN, stdin : Nat, cycle : Results \cup {None},
                    asks : BOOLEAN, out : Seq(Envelopes)]
    /\ client \in [reader : BOOLEAN,
                   inbox : [open : BOOLEAN, items : Seq(Items), adopted : BOOLEAN],
                   cycle : {"idle", "foreground", "wake", "adopted"},
                   route : BOOLEAN, task : BOOLEAN]
    /\ conn \in [state : {"open", "stopping", "closed"}, lock : {None, "turn", "steer"},
                 active : BOOLEAN, pending : Nat, init : BOOLEAN, doomed : BOOLEAN]
    /\ turn \in [pc : Pcs, result : Results \cup {None}]
    /\ steer \in {"off", "waits", "sends"}
    /\ old \in BOOLEAN
    /\ count \in [{"turns", "steers", "own", "upsets"} -> Nat]
    /\ past \in [begun : BOOLEAN, early : BOOLEAN, astray : BOOLEAN]

Holds(m) == \E i \in DOMAIN process.out : process.out[i] = m
PersonsWork == process.stdin > 0 \/ process.cycle = HumanResult \/ Holds(HumanResult)

(* Nothing of a turn is left behind for the next: at rest, a connection has *)
(* no input of a person still to work on and no result of one still to be   *)
(* read, the provider cycle has no foreground, and no steering counts       *)
(* toward the next turn (runtime.py:340 and :392, client.py:268).  Astray   *)
(* are the turns the code ends at somebody else's result, after waiting for *)
(* an init in vain, or with an input written and not counted.               *)
NothingLeftBehind ==
    /\ TypeOK
    /\ client.inbox.open <=> client.cycle \in {"foreground", "adopted"}
    /\ turn.pc = "off" => ~ conn.active /\ conn.pending = 0 /\ ~ client.inbox.open
    /\ turn.pc = "off" /\ conn.state = "open" /\ process.up /\ ~ past.astray => ~ PersonsWork

(* Every turn comes to an end, however the process, the permissions, the    *)
(* steering and the stops fall, and gives the connection                    *)
(* free (events.py:90-143).  Excepted is a turn whose own first init is     *)
(* seen after a steered message has been counted: see the README.           *)
StreamsEnd == turn.pc \in Turning ~> (turn.pc = "off" \/ past.early)

(* A process is started beside one still being stopped only where a reset   *)
(* between turns has retired the connection in a task nobody waits for      *)
(* (runtime.py:239 and :561); and one that can take a turn is listened to.  *)
OneProcess ==
    [][/\ old' /\ ~ old => conn.doomed
       /\ turn'.pc = "opens" /\ turn.pc # "opens" => client.reader]_vars
=============================================================================

----------------------------- MODULE CodexTurns -----------------------------
(***************************************************************************)
(* One session of the Codex runtime: the App Server process with its        *)
(* supervisor, which sorts what it says into answers and a queue            *)
(* (contrib/codex/process.py), the stream that reads one turn out of that   *)
(* queue (contrib/codex/events.py), and the runtime that starts turns,      *)
(* steers them, and after a turn it lost asks the server what became of it, *)
(* to take it back, to go on or to begin anew (contrib/codex/runtime.py).   *)
(*                                                                         *)
(* The App Server is not this repository's.  As the adapter expects of it,  *)
(* it takes requests in their order and runs one turn at a time.  A turn    *)
(* has the same number here on both sides.                                  *)
(***************************************************************************)
EXTENDS Integers, Sequences

CONSTANTS
    MaxTurns,   \* bound: turns
    MaxSteers,  \* bound: messages steered in
    MaxOwn,     \* bound: approvals asked for
    MaxUpsets   \* bound: what goes wrong

VARIABLES
    app,    \* the process: its state, the turn it runs, whether that waits for
            \* an approval, the requests it has not taken, a fatal error
    queue,  \* what it has said that was no answer
    call,   \* the request the session waits on, and its answer
    steer,  \* the same of a steering
    conn,   \* the connection: registered, and the turn it has on
    turn,   \* where the operation on the session stands, and its turn
    agent,  \* what the core makes of the session
    halt,   \* how far the runtime is in going down
    count,  \* how much of everything there has been
    past    \* history: how the server ended each turn, those given up on it

vars == <<app, queue, call, steer, conn, turn, agent, halt, count, past>>

None == "none"
Turns == 1 .. MaxTurns
NewApp == [state |-> "up", turn |-> 0, asks |-> FALSE, stdin |-> <<>>, fatal |-> FALSE]
NoApp == [NewApp EXCEPT !.state = "gone"]
NoCall == [kind |-> None, answer |-> None, turn |-> 0]

Init ==
    /\ app = NoApp
    /\ queue = <<>>
    /\ call = NoCall
    /\ steer = NoCall
    /\ conn = [registered |-> FALSE, active |-> 0]
    /\ turn = [pc |-> "off", id |-> 0, known |-> FALSE, first |-> None, lost |-> FALSE,
               attempt |-> 0, then |-> None, end |-> None]
    /\ agent = "new"
    /\ halt = "no"
    /\ count = [turns |-> 0, steers |-> 0, own |-> 0, upsets |-> 0]
    /\ past = [ended |-> [t \in Turns |-> None], astray |-> {}]

Counted(what, max) == count[what] < max /\ count' = [count EXCEPT ![what] = @ + 1]
Upset == Counted("upsets", MaxUpsets)
Goes(pc) == turn' = [turn EXCEPT !.pc = pc]

(* is_running *)
Running == app.state \in {"up", "dying"}

-----------------------------------------------------------------------------
(* The process and its supervisor *)

Said(what, t) == Append(queue, [what |-> what, turn |-> t])
Request(kind, t) == [kind |-> kind, turn |-> t]

(* _route_message: an answer nobody waits for is put with the rest *)
Awaits(c, r) == c.kind = r.kind /\ c.turn = r.turn /\ c.answer = None
Answered(r, answer, t) ==
    /\ call' = IF Awaits(call, r) THEN [call EXCEPT !.answer = answer, !.turn = t] ELSE call
    /\ steer' = IF Awaits(steer, r) THEN [steer EXCEPT !.answer = answer] ELSE steer
    /\ queue' = IF Awaits(call, r) \/ Awaits(steer, r) THEN queue ELSE Said("stray", 0)

(* pending requests fail with the transport *)
FailPending(answer) ==
    /\ call' = IF call.kind # None /\ call.answer = None
               THEN [call EXCEPT !.answer = answer] ELSE call
    /\ steer' = IF steer.kind # None /\ steer.answer = None
                THEN [steer EXCEPT !.answer = answer] ELSE steer

Handles ==
    /\ app.state = "up" /\ app.stdin # <<>>
    /\ LET r == Head(app.stdin)
           rest == [app EXCEPT !.stdin = Tail(@)]
       IN  CASE r.kind = "start" ->
                  \/ /\ app.turn = 0
                     /\ app' = [rest EXCEPT !.turn = r.turn]
                     /\ Answered(r, "ok", r.turn) /\ UNCHANGED count
                  \/ /\ (app.turn # 0 /\ UNCHANGED count) \/ Upset
                     /\ app' = rest /\ Answered(r, "refused", 0)
             [] r.kind = "steer" ->
                  /\ app' = rest /\ UNCHANGED count
                  /\ Answered(r, IF app.turn = r.turn THEN "ok" ELSE "refused", 0)
             [] OTHER -> app' = rest /\ Answered(r, "ok", app.turn) /\ UNCHANGED count
    /\ UNCHANGED <<conn, turn, agent, halt, past>>

Asks ==
    /\ app.state = "up" /\ app.turn # 0 /\ ~ app.asks
    /\ Counted("own", MaxOwn)
    /\ app' = [app EXCEPT !.asks = TRUE]
    /\ queue' = Said("ask", app.turn)
    /\ UNCHANGED <<call, steer, conn, turn, agent, halt, past>>

Ends(status) ==
    /\ app.state = "up" /\ app.turn # 0
    /\ app' = [app EXCEPT !.turn = 0, !.asks = FALSE]
    /\ queue' = Said(status, app.turn)
    /\ past' = [past EXCEPT !.ended[app.turn] = status]
    /\ UNCHANGED <<call, steer, conn, turn, agent, halt>>

TurnEnds == ~ app.asks /\ UNCHANGED count /\ \E status \in {"completed", "failed"} : Ends(status)
Interrupted == Upset /\ Ends("interrupted")

Dead == [NoApp EXCEPT !.state = "dead", !.fatal = app.fatal]

Dies ==
    /\ Running /\ Upset
    /\ app' = Dead
    /\ UNCHANGED <<queue, call, steer, conn, turn, agent, halt, past>>

(* _protocol_failure: a line that cannot be read; nothing more is, and the  *)
(* process is asked to end                                                  *)
Garbles ==
    /\ app.state = "up" /\ Upset
    /\ app' = [app EXCEPT !.state = "dying", !.fatal = TRUE]
    /\ FailPending("garbled")
    /\ UNCHANGED <<queue, conn, turn, agent, halt, past>>

Exits ==
    /\ app.state = "dying"
    /\ app' = Dead
    /\ UNCHANGED <<queue, call, steer, conn, turn, agent, halt, count, past>>

(* _watch_process, once the pipes are at their end; a request made after    *)
(* the fatal error is left to its timeout                                   *)
Watched ==
    /\ app.state = "dead"
    /\ app' = NoApp
    /\ IF app.fatal THEN UNCHANGED <<call, steer>> ELSE FailPending("exited")
    /\ queue' = Said("closed", 0)
    /\ UNCHANGED <<conn, turn, agent, halt, count, past>>

-----------------------------------------------------------------------------
(* A turn *)

Sends(kind, t) ==
    /\ app' = [app EXCEPT !.stdin = Append(@, Request(kind, t))]
    /\ call' = [NoCall EXCEPT !.kind = kind, !.turn = t]

StartsTurn ==
    /\ turn.pc = "off" /\ agent = "idle" /\ halt = "no"
    /\ conn.registered /\ Running /\ conn.active = 0
    /\ Counted("turns", MaxTurns)
    /\ LET n == count.turns + 1
       IN  /\ Sends("start", n)
           /\ turn' = [turn EXCEPT !.pc = "starts", !.id = n, !.known = FALSE,
                                   !.first = None, !.lost = FALSE, !.end = None]
    /\ UNCHANGED <<queue, steer, conn, agent, halt, past>>

(* RuntimeSessionUnavailable *)
Unavailable ==
    /\ turn.pc = "off" /\ agent = "idle" /\ halt = "no"
    /\ count.turns < MaxTurns /\ ~ Running
    /\ agent' = "lost"
    /\ turn' = [turn EXCEPT !.lost = FALSE]
    /\ UNCHANGED <<app, queue, call, steer, conn, halt, count, past>>

(* whatever came of it, there is a stream, which says so at once; not told  *)
(* what the server began, nobody knows its turn                             *)
HasStream(known, first) ==
    /\ turn' = [turn EXCEPT !.pc = "streams", !.known = known, !.first = first]
    /\ conn' = [conn EXCEPT !.active = turn.id]
    /\ call' = NoCall
    /\ UNCHANGED <<app, queue, steer, agent, halt>>

Started ==
    /\ turn.pc = "starts" /\ call.answer # None
    /\ HasStream(call.answer = "ok",
                 CASE call.answer = "ok" -> None
                   [] call.answer = "refused" -> "refused"
                   [] OTHER -> "unknown")
    /\ UNCHANGED <<count, past>>

StartUnread ==
    /\ turn.pc = "starts" /\ call.answer = "ok" /\ Upset
    /\ HasStream(FALSE, "refused")
    /\ past' = [past EXCEPT !.astray = @ \cup {turn.id}]

(* a process that does not read any more answers nothing in time *)
TimesOut == call.answer = None /\ ((app.state # "up" /\ UNCHANGED count) \/ Upset)

StartTimesOut ==
    /\ turn.pc = "starts" /\ TimesOut
    /\ HasStream(FALSE, "unknown")
    /\ UNCHANGED past

(* _terminal_event, and what the core makes of it; _clear_active_turn *)
Over(end) ==
    /\ turn' = [turn EXCEPT !.pc = "off", !.end = end, !.lost = end = "unknown"]
    /\ conn' = IF conn.registered /\ conn.active = turn.id
               THEN [conn EXCEPT !.active = 0] ELSE conn
    /\ agent' = IF end = "unknown" THEN "lost" ELSE "idle"
    /\ UNCHANGED <<call, steer, halt>>

EndsAtOnce ==
    /\ turn.pc = "streams" /\ turn.first # None
    /\ Over(turn.first)
    /\ UNCHANGED <<app, queue, count, past>>

IsAnybodys(m) == turn.known
IsOwn(m) == turn.known /\ m.turn = turn.id
Unasked(t) == [app EXCEPT !.asks = @ /\ app.turn # t]

(* __anext__: what is another turn's is passed over, but an approval that   *)
(* is ends this one                                                         *)
StreamReads ==
    /\ turn.pc = "streams" /\ turn.first = None /\ queue # <<>>
    /\ queue' = Tail(queue)
    /\ LET m == Head(queue)
       IN  CASE m.what = "ask" /\ m.turn = turn.id ->
                  Goes("approves") /\ UNCHANGED <<app, call, steer, conn, agent, halt>>
             [] m.what = "ask" /\ m.turn # turn.id -> app' = Unasked(m.turn) /\ Over("unknown")
             [] m.what \in {"completed", "failed"} /\ IsOwn(m) -> UNCHANGED app /\ Over(m.what)
             [] m.what = "closed" \/ (m.what = "interrupted" /\ IsOwn(m)) ->
                  UNCHANGED app /\ Over("unknown")
             [] OTHER -> UNCHANGED <<app, call, steer, conn, turn, agent, halt>>
    /\ UNCHANGED <<count, past>>

Approves ==
    /\ turn.pc = "approves" /\ Running
    /\ app' = Unasked(turn.id)
    /\ Goes("streams")
    /\ UNCHANGED <<queue, call, steer, conn, agent, halt, count, past>>

(* the handler fails, which the server is told, or it cannot be answered *)
ApprovalFails ==
    /\ turn.pc = "approves"
    /\ (~ Running /\ UNCHANGED count) \/ Upset
    /\ app' = Unasked(turn.id)
    /\ Over("unknown")
    /\ UNCHANGED <<queue, past>>

(* the core fails over an event: aclose, and the turn is a failed one *)
StreamCut ==
    /\ turn.pc = "streams" /\ Upset
    /\ Over("cut")
    /\ past' = [past EXCEPT !.astray = @ \cup {turn.id}]
    /\ UNCHANGED <<app, queue>>

-----------------------------------------------------------------------------
(* steer_turn *)

SteerStarts ==
    /\ steer = NoCall /\ turn.pc \in {"streams", "approves"} /\ turn.known
    /\ conn.registered /\ Running /\ conn.active = turn.id
    /\ Counted("steers", MaxSteers)
    /\ app' = [app EXCEPT !.stdin = Append(@, Request("steer", turn.id))]
    /\ steer' = [NoCall EXCEPT !.kind = "steer", !.turn = turn.id]
    /\ UNCHANGED <<queue, call, conn, turn, agent, halt, past>>

(* taken, refused, or not answered in time *)
SteerEnds ==
    /\ steer # NoCall
    /\ (steer.answer # None /\ UNCHANGED count) \/ Upset
    /\ steer' = NoCall
    /\ UNCHANGED <<app, queue, call, conn, turn, agent, halt, past>>

-----------------------------------------------------------------------------
(* The session *)

(* reconcile_session, of a session the core has lost: its connection is     *)
(* taken out while the server is asked                                      *)
Reconciles ==
    /\ turn.pc = "off" /\ agent = "lost" /\ halt = "no"
    /\ conn' = [conn EXCEPT !.registered = FALSE]
    /\ IF conn.registered /\ Running
       THEN Sends("read", 0) /\ turn' = [turn EXCEPT !.pc = "rereads", !.attempt = 0]
       ELSE /\ turn' = [turn EXCEPT !.pc = IF conn.registered THEN "drops" ELSE "opens",
                                    !.attempt = 0, !.then = "reopen"]
            /\ UNCHANGED <<app, call>>
    /\ UNCHANGED <<queue, steer, agent, halt, count, past>>

Drops(then) == turn' = [turn EXCEPT !.pc = "drops", !.then = then]

(* _pick_up_active_turn, or on to thread/resume *)
RereadsIdle ==
    /\ turn.pc = "rereads" /\ call.answer = "ok"
    /\ Sends("resume", 0) /\ Goes("resumes") /\ UNCHANGED <<conn, agent>>
    /\ UNCHANGED <<queue, steer, halt, count, past>>
Rereads ==
    /\ turn.pc = "rereads" /\ call.answer = "ok"
    /\ \/ /\ call.turn = 0
          /\ Sends("resume", 0) /\ Goes("resumes") /\ UNCHANGED <<conn, agent>>
       \/ /\ call.turn # 0 /\ turn.lost /\ turn.known /\ call.turn = turn.id
          /\ turn' = [turn EXCEPT !.pc = "streams", !.first = None, !.lost = FALSE, !.end = None]
          /\ conn' = [registered |-> TRUE, active |-> turn.id]
          /\ agent' = "idle" /\ call' = NoCall /\ UNCHANGED app
       \/ /\ call.turn # 0 /\ ~ (turn.lost /\ turn.known /\ call.turn = turn.id)
          /\ Drops(None) /\ call' = NoCall /\ UNCHANGED <<app, conn, agent>>
    /\ UNCHANGED <<queue, steer, halt, count, past>>

Registered ==
    /\ conn' = [conn EXCEPT !.registered = TRUE]
    /\ agent' = "idle"
    /\ Goes("off")

Resumes ==
    /\ turn.pc = "resumes" /\ call.answer = "ok"
    /\ call' = NoCall
    /\ Registered
    /\ UNCHANGED <<app, queue, steer, halt, count, past>>

(* no answer in time or no server is worth one more process, all else not *)
ReconcileFails ==
    /\ turn.pc \in {"rereads", "resumes"}
    /\ (call.answer \notin {None, "ok"} /\ UNCHANGED count) \/ TimesOut
    /\ turn' = [turn EXCEPT !.pc = "drops", !.attempt = 1,
                 !.then = IF call.answer # "garbled" /\ turn.attempt = 0 THEN "reopen" ELSE None]
    /\ call' = NoCall
    /\ UNCHANGED <<app, queue, steer, conn, agent, halt, past>>

(* _stop_connection is through *)
Dropped ==
    /\ turn.pc = "drops"
    /\ app' = NoApp
    /\ queue' = <<>>
    /\ FailPending("exited")
    /\ IF turn.then = "reopen"
       THEN Goes("opens") /\ UNCHANGED agent
       ELSE Goes("off") /\ agent' = "new"
    /\ UNCHANGED <<conn, halt, count, past>>

(* start_session, of a session that takes the place of the one before *)
StartsSession ==
    /\ turn.pc = "off" /\ agent = "new" /\ halt = "no"
    /\ count.turns < MaxTurns
    /\ turn' = [turn EXCEPT !.pc = "opens", !.then = "start"]
    /\ UNCHANGED <<app, queue, call, steer, conn, agent, halt, count, past>>

(* _open_connection *)
Opens ==
    /\ turn.pc = "opens"
    /\ queue' = <<>>
    /\ conn' = [registered |-> turn.then = "start", active |-> 0]
    /\ IF turn.then = "start"
       THEN app' = NewApp /\ agent' = "idle" /\ Goes("off") /\ UNCHANGED call
       ELSE /\ app' = [NewApp EXCEPT !.stdin = <<Request("read", 0)>>]
            /\ call' = [NoCall EXCEPT !.kind = "read"]
            /\ Goes("rereads") /\ UNCHANGED agent
    /\ UNCHANGED <<steer, halt, count, past>>

OpenFails ==
    /\ turn.pc = "opens" /\ Upset
    /\ Goes("off")
    /\ agent' = "new"
    /\ UNCHANGED <<app, queue, call, steer, conn, halt, past>>

StopsSession ==
    /\ turn.pc = "off" /\ agent = "idle" /\ conn.registered /\ halt = "no" /\ Upset
    /\ conn' = [conn EXCEPT !.registered = FALSE]
    /\ Drops(None)
    /\ UNCHANGED <<app, queue, call, steer, agent, halt, past>>

-----------------------------------------------------------------------------
(* The core goes down: what is under way is cancelled, and then the runtime *)
(* is stopped.  A request that is cancelled may have been taken; a stop     *)
(* that is has closed the process's input.                                  *)
Cancelled ==
    /\ halt = "no" /\ halt' = "cancelled"
    /\ CASE turn.pc = "starts" ->
              Goes("off") /\ call' = NoCall /\ UNCHANGED <<app, conn>>
         [] turn.pc \in {"streams", "approves"} ->
              Goes("off") /\ conn' = [conn EXCEPT !.active = 0] /\ UNCHANGED <<app, call>>
         [] turn.pc \in {"rereads", "resumes"} ->
              Drops(None) /\ call' = NoCall /\ UNCHANGED <<app, conn>>
         [] turn.pc = "drops" ->
              /\ app' = IF Running THEN [app EXCEPT !.state = "dying"] ELSE app
              /\ Goes("off") /\ UNCHANGED <<call, conn>>
         [] OTHER -> Goes("off") /\ UNCHANGED <<app, call, conn>>
    /\ past' = [past EXCEPT !.astray = @ \cup {turn.id}]
    /\ steer' = NoCall
    /\ UNCHANGED <<queue, agent, count>>

Stops ==
    /\ halt = "cancelled" /\ turn.pc = "off"
    /\ halt' = "stopped"
    /\ conn' = [conn EXCEPT !.registered = FALSE]
    /\ app' = IF conn.registered THEN NoApp ELSE app
    /\ queue' = <<>>
    /\ UNCHANGED <<call, steer, turn, agent, count, past>>

-----------------------------------------------------------------------------
Serves == Handles \/ TurnEnds \/ Exits \/ Watched
Streams == Started \/ StartTimesOut \/ EndsAtOnce \/ StreamReads \/ Approves \/ ApprovalFails
Reopens == Rereads \/ Resumes \/ ReconcileFails \/ Dropped \/ Opens

Next ==
    \/ Serves \/ Asks \/ Interrupted \/ Dies \/ Garbles
    \/ StartsTurn \/ Unavailable \/ Streams \/ StartUnread \/ StreamCut
    \/ SteerStarts \/ SteerEnds
    \/ Reconciles \/ Reopens \/ StartsSession \/ OpenFails \/ StopsSession
    \/ Cancelled \/ Stops

(* The server works on, the supervisor reads it, every task that can goes   *)
(* on, calls time out, and a handler answers within its time                *)
Fairness == WF_vars(Serves) /\ WF_vars(Streams) /\ WF_vars(Reopens)

Spec == Init /\ [][Next]_vars
FairSpec == Spec /\ Fairness

-----------------------------------------------------------------------------
(* Properties *)

Statuses == {None, "completed", "failed", "interrupted"}
Answers == {None, "ok", "refused", "garbled", "exited"}
Calls == [kind : {None, "start", "steer", "read", "resume"}, answer : Answers,
          turn : 0 .. MaxTurns]

TypeOK ==
    /\ app \in [state : {"up", "dying", "dead", "gone"}, turn : 0 .. MaxTurns, asks : BOOLEAN,
                stdin : Seq([kind : {"start", "steer", "read", "resume"}, turn : 0 .. MaxTurns]),
                fatal : BOOLEAN]
    /\ queue \in Seq([what : {"ask", "completed", "failed", "interrupted", "stray", "closed"},
                      turn : 0 .. MaxTurns])
    /\ {call, steer} \subseteq Calls
    /\ conn \in [registered : BOOLEAN, active : 0 .. MaxTurns]
    /\ turn \in [pc : {"off", "starts", "streams", "approves", "rereads", "resumes", "drops",
                       "opens"},
                 id : 0 .. MaxTurns, known : BOOLEAN,
                 first : {None, "refused", "unknown"}, lost : BOOLEAN, attempt : 0 .. 1,
                 then : {None, "reopen", "start"},
                 end : Statuses \cup {"refused", "unknown", "cut"}]
    /\ agent \in {"new", "idle", "lost"}
    /\ halt \in {"no", "cancelled", "stopped"}
    /\ count \in [{"turns", "steers", "own", "upsets"} -> Nat]
    /\ past \in [ended : [Turns -> Statuses], astray : SUBSET (0 .. MaxTurns)]

Runs == {app.turn} \cup {app.stdin[i].turn : i \in {j \in DOMAIN app.stdin :
                                                      app.stdin[j].kind = "start"}}

(* Between two operations nothing is left over: a process that runs is one  *)
(* a stop will find, or has been told to end; the connection can take a     *)
(* turn; and the server of a session taken to be at rest is at rest too,    *)
(* but for a turn the core itself has given up (runtime.py:266, :399, :500).*)
NothingLeft ==
    /\ TypeOK
    /\ turn.pc = "off" /\ app.state = "up" => conn.registered
    /\ turn.pc = "off" /\ conn.registered => conn.active = 0
    /\ halt = "no" /\ turn.pc = "off" /\ agent = "idle" /\ app.state = "up"
          => Runs \subseteq {0} \cup past.astray

(* A turn that is reported as completed or failed is one the server has     *)
(* ended so, whatever other turns left in the queue, and whichever stream   *)
(* was told (events.py:236, runtime.py:255).                                *)
OutcomeIsOwn ==
    turn.end \in {"completed", "failed"} => past.ended[turn.id] = turn.end

(* Every stream comes to an end, however the server, its approvals and the  *)
(* core's failures fall (events.py:165-197, process.py:430).                *)
StreamsEnd == turn.pc \in {"starts", "streams", "approves"} ~> turn.pc = "off"
=============================================================================

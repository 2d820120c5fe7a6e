--------------------------- MODULE SqliteExecutor ---------------------------
(***************************************************************************)
(* contrib/sqlite/executor.py: one task that runs the writes of everybody  *)
(* on one connection, in the order they were submitted, and a pool of read *)
(* connections.  A caller may be cancelled at any await; stop drains, and   *)
(* abort ends what a drain did not.                                         *)
(*                                                                          *)
(* A connection of aiosqlite runs its statements on a thread of its own,    *)
(* in order, whether or not the one who asked is still listening: sql is    *)
(* the queue of that thread for the writer's connection.                    *)
(***************************************************************************)
EXTENDS Integers, Sequences, FiniteSets

CONSTANTS Callers,      \* tasks that use the database, one request each at a time
          Asks,         \* what each may ask: "transaction", "write", "read"
          MaxReaders,   \* max_readers
          MaxIdle,      \* max_idle_readers, opened by start
          MayAbort,     \* whether the timeout of a stop may expire
          MaxCancels    \* bound on the cancellations of writes

ASSUME PoolAssumption == MaxIdle \in Nat \ {0} /\ MaxReaders \in Nat /\ MaxReaders >= MaxIdle
Kinds == {"transaction", "write", "read"}
ASSUME AsksAssumption == Asks \in [Callers -> SUBSET Kinds]
ASSUME CancelsAssumption == MaxCancels \in Nat

None == "none"
Stop == "stop"      \* the None that ends the writer's queue
ASSUME CallersAssumption == None \notin Callers /\ Stop \notin Callers

VARIABLES
    phase,      \* "open"; stop waits: "join", "readers", "writer"; "abort"; "closed"
    call,       \* per caller: where it is suspended, its kind, and its _WriteRequest
    queue,      \* _write_queue
    writer,     \* the writer task: awaits "get" or "run" (an operation), or "ended"
    dying,      \* the writer has been told to end and has not
    current,    \* _current_request
    op,         \* the operation task of the current request
    sql,        \* statements handed to the thread of the writer's connection
    txn,        \* whose transaction is open on that connection
    work,       \* writes done inside it
    durable,    \* writes that are in the file for good
    cut,        \* history: an operation was cancelled while it awaited its BEGIN
    lost,       \* history: the writer was cancelled and went back to its queue
    cancels,    \* history: cancellations of writes, bounded
    idle,       \* number of _idle_readers
    total,      \* number of _read_connections
    opening,    \* _opening_readers
    borrowed    \* _borrowed_readers

connection == <<sql, txn, work, durable>>
pool == <<idle, total, opening, borrowed>>
writing == <<queue, writer, dying, current, op>>
past == <<cut, lost, cancels>>
vars == <<phase, call, writing, connection, past, pool>>

accepting == phase = "open"

NoCall == [pc |-> "idle", kind |-> None, cancelled |-> FALSE, result |-> None, done |-> FALSE]
NoOp == [pc |-> None, reply |-> None, cause |-> None, kill |-> FALSE]

-----------------------------------------------------------------------------
(* The thread of the writer's connection *)

(* Hands a statement to the thread on behalf of the operation, which listens *)
Handed(s) == Append(sql, [stmt |-> s, by |-> current, heard |-> TRUE, hit |-> FALSE])

(* Nobody listens any more for what has been handed over *)
Unheard == [i \in DOMAIN sql |-> [sql[i] EXCEPT !.heard = FALSE]]

(* interrupt(): reaches the statement the thread is at; those which open or end a
   transaction are through by the time it does *)
Interrupted(s) == [i \in DOMAIN s |-> IF i = 1 THEN [s[i] EXCEPT !.hit = s[i].stmt = "body"] ELSE s[i]]

(* What a statement does to the transaction, the work in it and the file,
   as a set of outcomes: a change may fail, and one that is interrupted inside a
   transaction may take the transaction with it *)
Outcomes(s) ==
    LET same == [txn |-> txn, work |-> work, durable |-> durable, reply |-> "error"]
        none == [same EXCEPT !.txn = None, !.work = {}]
        good == CASE s.stmt = "begin" /\ txn = None ->
                        {[same EXCEPT !.txn = s.by, !.reply = "ok"]}
                  [] s.stmt = "body" /\ txn = None ->
                        {[same EXCEPT !.durable = @ \cup {s.by}, !.reply = "ok"]}
                  [] s.stmt = "body" /\ txn # None ->
                        {[same EXCEPT !.work = @ \cup {s.by}, !.reply = "ok"]}
                  [] s.stmt = "commit" /\ txn # None ->
                        {[none EXCEPT !.durable = @ \cup work, !.reply = "ok"]}
                  [] s.stmt = "rollback" /\ txn # None ->
                        {[none EXCEPT !.reply = "ok"]}
                  [] OTHER -> {same}
    IN good \cup (IF s.stmt = "body" THEN {same} ELSE {})
            \cup (IF s.hit THEN {none} ELSE {})

ThreadRuns ==
    /\ sql # <<>>
    /\ \E o \in Outcomes(Head(sql)) :
        /\ txn' = o.txn
        /\ work' = o.work
        /\ durable' = o.durable
        /\ op' = IF Head(sql).heard THEN [op EXCEPT !.reply = o.reply] ELSE op
    /\ sql' = Tail(sql)
    /\ UNCHANGED <<phase, call, queue, writer, dying, current, past, pool>>

-----------------------------------------------------------------------------
(* The callers of writes *)

(* _submit: put on the queue, then the result is awaited.  A caller's name is used
   again once nothing of its last write is with the thread *)
Submit(c, k) ==
    /\ k \in Asks[c] \ {"read"}
    /\ accepting
    /\ call[c].pc = "idle"
    /\ \A i \in DOMAIN sql : sql[i].by # c
    /\ call' = [call EXCEPT ![c] = [NoCall EXCEPT !.pc = "waiting", !.kind = k]]
    /\ queue' = Append(queue, c)
    /\ work' = work \ {c}
    /\ durable' = durable \ {c}
    /\ UNCHANGED <<phase, writer, dying, current, op, sql, txn, past, pool>>

SubmitReturns(c) ==
    /\ call[c].pc = "waiting"
    /\ call[c].result # None
    /\ call' = [call EXCEPT ![c].pc = "idle"]
    /\ UNCHANGED <<phase, writing, connection, past, pool>>

(* The caller is cancelled: its operation is, if it has begun and is not over,
   and the statement on the connection is interrupted *)
SubmitCancelled(c) ==
    /\ call[c].pc = "waiting"
    /\ cancels < MaxCancels
    /\ cancels' = cancels + 1
    /\ call' = [call EXCEPT ![c].pc = "leaving", ![c].cancelled = TRUE]
    /\ IF current = c /\ op.pc \notin {None, "over"}
       THEN /\ op' = [op EXCEPT !.kill = TRUE]
            /\ sql' = Interrupted(sql)
       ELSE UNCHANGED <<op, sql>>
    /\ UNCHANGED <<phase, queue, writer, dying, current, txn, work, durable, cut, lost, pool>>

(* It leaves only when the writer has let go of the request *)
CancelledLeaves(c) ==
    /\ call[c].pc = "leaving"
    /\ call[c].done
    /\ call' = [call EXCEPT ![c].pc = "idle"]
    /\ UNCHANGED <<phase, writing, connection, past, pool>>

-----------------------------------------------------------------------------
(* The writer task and the operation it awaits *)

(* A request's result is set once *)
SettledUndone(c, r) == [call[c] EXCEPT !.result = IF @ = None THEN r ELSE @]
Settled(c, r) == [call[c] EXCEPT !.result = IF @ = None THEN r ELSE @, !.done = TRUE]

WriterTakes ==
    /\ writer = "get"
    /\ ~dying
    /\ queue # <<>>
    /\ queue' = Tail(queue)
    /\ \/ /\ Head(queue) = Stop
          /\ writer' = "ended"
          /\ UNCHANGED <<call, current, op>>
       \/ /\ Head(queue) # Stop
          /\ call[Head(queue)].cancelled
          /\ call' = [call EXCEPT ![Head(queue)] = Settled(Head(queue), "cancelled")]
          /\ UNCHANGED <<writer, current, op>>
       \/ /\ Head(queue) # Stop
          /\ ~call[Head(queue)].cancelled
          /\ writer' = "run"
          /\ current' = Head(queue)
          /\ op' = [NoOp EXCEPT !.pc = "created"]
          /\ UNCHANGED call
    /\ UNCHANGED <<phase, dying, connection, past, pool>>

WriterSettles ==
    /\ writer = "run"
    /\ op.pc = "over"
    /\ call' = [call EXCEPT ![current] = Settled(current, op.cause)]
    /\ writer' = IF dying /\ op.cause = "cancelled" THEN "ended" ELSE "get"
    /\ dying' = FALSE
    /\ lost' = (lost \/ (dying /\ op.cause # "cancelled"))
    /\ current' = None
    /\ op' = NoOp
    /\ UNCHANGED <<phase, queue, connection, cut, cancels, pool>>

(* A cancelled task that awaits the queue ends there *)
WriterDies ==
    /\ writer = "get"
    /\ dying
    /\ writer' = "ended"
    /\ dying' = FALSE
    /\ UNCHANGED <<phase, call, queue, current, op, connection, past, pool>>

(* The operation goes on to await its next statement, or is over *)
Awaits(p, c)  == op' = [NoOp EXCEPT !.pc = p, !.cause = c]
Over(c)       == op' = [NoOp EXCEPT !.pc = "over", !.cause = c]

OpBegins ==
    /\ op.pc = "created"
    /\ ~op.kill
    /\ IF call[current].kind = "transaction"
       THEN Awaits("begin", None) /\ sql' = Handed("begin")
       ELSE Awaits("body", None) /\ sql' = Handed("body")
    /\ UNCHANGED <<phase, call, queue, writer, dying, current, txn, work, durable, past, pool>>

(* _run_operation, and __aenter__ and __aexit__ of _WriteTransaction *)
OpGoesOn ==
    /\ op.reply # None
    /\ ~op.kill
    /\ LET ok == op.reply = "ok"
           transaction == call[current].kind = "transaction"
       IN  \/ /\ op.pc = "begin" /\ ok
              /\ Awaits("body", None) /\ sql' = Handed("body")
           \/ /\ op.pc = "begin" /\ ~ok
              /\ Over("error") /\ UNCHANGED sql
           \/ /\ op.pc = "body" /\ ~transaction
              /\ Over(op.reply) /\ UNCHANGED sql
           \/ /\ op.pc = "body" /\ transaction /\ ok
              /\ Awaits("commit", None) /\ sql' = Handed("commit")
           \/ /\ op.pc = "body" /\ transaction /\ ~ok
              /\ Awaits("rollback", "error") /\ sql' = Handed("rollback")
           \/ /\ op.pc = "commit" /\ ok
              /\ Over("ok") /\ UNCHANGED sql
           \/ /\ op.pc = "commit" /\ ~ok
              /\ Awaits("rollback", "error") /\ sql' = Handed("rollback")
           \/ /\ op.pc = "rollback"
              /\ Over(IF ok THEN op.cause ELSE "error") /\ UNCHANGED sql
    /\ UNCHANGED <<phase, call, queue, writer, dying, current, txn, work, durable, past, pool>>

(* Slip: __aexit__ knows only what was cancelled in the body *)
OpCancelledBody ==
    /\ op.kill
    /\ IF op.pc = "body" /\ call[current].kind = "transaction"
       THEN /\ Awaits("rollback", "cancelled")
            /\ sql' = Append(Unheard, [stmt |-> "rollback", by |-> current,
                                       heard |-> TRUE, hit |-> FALSE])
       ELSE Over("cancelled") /\ sql' = Unheard
    /\ cut' = (cut \/ op.pc = "begin")
    /\ UNCHANGED <<phase, call, queue, writer, dying, current, txn, work, durable, lost, cancels, pool>>

(* A cancellation reaches the operation at the await it is suspended in.  Out of
   __aenter__ no __aexit__ follows; out of a commit a rollback does *)
OpCancelled ==
    /\ op.kill
    /\ LET rollsBack == \/ op.pc = "body" /\ call[current].kind = "transaction"
                        \/ op.pc = "commit"
       IN  IF rollsBack
           THEN /\ Awaits("rollback", "cancelled")
                /\ sql' = Append(Unheard, [stmt |-> "rollback", by |-> current,
                                           heard |-> TRUE, hit |-> FALSE])
           ELSE /\ Over("cancelled")
                /\ sql' = Unheard
    /\ cut' = (cut \/ op.pc = "begin")
    /\ UNCHANGED <<phase, call, queue, writer, dying, current, txn, work, durable, lost, cancels, pool>>

-----------------------------------------------------------------------------
(* The pool of readers.  The condition is never held across an await, so to
   take it suspends nobody *)

Parked == {c \in Callers : call[c].pc = "parked"}
NotifyAll(calls) == [c \in Callers |->
    IF calls[c].pc = "parked" THEN [calls[c] EXCEPT !.pc = "woken"] ELSE calls[c]]

(* One round of _borrow_reader's loop *)
BorrowRound(c) ==
    \/ /\ idle > 0
       /\ idle' = idle - 1
       /\ borrowed' = borrowed + 1
       /\ call' = [call EXCEPT ![c] = [NoCall EXCEPT !.pc = "reading", !.kind = "read"]]
       /\ UNCHANGED <<total, opening>>
    \/ /\ idle = 0
       /\ total + opening < MaxReaders
       /\ opening' = opening + 1
       /\ call' = [call EXCEPT ![c] = [NoCall EXCEPT !.pc = "opening", !.kind = "read"]]
       /\ UNCHANGED <<idle, total, borrowed>>
    \/ /\ idle = 0
       /\ total + opening >= MaxReaders
       /\ call' = [call EXCEPT ![c] = [NoCall EXCEPT !.pc = "parked", !.kind = "read"]]
       /\ UNCHANGED pool

Borrow(c) ==
    /\ "read" \in Asks[c]
    /\ call[c].pc = "idle"
    /\ accepting
    /\ BorrowRound(c)
    /\ UNCHANGED <<phase, writing, connection, past>>

(* Woken, it looks again, and is refused when the executor has closed *)
BorrowAgain(c) ==
    /\ call[c].pc = "woken"
    /\ \/ accepting /\ BorrowRound(c)
       \/ ~accepting /\ call' = [call EXCEPT ![c] = NoCall] /\ UNCHANGED pool
    /\ UNCHANGED <<phase, writing, connection, past>>

(* A waiter that is cancelled while it waits, or has been woken *)
BorrowCancelled(c) ==
    /\ call[c].pc \in {"parked", "woken"}
    /\ call' = [call EXCEPT ![c] = NoCall]
    /\ UNCHANGED <<phase, writing, connection, past, pool>>

(* Slip: the count is lowered only where the connection is kept *)
OpenedKept(c) ==
    /\ call[c].pc = "opening"
    /\ IF accepting
       THEN /\ opening' = opening - 1
            /\ total' = total + 1
            /\ borrowed' = borrowed + 1
            /\ call' = NotifyAll([call EXCEPT ![c].pc = "reading"])
       ELSE /\ call' = NotifyAll([call EXCEPT ![c] = NoCall])
            /\ UNCHANGED <<opening, total, borrowed>>
    /\ UNCHANGED <<phase, writing, connection, past, idle>>

Opened(c) ==
    /\ call[c].pc = "opening"
    /\ opening' = opening - 1
    /\ IF accepting
       THEN /\ total' = total + 1
            /\ borrowed' = borrowed + 1
            /\ call' = NotifyAll([call EXCEPT ![c].pc = "reading"])
       ELSE /\ call' = NotifyAll([call EXCEPT ![c] = NoCall])
            /\ UNCHANGED <<total, borrowed>>
    /\ UNCHANGED <<phase, writing, connection, past, idle>>

(* The factory fails, or the caller is cancelled in it *)
OpenFails(c) ==
    /\ call[c].pc = "opening"
    /\ opening' = opening - 1
    /\ call' = NotifyAll([call EXCEPT ![c] = NoCall])
    /\ UNCHANGED <<phase, writing, connection, past, idle, total, borrowed>>

(* _return_reader, at the end of a read however it ends *)
Return(c) ==
    /\ call[c].pc = "reading"
    /\ borrowed' = borrowed - 1
    /\ idle' = IF accepting THEN idle + 1 ELSE idle
    /\ call' = NotifyAll([call EXCEPT ![c] = NoCall])
    /\ UNCHANGED <<phase, writing, connection, past, total, opening>>

(* _reap_idle_readers: those idle for long, down to what may stay idle *)
Reap ==
    /\ accepting
    /\ \E n \in 1 .. idle :
        /\ n <= total - MaxIdle
        /\ idle' = idle - n
        /\ total' = total - n
    /\ UNCHANGED <<phase, call, writing, connection, past, opening, borrowed>>

-----------------------------------------------------------------------------
(* Closing *)

StopBegins ==
    /\ phase = "open"
    /\ phase' = "join"
    /\ UNCHANGED <<call, writing, connection, past, pool>>

(* The queue is joined: all that was submitted is done *)
StopJoined ==
    /\ phase = "join"
    /\ queue = <<>>
    /\ current = None
    /\ phase' = "readers"
    /\ call' = NotifyAll(call)
    /\ UNCHANGED <<writing, connection, past, pool>>

StopReadersBack ==
    /\ phase = "readers"
    /\ borrowed = 0
    /\ opening = 0
    /\ phase' = "writer"
    /\ queue' = Append(queue, Stop)
    /\ UNCHANGED <<call, writer, dying, current, op, connection, past, pool>>

(* Closing the writer's connection waits for its thread, and an open transaction is lost *)
Closes(p) ==
    /\ phase = p
    /\ writer = "ended"
    /\ sql = <<>>
    /\ phase' = "closed"
    /\ txn' = None
    /\ work' = {}
    /\ total' = 0
    /\ UNCHANGED <<call, writing, sql, durable, past, idle, opening, borrowed>>

(* The timeout of stop expires, and abort runs up to where it awaits the writer:
   what is active and what is queued is refused, and the task is cancelled, which
   reaches the operation while the task awaits it *)
Abort ==
    /\ MayAbort
    /\ phase \in {"join", "readers", "writer"}
    /\ phase' = "abort"
    /\ call' = [c \in Callers |->
                 IF \E i \in DOMAIN queue : queue[i] = c
                 THEN [NotifyAll(call)[c] EXCEPT !.result = "closed", !.done = TRUE]
                 ELSE IF c = current
                 THEN [NotifyAll(call)[c] EXCEPT !.result = "closed"]
                 ELSE NotifyAll(call)[c]]
    /\ queue' = <<>>
    /\ sql' = Interrupted(sql)
    /\ dying' = (writer # "ended")
    /\ op' = CASE writer = "run" /\ op.pc # "over" -> [op EXCEPT !.kill = TRUE]
               [] writer = "run" /\ op.pc = "over" -> [op EXCEPT !.cause = "cancelled"]
               [] OTHER -> op
    /\ UNCHANGED <<writer, current, txn, work, durable, past, pool>>

-----------------------------------------------------------------------------

Init ==
    /\ phase = "open"
    /\ call = [c \in Callers |-> NoCall]
    /\ queue = <<>>
    /\ writer = "get"
    /\ dying = FALSE
    /\ current = None
    /\ op = NoOp
    /\ sql = <<>>
    /\ txn = None
    /\ work = {}
    /\ durable = {}
    /\ cut = FALSE
    /\ lost = FALSE
    /\ cancels = 0
    /\ idle = MaxIdle
    /\ total = MaxIdle
    /\ opening = 0
    /\ borrowed = 0

Writer == WriterTakes \/ WriterSettles \/ WriterDies \/ OpBegins \/ OpGoesOn \/ OpCancelled
Closing == StopJoined \/ StopReadersBack \/ Closes("writer") \/ Closes("abort")

Reads(c) == BorrowAgain(c) \/ Opened(c) \/ Return(c)
Returns(c) == SubmitReturns(c) \/ CancelledLeaves(c)

Next ==
    \/ \E c \in Callers, k \in Kinds : Submit(c, k)
    \/ \E c \in Callers : SubmitCancelled(c) \/ Returns(c)
    \/ \E c \in Callers : Borrow(c) \/ Reads(c) \/ BorrowCancelled(c) \/ OpenFails(c)
    \/ ThreadRuns \/ Writer \/ Reap
    \/ StopBegins \/ Closing \/ Abort

Spec == Init /\ [][Next]_vars

(* The event loop runs what is ready, the connection's thread its statements; a
   reader that was borrowed comes back and one being opened is opened or fails *)
Fairness ==
    /\ WF_vars(ThreadRuns) /\ WF_vars(Writer) /\ WF_vars(Closing)
    /\ \A c \in Callers : WF_vars(Returns(c)) /\ WF_vars(Reads(c))

FairSpec == Spec /\ Fairness
-----------------------------------------------------------------------------
(* Properties *)

Pcs == {"idle", "waiting", "leaving", "parked", "woken", "opening", "reading"}
Results == {None, "ok", "error", "cancelled", "closed"}

(* Every variable has its type *)
TypeOK ==
    /\ phase \in {"open", "join", "readers", "writer", "abort", "closed"}
    /\ call \in [Callers -> [pc : Pcs, kind : Kinds \cup {None}, cancelled : BOOLEAN,
                             result : Results, done : BOOLEAN]]
    /\ queue \in Seq(Callers \cup {Stop})
    /\ writer \in {"get", "run", "ended"}
    /\ dying \in BOOLEAN
    /\ current \in Callers \cup {None}
    /\ op \in [pc : {None, "created", "begin", "body", "commit", "rollback", "over"},
               reply : {None, "ok", "error"}, cause : {None, "ok", "error", "cancelled"},
               kill : BOOLEAN]
    /\ sql \in Seq([stmt : {"begin", "body", "commit", "rollback"}, by : Callers,
                    heard : BOOLEAN, hit : BOOLEAN])
    /\ txn \in Callers \cup {None}
    /\ work \subseteq Callers
    /\ durable \subseteq Callers
    /\ cut \in BOOLEAN /\ lost \in BOOLEAN
    /\ cancels \in 0 .. MaxCancels
    /\ idle \in Nat /\ total \in Nat /\ opening \in Nat /\ borrowed \in Nat

(* A write answered with success is in the file for good, and a transaction whose
   operation was cancelled is not: whichever await of submit, of the operation or of
   the transaction the cancellations fall on, and wherever an interrupt hits.  The
   exception is what follows a cancelled BEGIN: it is outside of __aexit__'s
   reach, so that its transaction stays open under the writes of others *)
AnsweredIsKept ==
    ~cut => \A c \in Callers :
        /\ call[c].result = "ok" => c \in durable
        /\ call[c].result = "cancelled" /\ call[c].kind = "transaction" => c \notin durable

(* The counts of the pool are those of its readers, whatever awaits they were
   cancelled at and however their connections opened: no slot is lost and none is
   lent beyond the limit.  So nobody waits for a reader while one is idle or may be
   opened: whatever frees a connection or a slot wakes the waiters *)
PoolAccounts ==
    /\ TypeOK
    /\ opening = Cardinality({c \in Callers : call[c].pc = "opening"})
    /\ borrowed = Cardinality({c \in Callers : call[c].pc = "reading"})
    /\ total + opening <= MaxReaders
    /\ accepting => idle + borrowed = total
    /\ accepting /\ Parked # {} => idle = 0 /\ total + opening >= MaxReaders

(* A stop ends, drained or aborted: neither a cancelled caller nor a connection that
   opens late keeps it waiting; except when the
   cancellation of abort is lost: an operation turned it into an error of its ROLLBACK,
   and the writer awaits a queue that nothing is put on *)
StopEnds == phase # "open" ~> phase = "closed" \/ lost

(* and whoever submitted a write gets out of it, answered or cancelled, also when the
   executor is closed above it, with the same exception *)
CallersAnswered ==
    /\ StopEnds
    /\ \A c \in Callers :
        call[c].pc \in {"waiting", "leaving"} ~> call[c].pc = "idle" \/ lost
=============================================================================

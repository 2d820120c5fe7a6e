------------------------ MODULE SqliteExecutorProofs ------------------------
(***************************************************************************)
(* What is proved of contrib/sqlite/executor.py, for any callers and limits:*)
(* PoolIsAccounted and AnswersAreKept, at the end.                          *)
(*                                                                          *)
(* WInv ties the operation that runs to the request of the writer and to    *)
(* the last statement with the connection's thread; every step keeps it.    *)
(* Upon it PoolInv is kept, since the steps of readers change the counts    *)
(* with the records they count; and KeepInv, which follows a transaction    *)
(* through the statements that are still with the thread after the one who  *)
(* asked for them has stopped listening.                                    *)
(***************************************************************************)
EXTENDS SqliteExecutor, FiniteSetTheorems, SequenceTheorems, TLAPS

Awaiting == {"begin", "body", "commit", "rollback"}
Ending == {"commit", "rollback"}
Writes == {"transaction", "write"}
InTransaction == current # None /\ call[current].kind = "transaction"

(* The operation that runs is that of the writer's request.  Only the last  *)
(* statement with the thread is listened to, and it is the one the          *)
(* operation awaits; when that has replied the thread has nothing left.     *)
OpInv ==
    /\ (writer = "run") <=> (current # None)
    /\ (op.pc # None) <=> (current # None)
    /\ op.pc = None => op = NoOp
    /\ op.pc \in {"created", "over"} => op.reply = None
    /\ op.pc = "over" => ~ op.kill /\ op.cause # None
    /\ op.pc = "rollback" => op.cause \in {"error", "cancelled"}
    /\ op.pc \in {"begin", "commit", "rollback"} => call[current].kind = "transaction"
    /\ \A i \in DOMAIN sql : sql[i].heard =>
          i = Len(sql) /\ sql[i].by = current /\ sql[i].stmt = op.pc
    /\ op.reply # None => sql = <<>>
    /\ op.pc \in Awaiting /\ op.reply = None => sql # <<>> /\ sql[Len(sql)].heard

(* A request that is queued or carried out is not answered yet, unless the  *)
(* executor was aborted above it.                                           *)
RequestInv ==
    /\ \A i, j \in DOMAIN queue : queue[i] = queue[j] /\ queue[i] # Stop => i = j
    /\ \A i \in DOMAIN queue : queue[i] # Stop =>
          /\ queue[i] # current
          /\ call[queue[i]].pc \in {"waiting", "leaving"}
          /\ call[queue[i]].kind \in Writes
          /\ call[queue[i]].result = None /\ ~ call[queue[i]].done
    /\ current # None =>
          /\ call[current].pc \in {"waiting", "leaving", "idle"}
          /\ call[current].kind \in Writes
          /\ ~ call[current].done
          /\ call[current].result = None => call[current].pc # "idle"
          /\ call[current].result # None => call[current].result = "closed" /\ phase # "open"

(* Nothing of a caller is with the connection                               *)
Untouched(c) == c # txn /\ c \notin durable /\ \A i \in DOMAIN sql : sql[i].by # c

(* and nothing that could still make its work durable                       *)
Past(c) ==
    /\ c \notin durable
    /\ \A i \in DOMAIN sql : sql[i].by = c => sql[i].stmt \notin {"body", "commit"}

(* What the connection holds for the operation of a transaction, by what it *)
(* awaits.                                                                  *)
TransactionAt ==
    LET c == current
    IN  /\ op.pc = "begin" =>
              /\ Past(c)
              /\ IF op.reply = "ok" THEN txn = c ELSE txn # c
        /\ op.pc = "body" =>
              /\ c \notin durable
              /\ op.reply = None => Len(sql) = 1 /\ txn = c
              /\ op.reply = "ok" => txn = c /\ c \in work
        /\ op.pc = "commit" =>
              /\ op.reply = None => Len(sql) = 1 /\ txn = c /\ c \in work /\ c \notin durable
              /\ op.reply = "error" => FALSE
              /\ op.reply = "ok" => c \in durable
        /\ op.pc = "rollback" /\ op.cause = "error" => Past(c)
        /\ op.pc = "rollback" /\ op.cause = "cancelled" =>
              /\ txn = c \/ op.reply = "ok" => c \notin durable
              /\ Len(sql) <= 2
              /\ Len(sql) = 2 => txn = c
              /\ call[c].result = None => call[c].pc = "leaving" /\ ~ op.kill

(* The connection of the writer, unless a cancelled BEGIN has left a        *)
(* transaction open: whose transaction it is, and that something on its way *)
(* will end it.                                                             *)
ConnectionInv ==
    /\ \A i \in DOMAIN sql : sql[i].hit => sql[i].stmt = "body"
    /\ \A i \in DOMAIN sql : sql[i].stmt = "begin" => sql[i].heard
    /\ txn # None => \A j \in DOMAIN sql :
          (\A i \in 1 .. j - 1 : sql[i].stmt \notin Ending) => sql[j].by = txn
    /\ txn # None =>
          \/ \E i \in DOMAIN sql : sql[i].stmt \in Ending
          \/ /\ txn = current
             /\ op.pc = "body" \/ (op.pc = "begin" /\ op.reply = "ok")
    /\ txn # None /\ txn = current => InTransaction
    /\ work \subseteq {txn} \ {None}

OutcomeInv ==
    /\ op.kill => call[current].result # None \/ call[current].pc = "leaving"
    /\ \A i \in DOMAIN queue : queue[i] # Stop => Untouched(queue[i])
    /\ op.pc = "created" => Untouched(current)
    /\ InTransaction => TransactionAt
    /\ op.pc = "body" /\ ~ InTransaction /\ op.reply = "ok" => current \in durable
    /\ op.pc = "over" /\ op.cause = "ok" => current \in durable
    /\ op.pc = "over" /\ op.cause = "cancelled" /\ InTransaction /\ call[current].result = None =>
          Past(current)
    /\ \A c \in Callers : call[c].result = "ok" => c \in durable
    /\ \A c \in Callers : call[c].result = "cancelled" /\ call[c].kind = "transaction" => Past(c)

Kept == ConnectionInv /\ OutcomeInv

KeepInv == ~ cut => Kept

CallRec == [pc : Pcs, kind : Kinds \cup {None}, cancelled : BOOLEAN, result : Results, done : BOOLEAN]
OpRec == [pc : {None, "created", "over"} \cup Awaiting, reply : {None, "ok", "error"},
          cause : {None, "ok", "error", "cancelled"}, kill : BOOLEAN]
StmtRec == [stmt : Awaiting, by : Callers, heard : BOOLEAN, hit : BOOLEAN]

(* Every variable of the writer and its callers has its type                *)
WriterType ==
    /\ phase \in {"open", "join", "readers", "writer", "abort", "closed"}
    /\ call \in [Callers -> CallRec]
    /\ queue \in Seq(Callers \cup {Stop})
    /\ writer \in {"get", "run", "ended"}
    /\ dying \in BOOLEAN
    /\ current \in Callers \cup {None}
    /\ op \in OpRec
    /\ sql \in Seq(StmtRec)
    /\ txn \in Callers \cup {None}
    /\ work \subseteq Callers
    /\ durable \subseteq Callers
    /\ cut \in BOOLEAN /\ lost \in BOOLEAN
    /\ cancels \in 0 .. MaxCancels

WInv == WriterType /\ OpInv /\ RequestInv

Readers(pc) == {c \in Callers : call[c].pc = pc}

(* The pool, and that the sets counted are finite                           *)
PoolInv ==
    /\ idle \in Nat /\ total \in Nat /\ opening \in Nat /\ borrowed \in Nat
    /\ IsFiniteSet(Readers("opening")) /\ opening = Cardinality(Readers("opening"))
    /\ IsFiniteSet(Readers("reading")) /\ borrowed = Cardinality(Readers("reading"))
    /\ total + opening <= MaxReaders
    /\ accepting => idle + borrowed = total
    /\ accepting /\ Parked # {} => idle = 0 /\ total + opening >= MaxReaders

-----------------------------------------------------------------------------
(* Statements with the thread *)

(* What nobody listens to any more is otherwise the same.                   *)
LEMMA UnheardSame ==
    ASSUME sql \in Seq(StmtRec)
    PROVE  /\ Unheard \in Seq(StmtRec) /\ Len(Unheard) = Len(sql)
           /\ \A i \in 1 .. Len(sql) : /\ Unheard[i].stmt = sql[i].stmt
                                       /\ Unheard[i].by = sql[i].by
                                       /\ ~ Unheard[i].heard
<1>1. sql \in [1 .. Len(sql) -> StmtRec] /\ Len(sql) \in Nat
  OBVIOUS
<1>2. Unheard \in [1 .. Len(sql) -> StmtRec]
  BY <1>1 DEF Unheard, StmtRec
<1> QED BY <1>1, <1>2 DEF Unheard, StmtRec

(* Nor does an interrupt change more than that one statement fails.         *)
LEMMA InterruptedSame ==
    ASSUME sql \in Seq(StmtRec)
    PROVE  /\ Interrupted(sql) \in Seq(StmtRec) /\ Len(Interrupted(sql)) = Len(sql)
           /\ \A i \in 1 .. Len(sql) : /\ Interrupted(sql)[i].stmt = sql[i].stmt
                                       /\ Interrupted(sql)[i].by = sql[i].by
                                       /\ Interrupted(sql)[i].heard = sql[i].heard
<1>1. sql \in [1 .. Len(sql) -> StmtRec] /\ Len(sql) \in Nat
  OBVIOUS
<1>2. Interrupted(sql) \in [1 .. Len(sql) -> StmtRec]
  BY <1>1 DEF Interrupted, StmtRec
<1> QED BY <1>1, <1>2 DEF Interrupted, StmtRec

LEMMA InitHolds == Init => WInv /\ PoolInv /\ KeepInv
<1> SUFFICES ASSUME Init PROVE WInv /\ PoolInv /\ KeepInv
  OBVIOUS
<1> USE DEF Init
<1>1. WInv
  <2>a. call \in [Callers -> CallRec]
    BY DEF CallRec, NoCall, Pcs, Results
  <2>b. op \in OpRec
    BY DEF OpRec, NoOp
  <2>c. cancels \in 0 .. MaxCancels
    BY CancelsAssumption
  <2>d. queue \in Seq(Callers \cup {Stop}) /\ sql \in Seq(StmtRec)
    OBVIOUS
  <2>1. WriterType
    BY <2>a, <2>b, <2>c, <2>d DEF WriterType
  <2>2. OpInv
    <3>1. DOMAIN sql = {}
      OBVIOUS
    <3> QED BY <3>1 DEF OpInv, NoOp, Awaiting, None
  <2>3. RequestInv
    BY DEF RequestInv
  <2> QED BY <2>1, <2>2, <2>3 DEF WInv
<1>2. Readers("opening") = {} /\ Readers("reading") = {} /\ Parked = {}
  BY DEF Readers, Parked, NoCall
<1>3. PoolInv
  <2>1. IsFiniteSet({}) /\ Cardinality({}) = 0
    BY FS_EmptySet
  <2>2. idle \in Nat /\ total \in Nat /\ total + opening <= MaxReaders /\ idle + borrowed = total
    BY PoolAssumption
  <2>3. opening = Cardinality(Readers("opening")) /\ borrowed = Cardinality(Readers("reading"))
    BY <1>2, <2>1
  <2>4. IsFiniteSet(Readers("opening")) /\ IsFiniteSet(Readers("reading"))
    BY <1>2, <2>1
  <2>5. opening \in Nat /\ borrowed \in Nat
    OBVIOUS
  <2> QED BY <1>2, <2>2, <2>3, <2>4, <2>5 DEF PoolInv
<1>4. KeepInv
  <2>1. DOMAIN sql = {} /\ DOMAIN queue = {}
    OBVIOUS
  <2>2. ConnectionInv
    BY <2>1 DEF ConnectionInv
  <2>3. OutcomeInv
    BY <2>1 DEF OutcomeInv, InTransaction, NoCall, NoOp, None
  <2> QED BY <2>2, <2>3 DEF KeepInv, Kept
<1> QED BY <1>1, <1>3, <1>4

-----------------------------------------------------------------------------
(* Steps of the writer and its callers: WInv *)

LEMMA SubmitW ==
    ASSUME WInv, NEW c \in Callers, NEW k \in Kinds, Submit(c, k)
    PROVE  WInv'
<1> USE DEF WInv
<1>0. k \in Writes /\ k \in Kinds
  BY DEF Submit, Kinds, Writes
<1>1. call' \in [Callers -> CallRec] /\ call'[c].pc = "waiting" /\ call'[c].kind = k
      /\ call'[c].result = None /\ ~ call'[c].done /\ \A d \in Callers \ {c} : call'[d] = call[d]
  BY <1>0 DEF Submit, WriterType, CallRec, NoCall, Pcs, Results
<1>2. WriterType'
  BY <1>1 DEF Submit, WriterType, past
<1>3. current # c /\ \A i \in DOMAIN queue : queue[i] # c
  BY CallersAssumption DEF Submit, RequestInv, WriterType, accepting
<1>4. OpInv'
  BY <1>1, <1>3, CallersAssumption DEF Submit, OpInv, WriterType, OpRec, Awaiting
<1>5. RequestInv'
  <2> DEFINE q == Append(queue, c)
  <2>1. Len(q) = Len(queue) + 1 /\ q[Len(queue) + 1] = c
        /\ \A i \in 1 .. Len(queue) : q[i] = queue[i]
    BY DEF WriterType
  <2>2. \A i \in DOMAIN q : i \in DOMAIN queue \/ i = Len(queue) + 1
    BY <2>1 DEF WriterType
  <2> QED
    BY <1>0, <1>1, <1>3, <2>1, <2>2, CallersAssumption DEF Submit, RequestInv, WriterType, accepting, past
<1> QED BY <1>2, <1>4, <1>5

(* What a statement more or less makes of the thread's queue.               *)
LEMMA AppendedSame ==
    ASSUME NEW s \in Seq(StmtRec), NEW r \in StmtRec
    PROVE  LET a == Append(s, r)
           IN  /\ a \in Seq(StmtRec) /\ Len(a) = Len(s) + 1 /\ a # <<>>
               /\ a[Len(a)] = r /\ \A i \in 1 .. Len(s) : a[i] = s[i]
               /\ DOMAIN a = 1 .. Len(s) + 1 /\ DOMAIN s = 1 .. Len(s) /\ Len(s) \in Nat
  OBVIOUS

LEMMA TailSame ==
    ASSUME sql \in Seq(StmtRec), sql # <<>>
    PROVE  LET t == Tail(sql)
           IN  /\ t \in Seq(StmtRec) /\ Len(t) = Len(sql) - 1
               /\ \A i \in 1 .. Len(t) : t[i] = sql[i + 1]
               /\ DOMAIN t = 1 .. Len(t) /\ Len(t) \in Nat
               /\ Head(sql) = sql[1] /\ Head(sql) \in StmtRec
               /\ DOMAIN sql = 1 .. Len(sql) /\ Len(sql) \in Nat \ {0}
  OBVIOUS

(* Who parks is woken, and nothing else changes.                            *)
LEMMA NotifiedSame ==
    ASSUME NEW f \in [Callers -> CallRec]
    PROVE  /\ NotifyAll(f) \in [Callers -> CallRec]
           /\ \A c \in Callers :
                 IF f[c].pc = "parked"
                 THEN NotifyAll(f)[c] = [f[c] EXCEPT !.pc = "woken"]
                 ELSE NotifyAll(f)[c] = f[c]
  BY DEF NotifyAll, CallRec, Pcs

(* Who reads is not in the writer's hands.                                  *)
LEMMA ReaderStepW ==
    ASSUME WInv, UNCHANGED <<phase, writing, connection, past>>, call' \in [Callers -> CallRec],
           \A c \in Callers : c = current \/ (\E i \in DOMAIN queue : queue[i] = c)
                                 => call'[c] = call[c]
    PROVE  WInv'
<1> USE DEF WInv, writing, connection, past
<1>1. WriterType'
  BY DEF WriterType
<1>2. OpInv'
  <2>1. call'[current] = call[current] \/ current = None
    BY DEF WriterType
  <2>2. op.pc \in {"begin", "commit", "rollback"} => current # None
    BY DEF OpInv, None
  <2> QED BY <2>1, <2>2 DEF OpInv
<1>3. RequestInv'
  <2>1. \A i \in DOMAIN queue : queue[i] # Stop => queue[i] \in Callers
    BY DEF WriterType
  <2> QED BY <2>1 DEF RequestInv, WriterType
<1> QED BY <1>1, <1>2, <1>3

LEMMA SubmitReturnsW ==
    ASSUME WInv, NEW c \in Callers, SubmitReturns(c) \/ CancelledLeaves(c)
    PROVE  WInv'
<1> USE DEF WInv, SubmitReturns, CancelledLeaves, writing, connection, past
<1>0. call[c].pc \in {"waiting", "leaving"} /\ (call[c].result # None \/ call[c].done)
  OBVIOUS
<1>1. call' = [call EXCEPT ![c] = [call[c] EXCEPT !.pc = "idle"]]
  BY DEF WriterType
<1>2. WriterType'
  <2>1. call' \in [Callers -> CallRec]
    <3>1. call[c] \in CallRec
      BY DEF WriterType
    <3>2. [call[c] EXCEPT !.pc = "idle"] \in CallRec
      BY <3>1 DEF CallRec, Pcs
    <3> QED BY <1>1, <3>2 DEF WriterType
  <2> QED BY <2>1 DEF WriterType
<1>3. OpInv'
  BY <1>1 DEF OpInv, WriterType, CallRec
<1>4. \A i \in DOMAIN queue : queue[i] # Stop => queue[i] \in Callers /\ queue[i] # c
  <2> TAKE i \in DOMAIN queue
  <2> HAVE queue[i] # Stop
  <2> QED BY <1>0 DEF RequestInv, WriterType
<1>5. current = c => ~ call[c].done /\ call[c].result # None
  BY <1>0, CallersAssumption DEF RequestInv
<1>6. RequestInv'
  BY <1>1, <1>4, <1>5 DEF RequestInv, WriterType, CallRec
<1> QED BY <1>2, <1>3, <1>6

LEMMA SubmitCancelledW ==
    ASSUME WInv, NEW c \in Callers, SubmitCancelled(c)
    PROVE  WInv'
<1> USE DEF WInv
<1>1. call' = [call EXCEPT ![c] = [call[c] EXCEPT !.pc = "leaving", !.cancelled = TRUE]]
  BY DEF WriterType, SubmitCancelled
<1>2. /\ sql' \in Seq(StmtRec) /\ Len(sql') = Len(sql)
      /\ DOMAIN sql' = 1 .. Len(sql) /\ DOMAIN sql = 1 .. Len(sql)
      /\ \A i \in 1 .. Len(sql) : /\ sql'[i].stmt = sql[i].stmt
                                  /\ sql'[i].by = sql[i].by
                                  /\ sql'[i].heard = sql[i].heard
  BY InterruptedSame DEF SubmitCancelled, WriterType
<1>3. op' \in OpRec /\ op'.pc = op.pc /\ op'.reply = op.reply /\ op'.cause = op.cause
      /\ (op' = op \/ op.pc \notin {None, "over"})
  BY DEF SubmitCancelled, WriterType, OpRec
<1>4. WriterType'
  <2>1. call' \in [Callers -> CallRec]
    <3>1. call[c] \in CallRec
      BY DEF WriterType
    <3>2. [call[c] EXCEPT !.pc = "leaving", !.cancelled = TRUE] \in CallRec
      BY <3>1 DEF CallRec, Pcs
    <3> QED BY <1>1, <3>2 DEF WriterType
  <2>2. cancels' \in 0 .. MaxCancels
    BY CancelsAssumption DEF SubmitCancelled, WriterType
  <2> QED BY <2>1, <2>2, <1>2, <1>3 DEF SubmitCancelled, WriterType
<1>5. OpInv'
  <2>1. \A d \in Callers : call'[d].kind = call[d].kind
    BY <1>1 DEF WriterType, CallRec
  <2>2. op.pc \in {"begin", "commit", "rollback"} => current \in Callers
    BY DEF OpInv, WriterType, None
  <2>3. /\ op'.pc = None => op' = NoOp
        /\ op'.pc = "over" => ~ op'.kill /\ op'.cause # None
    BY <1>3 DEF OpInv
  <2>4. \A i \in DOMAIN sql' : sql'[i].heard =>
          i = Len(sql') /\ sql'[i].by = current' /\ sql'[i].stmt = op'.pc
    BY <1>2, <1>3 DEF OpInv, SubmitCancelled
  <2>5. (sql = <<>>) <=> (Len(sql) = 0)
    BY DEF WriterType
  <2>6. (sql' = <<>>) <=> (Len(sql') = 0)
    BY <1>2
  <2>7. op'.reply # None => sql' = <<>>
    BY <1>2, <1>3, <2>5, <2>6 DEF OpInv
  <2>8. op'.pc \in Awaiting /\ op'.reply = None => sql' # <<>> /\ sql'[Len(sql')].heard
    BY <1>2, <1>3, <2>5, <2>6 DEF OpInv, WriterType
  <2> QED BY <1>3, <2>1, <2>2, <2>3, <2>4, <2>7, <2>8 DEF SubmitCancelled, OpInv
<1>6. RequestInv'
  <2>1. \A i \in DOMAIN queue : queue[i] # Stop => queue[i] \in Callers
    BY DEF WriterType
  <2> QED BY <1>1, <2>1 DEF SubmitCancelled, RequestInv, WriterType, CallRec
<1> QED BY <1>4, <1>5, <1>6

LEMMA ThreadRunsW ==
    ASSUME WInv, ThreadRuns
    PROVE  WInv'
<1> USE DEF WInv
<1>0. sql \in Seq(StmtRec) /\ sql # <<>>
  BY DEF ThreadRuns, WriterType
<1>1. PICK o \in Outcomes(Head(sql)) :
          /\ txn' = o.txn /\ work' = o.work /\ durable' = o.durable
          /\ op' = IF Head(sql).heard THEN [op EXCEPT !.reply = o.reply] ELSE op
  BY DEF ThreadRuns
<1>2. /\ o.txn \in Callers \cup {None} /\ o.work \subseteq Callers /\ o.durable \subseteq Callers
      /\ o.reply \in {"ok", "error"}
  <2>1. Head(sql).by \in Callers
    BY <1>0, TailSame DEF StmtRec
  <2> DEFINE same == [txn |-> txn, work |-> work, durable |-> durable, reply |-> "error"]
             h == Head(sql)
             Fine(x) == /\ x.txn \in Callers \cup {None} /\ x.work \subseteq Callers
                        /\ x.durable \subseteq Callers /\ x.reply \in {"ok", "error"}
  <2>2. Fine(same) /\ Fine([same EXCEPT !.txn = None, !.work = {}])
    BY DEF WriterType
  <2>3. Fine([same EXCEPT !.txn = h.by, !.reply = "ok"])
        /\ Fine([same EXCEPT !.durable = @ \cup {h.by}, !.reply = "ok"])
        /\ Fine([same EXCEPT !.work = @ \cup {h.by}, !.reply = "ok"])
    BY <2>1 DEF WriterType
  <2>4. Fine([[same EXCEPT !.txn = None, !.work = {}] EXCEPT !.durable = @ \cup work, !.reply = "ok"])
        /\ Fine([[same EXCEPT !.txn = None, !.work = {}] EXCEPT !.reply = "ok"])
    BY DEF WriterType
  <2>5. \/ o = same \/ o = [same EXCEPT !.txn = None, !.work = {}]
        \/ o = [same EXCEPT !.txn = h.by, !.reply = "ok"]
        \/ o = [same EXCEPT !.durable = @ \cup {h.by}, !.reply = "ok"]
        \/ o = [same EXCEPT !.work = @ \cup {h.by}, !.reply = "ok"]
        \/ o = [[same EXCEPT !.txn = None, !.work = {}] EXCEPT !.durable = @ \cup work, !.reply = "ok"]
        \/ o = [[same EXCEPT !.txn = None, !.work = {}] EXCEPT !.reply = "ok"]
    BY <1>1, SMTT(30) DEF Outcomes
  <2> HIDE DEF same, Fine
  <2>6. Fine(o)
    BY <2>2, <2>3, <2>4, <2>5
  <2> QED BY <2>6 DEF Fine
<1>3. op' \in OpRec /\ op'.pc = op.pc /\ op'.kill = op.kill /\ op'.cause = op.cause
      /\ (op'.reply = op.reply \/ Head(sql).heard)
  BY <1>1, <1>2 DEF WriterType, OpRec
<1>4. WriterType'
  BY <1>1, <1>2, <1>3, <1>0, TailSame DEF ThreadRuns, WriterType, pool, past
<1>5. OpInv'
  <2>1. Head(sql).heard => Len(sql) = 1 /\ sql' = <<>> /\ op.pc = sql[1].stmt /\ sql[1].stmt \in Awaiting
    BY <1>0, TailSame DEF OpInv, ThreadRuns, StmtRec
  <2>2. ~ Head(sql).heard => op' = op
    BY <1>1
  <2>3. ~ Head(sql).heard /\ op.pc \in Awaiting /\ op.reply = None => Len(sql) > 1
    BY <1>0, TailSame DEF OpInv
  <2>4. /\ Len(sql') = Len(sql) - 1 /\ \A i \in DOMAIN sql' : sql'[i] = sql[i + 1] /\ i + 1 \in DOMAIN sql
        /\ sql' \in Seq(StmtRec)
    BY <1>0, TailSame DEF ThreadRuns
  <2>5. op.pc = None => op' = op
    BY <2>1, <2>2 DEF Awaiting, None
  <2>6. op.pc \in {"created", "over"} => op' = op
    BY <2>1, <2>2 DEF Awaiting
  <2>7. \A i \in DOMAIN sql' : sql'[i].heard =>
          i = Len(sql') /\ sql'[i].by = current' /\ sql'[i].stmt = op'.pc
    BY <1>3, <2>4 DEF OpInv, ThreadRuns
  <2>8. op'.reply # None => sql' = <<>>
    BY <1>0, <1>3, <2>1, <2>2 DEF OpInv
  <2>9. op'.pc \in Awaiting /\ op'.reply = None => sql' # <<>> /\ sql'[Len(sql')].heard
    <3> SUFFICES ASSUME op'.pc \in Awaiting, op'.reply = None PROVE sql' # <<>> /\ sql'[Len(sql')].heard
      OBVIOUS
    <3>1. ~ Head(sql).heard
      BY <1>1, <1>2 DEF WriterType, OpRec, None
    <3>2. Len(sql) > 1 /\ sql[Len(sql)].heard
      BY <2>2, <2>3, <3>1 DEF OpInv
    <3> QED BY <2>4, <3>2, <1>0
  <2> QED BY <1>3, <2>5, <2>6, <2>7, <2>8, <2>9 DEF OpInv, ThreadRuns
<1>6. RequestInv'
  BY DEF ThreadRuns, RequestInv, past, pool
<1> QED BY <1>4, <1>5, <1>6

(* Only an operation that awaits a statement is listening.                  *)
LEMMA NobodyListens ==
    ASSUME WInv, op.pc \notin Awaiting
    PROVE  \A i \in DOMAIN sql : ~ sql[i].heard
<1> TAKE i \in DOMAIN sql
<1>1. sql[i] \in StmtRec
  BY DEF WInv, WriterType
<1>2. sql[i].stmt \in Awaiting
  BY <1>1 DEF StmtRec
<1> QED BY <1>2 DEF WInv, OpInv

LEMMA WriterTakesW ==
    ASSUME WInv, WriterTakes
    PROVE  WInv'
<1> USE DEF WInv
<1> DEFINE h == Head(queue)
<1>0. /\ queue \in Seq(Callers \cup {Stop}) /\ queue # <<>> /\ h \in Callers \cup {Stop}
      /\ queue' \in Seq(Callers \cup {Stop}) /\ h = queue[1] /\ 1 \in DOMAIN queue
      /\ \A i \in DOMAIN queue' : queue'[i] = queue[i + 1] /\ i + 1 \in DOMAIN queue /\ i \in Nat
  BY DEF WriterTakes, WriterType
<1>1. current = None /\ op = NoOp
  BY DEF WriterTakes, OpInv
<1>2. \A i \in DOMAIN queue' : h # Stop => queue'[i] # h
  <2> SUFFICES ASSUME NEW i \in DOMAIN queue', h # Stop, queue'[i] = h PROVE FALSE
    OBVIOUS
  <2>1. queue[i + 1] = queue[1] /\ queue[i + 1] # Stop /\ i + 1 \in DOMAIN queue /\ 1 \in DOMAIN queue
    BY <1>0
  <2>2. i + 1 = 1
    BY <2>1 DEF RequestInv
  <2> QED BY <1>0, <2>2
<1>3. \A i, j \in DOMAIN queue' : queue'[i] = queue'[j] /\ queue'[i] # Stop => i = j
  BY <1>0 DEF RequestInv
<1>4. \A i \in DOMAIN queue' : queue'[i] # Stop =>
          /\ queue'[i] # None
          /\ queue'[i] \in Callers
          /\ call[queue'[i]].pc \in {"waiting", "leaving"}
          /\ call[queue'[i]].kind \in Writes
          /\ call[queue'[i]].result = None /\ ~ call[queue'[i]].done
  BY <1>0, CallersAssumption DEF RequestInv, WriterType
<1>5. UNCHANGED <<phase, dying, txn, work, durable, sql, cut, lost, cancels>>
  BY DEF WriterTakes, connection, past
<1>6. \A i \in DOMAIN sql : ~ sql[i].heard
  BY <1>1, NobodyListens DEF NoOp, None, Awaiting
<1>a. CASE h = Stop
  <2>1. writer' = "ended" /\ UNCHANGED <<call, current, op>>
    BY <1>a DEF WriterTakes
  <2>2. WriterType'
    BY <1>0, <1>5, <2>1 DEF WriterType
  <2>3. OpInv'
    BY <1>1, <1>5, <2>1 DEF OpInv
  <2>4. RequestInv'
    BY <1>1, <1>3, <1>4, <2>1 DEF RequestInv
  <2> QED BY <2>2, <2>3, <2>4
<1>b. CASE h # Stop /\ call[h].cancelled
  <2>1. call' = [call EXCEPT ![h] = Settled(h, "cancelled")] /\ UNCHANGED <<writer, current, op>>
    BY <1>b DEF WriterTakes
  <2>2. Settled(h, "cancelled") \in CallRec
    <3>1. h \in Callers /\ call[h] \in CallRec
      BY <1>0, <1>b DEF WriterType
    <3> QED BY <3>1 DEF Settled, CallRec, Results
  <2>3. WriterType'
    BY <1>0, <1>5, <2>1, <2>2 DEF WriterType
  <2>4. OpInv'
    BY <1>1, <1>5, <2>1 DEF OpInv, NoOp, None
  <2>5. \A i \in DOMAIN queue' : queue'[i] # Stop => call'[queue'[i]] = call[queue'[i]]
    BY <1>2, <1>4, <1>b, <2>1 DEF WriterType
  <2>6. RequestInv'
    BY <1>1, <1>3, <1>4, <2>1, <2>5 DEF RequestInv
  <2> QED BY <2>3, <2>4, <2>6
<1>c. CASE h # Stop /\ ~ call[h].cancelled
  <2>1. writer' = "run" /\ current' = h /\ op' = [NoOp EXCEPT !.pc = "created"] /\ call' = call
    BY <1>c DEF WriterTakes
  <2>2. WriterType'
    BY <1>0, <1>5, <1>c, <2>1 DEF WriterType, OpRec, NoOp
  <2>3. OpInv'
    BY <1>0, <1>5, <1>6, <1>c, <2>1, CallersAssumption DEF OpInv, NoOp, None, Awaiting
  <2>4. RequestInv'
    BY <1>0, <1>2, <1>3, <1>4, <1>c, <2>1 DEF RequestInv
  <2> QED BY <2>2, <2>3, <2>4
<1> QED BY <1>a, <1>b, <1>c

(* An operation that runs is that of a caller's request.                    *)
LEMMA CurrentIs ==
    ASSUME WInv, op.pc # None
    PROVE  current \in Callers /\ writer = "run" /\ call[current] \in CallRec
           /\ \A i \in DOMAIN queue : queue[i] # current
<1>1. current # None /\ writer = "run"
  BY DEF WInv, OpInv
<1>2. current \in Callers /\ call[current] \in CallRec
  BY <1>1 DEF WInv, WriterType
<1>3. \A i \in DOMAIN queue : queue[i] # current
  BY <1>2, CallersAssumption DEF WInv, RequestInv
<1> QED BY <1>1, <1>2, <1>3

LEMMA WriterSettlesW ==
    ASSUME WInv, WriterSettles
    PROVE  WInv'
<1> USE DEF WInv
<1>0. current \in Callers /\ call[current] \in CallRec
      /\ call' = [call EXCEPT ![current] = Settled(current, op.cause)]
      /\ current' = None /\ op' = NoOp /\ writer' \in {"ended", "get"} /\ op.pc = "over"
      /\ dying' = FALSE /\ lost' \in BOOLEAN
      /\ UNCHANGED <<phase, queue, sql, txn, work, durable, cut, cancels>>
  BY CurrentIs DEF WriterSettles, connection, None, WriterType
<1>1. Settled(current, op.cause) \in CallRec
  BY <1>0 DEF Settled, CallRec, WriterType, OpRec, Results
<1>2. WriterType'
  BY <1>0, <1>1 DEF WriterType, OpRec, NoOp
<1>3. OpInv'
  <2>1. \A i \in DOMAIN sql : ~ sql[i].heard
    BY <1>0, NobodyListens DEF Awaiting
  <2> QED BY <1>0, <2>1 DEF OpInv, NoOp, None, Awaiting
<1>4. \A i \in DOMAIN queue : queue[i] # Stop => queue[i] \in Callers /\ queue[i] # current
  BY DEF RequestInv, WriterType
<1>5. RequestInv'
  BY <1>0, <1>4, CallersAssumption DEF RequestInv, WriterType
<1> QED BY <1>2, <1>3, <1>5

LEMMA WriterDiesW ==
    ASSUME WInv, WriterDies
    PROVE  WInv'
<1> USE DEF WInv, WriterDies, connection, past
<1>1. WriterType'
  BY DEF WriterType
<1>2. OpInv'
  BY DEF OpInv
<1>3. RequestInv'
  BY DEF RequestInv
<1> QED BY <1>1, <1>2, <1>3

(* The operation hands over its next statement and awaits it.               *)
LEMMA AwaitsW ==
    ASSUME WInv, op.pc # None, NEW p \in Awaiting, NEW x \in {None, "error", "cancelled"},
           p = "rollback" => x # None,
           p # "body" => call[current].kind = "transaction",
           op' = [NoOp EXCEPT !.pc = p, !.cause = x],
           NEW r \in StmtRec, r.stmt = p, r.by = current, r.heard,
           NEW s \in Seq(StmtRec), \A i \in DOMAIN s : ~ s[i].heard, sql' = Append(s, r),
           cut' \in BOOLEAN,
           UNCHANGED <<phase, call, queue, writer, dying, current, txn, work, durable, lost, cancels>>
    PROVE  WInv'
<1> USE DEF WInv
<1>1. WriterType'
  <2>1. op' \in OpRec
    BY DEF OpRec, NoOp
  <2>2. sql' \in Seq(StmtRec)
    BY AppendedSame
  <2> QED BY <2>1, <2>2 DEF WriterType
<1>2. OpInv'
  <2>1. op'.pc = p /\ op'.cause = x /\ op'.reply = None
    BY DEF NoOp
  <2>2. p \notin {None, "created", "over"}
    BY DEF Awaiting, None
  <2> QED BY <2>1, <2>2, AppendedSame DEF OpInv, None
<1>3. RequestInv'
  BY DEF RequestInv
<1> QED BY <1>1, <1>2, <1>3

(* The operation is over.                                                   *)
LEMMA OverW ==
    ASSUME WInv, op.pc # None, NEW x \in {"ok", "error", "cancelled"},
           op' = [NoOp EXCEPT !.pc = "over", !.cause = x],
           sql' \in Seq(StmtRec), \A i \in DOMAIN sql' : ~ sql'[i].heard,
           cut' \in BOOLEAN,
           UNCHANGED <<phase, call, queue, writer, dying, current, txn, work, durable, lost, cancels>>
    PROVE  WInv'
<1> USE DEF WInv
<1>1. WriterType'
  <2>1. op' \in OpRec
    BY DEF OpRec, NoOp
  <2> QED BY <2>1 DEF WriterType
<1>2. OpInv'
  BY DEF OpInv, NoOp, None, Awaiting
<1>3. RequestInv'
  BY DEF RequestInv
<1> QED BY <1>1, <1>2, <1>3

LEMMA OpBeginsW ==
    ASSUME WInv, OpBegins
    PROVE  WInv'
<1>1. op.pc # None /\ current \in Callers /\ \A i \in DOMAIN sql : ~ sql[i].heard
  BY CurrentIs, NobodyListens DEF OpBegins, None, Awaiting
<1> DEFINE r(p) == [stmt |-> p, by |-> current, heard |-> TRUE, hit |-> FALSE]
<1>2. r("begin") \in StmtRec /\ r("body") \in StmtRec
  BY <1>1 DEF StmtRec, Awaiting
<1>3. sql \in Seq(StmtRec) /\ cut \in BOOLEAN
  BY DEF WInv, WriterType
<1>4. UNCHANGED <<phase, call, queue, writer, dying, current, txn, work, durable, lost, cancels, cut>>
  BY DEF OpBegins, past
<1>a. CASE call[current].kind = "transaction"
  <2>1. op' = [NoOp EXCEPT !.pc = "begin", !.cause = None] /\ sql' = Append(sql, r("begin"))
    BY <1>a DEF OpBegins, Awaits, Handed
  <2>2. "begin" \in Awaiting /\ None \in {None, "error", "cancelled"}
    BY DEF Awaiting
  <2> QED BY <1>1, <1>2, <1>3, <1>4, <1>a, <2>1, <2>2, AwaitsW
<1>b. CASE call[current].kind # "transaction"
  <2>1. op' = [NoOp EXCEPT !.pc = "body", !.cause = None] /\ sql' = Append(sql, r("body"))
    BY <1>b DEF OpBegins, Awaits, Handed
  <2>2. "body" \in Awaiting /\ None \in {None, "error", "cancelled"}
    BY DEF Awaiting
  <2> QED BY <1>1, <1>2, <1>3, <1>4, <1>b, <2>1, <2>2, AwaitsW
<1> QED BY <1>a, <1>b

(* When the operation has its reply, nothing is with the thread.            *)
LEMMA RepliedIs ==
    ASSUME WInv, op.reply # None
    PROVE  sql = <<>> /\ op.pc \in Awaiting /\ op.reply \in {"ok", "error"}
<1>1. op \in OpRec
  BY DEF WInv, WriterType
<1> QED BY <1>1 DEF WInv, OpInv, OpRec, NoOp

LEMMA OpGoesOnW ==
    ASSUME WInv, OpGoesOn
    PROVE  WInv'
<1>1. sql = <<>> /\ op.pc \in Awaiting /\ op.reply \in {"ok", "error"}
  BY RepliedIs DEF OpGoesOn
<1>2. op.pc # None /\ current \in Callers /\ sql \in Seq(StmtRec) /\ cut \in BOOLEAN
      /\ \A i \in DOMAIN sql : ~ sql[i].heard
  BY <1>1, CurrentIs DEF WInv, WriterType, None, Awaiting
<1>3. UNCHANGED <<phase, call, queue, writer, dying, current, txn, work, durable, lost, cancels, cut>>
  BY DEF OpGoesOn, past
<1>4. op.pc = "rollback" => op.cause \in {"error", "cancelled"}
  BY DEF WInv, OpInv
<1>5. op.pc \in {"begin", "commit"} => call[current].kind = "transaction"
  BY DEF WInv, OpInv
<1> DEFINE r(p) == [stmt |-> p, by |-> current, heard |-> TRUE, hit |-> FALSE]
<1>6. \A p \in Awaiting : r(p) \in StmtRec
  BY <1>2 DEF StmtRec
<1>7. \/ \E x \in {"ok", "error", "cancelled"} :
            op' = [NoOp EXCEPT !.pc = "over", !.cause = x] /\ sql' = sql
      \/ \E p \in Awaiting, x \in {None, "error", "cancelled"} :
            /\ p = "rollback" => x # None
            /\ p # "body" => call[current].kind = "transaction"
            /\ op' = [NoOp EXCEPT !.pc = p, !.cause = x] /\ sql' = Append(sql, r(p))
  BY <1>1, <1>4, <1>5 DEF OpGoesOn, Awaits, Over, Handed, Awaiting, None
<1>a. CASE \E x \in {"ok", "error", "cancelled"} :
            op' = [NoOp EXCEPT !.pc = "over", !.cause = x] /\ sql' = sql
  BY <1>a, <1>2, <1>3, OverW
<1>b. CASE \E p \in Awaiting, x \in {None, "error", "cancelled"} :
            /\ p = "rollback" => x # None
            /\ p # "body" => call[current].kind = "transaction"
            /\ op' = [NoOp EXCEPT !.pc = p, !.cause = x] /\ sql' = Append(sql, r(p))
  <2>1. PICK p \in Awaiting, x \in {None, "error", "cancelled"} :
            /\ p = "rollback" => x # None
            /\ p # "body" => call[current].kind = "transaction"
            /\ op' = [NoOp EXCEPT !.pc = p, !.cause = x] /\ sql' = Append(sql, r(p))
    BY <1>b
  <2>2. r(p) \in StmtRec /\ r(p).stmt = p /\ r(p).by = current /\ r(p).heard
    BY <1>6
  <2> HIDE DEF r
  <2> QED BY <2>1, <2>2, <1>2, <1>3, AwaitsW
<1> QED BY <1>7, <1>a, <1>b

LEMMA OpCancelledW ==
    ASSUME WInv, OpCancelled
    PROVE  WInv'
<1>1. op.pc \notin {None, "over"}
  BY DEF OpCancelled, WInv, OpInv, NoOp
<1>2. current \in Callers /\ sql \in Seq(StmtRec) /\ cut' \in BOOLEAN
  BY <1>1, CurrentIs DEF WInv, WriterType, OpCancelled
<1>3. UNCHANGED <<phase, call, queue, writer, dying, current, txn, work, durable, lost, cancels>>
  BY DEF OpCancelled
<1>4. Unheard \in Seq(StmtRec) /\ \A i \in DOMAIN Unheard : ~ Unheard[i].heard
  BY <1>2, UnheardSame
<1>5. op.pc = "commit" => call[current].kind = "transaction"
  BY DEF WInv, OpInv
<1> DEFINE r == [stmt |-> "rollback", by |-> current, heard |-> TRUE, hit |-> FALSE]
<1>6. r \in StmtRec /\ "rollback" \in Awaiting
  BY <1>2 DEF StmtRec, Awaiting
<1>7. \/ op' = [NoOp EXCEPT !.pc = "over", !.cause = "cancelled"] /\ sql' = Unheard
      \/ /\ call[current].kind = "transaction"
         /\ op' = [NoOp EXCEPT !.pc = "rollback", !.cause = "cancelled"] /\ sql' = Append(Unheard, r)
  BY <1>5 DEF OpCancelled, Awaits, Over
<1>a. CASE op' = [NoOp EXCEPT !.pc = "over", !.cause = "cancelled"] /\ sql' = Unheard
  BY <1>a, <1>1, <1>2, <1>3, <1>4, OverW
<1>b. CASE /\ call[current].kind = "transaction"
           /\ op' = [NoOp EXCEPT !.pc = "rollback", !.cause = "cancelled"] /\ sql' = Append(Unheard, r)
  <2>1. "cancelled" # None
    BY DEF None
  <2> QED BY <1>b, <1>1, <1>2, <1>3, <1>4, <1>6, <2>1, AwaitsW
<1> QED BY <1>7, <1>a, <1>b

LEMMA StopBeginsW ==
    ASSUME WInv, StopBegins
    PROVE  WInv'
<1> USE DEF WInv, StopBegins, writing, connection, past
<1>1. WriterType'
  BY DEF WriterType
<1>2. OpInv'
  BY DEF OpInv
<1>3. RequestInv'
  BY DEF RequestInv
<1> QED BY <1>1, <1>2, <1>3

LEMMA StopJoinedW ==
    ASSUME WInv, StopJoined
    PROVE  WInv'
<1> USE DEF WInv, writing, connection, past
<1>0. UNCHANGED <<writing, connection, past>> /\ phase' = "readers" /\ queue = <<>> /\ current = None
      /\ call' \in [Callers -> CallRec]
  BY NotifiedSame DEF StopJoined, WriterType
<1>1. WriterType'
  BY <1>0 DEF WriterType
<1>2. op.pc = None
  BY <1>0 DEF OpInv
<1>3. OpInv'
  BY <1>0, <1>2 DEF OpInv, None
<1>4. RequestInv'
  BY <1>0 DEF RequestInv
<1> QED BY <1>1, <1>3, <1>4

LEMMA StopReadersBackW ==
    ASSUME WInv, StopReadersBack
    PROVE  WInv'
<1> USE DEF WInv, connection, past
<1>0. UNCHANGED <<call, writer, dying, current, op, connection, past>> /\ phase' = "writer"
      /\ queue' = Append(queue, Stop) /\ queue \in Seq(Callers \cup {Stop})
  BY DEF StopReadersBack, WriterType
<1>1. WriterType'
  BY <1>0 DEF WriterType
<1>2. OpInv'
  BY <1>0 DEF OpInv
<1>3. \A i \in DOMAIN queue' : queue'[i] # Stop => i \in DOMAIN queue /\ queue'[i] = queue[i]
  BY <1>0
<1>4. RequestInv'
  BY <1>0, <1>3 DEF RequestInv
<1> QED BY <1>1, <1>2, <1>4

LEMMA ClosesW ==
    ASSUME WInv, Closes("writer") \/ Closes("abort")
    PROVE  WInv'
<1> USE DEF WInv
<1>0. UNCHANGED <<call, queue, writer, dying, current, op, sql, durable, cut, lost, cancels>>
      /\ phase' = "closed" /\ txn' = None /\ work' = {}
  BY DEF Closes, writing, past
<1>1. WriterType'
  BY <1>0 DEF WriterType
<1>2. OpInv'
  BY <1>0 DEF OpInv
<1>3. RequestInv'
  BY <1>0 DEF RequestInv
<1> QED BY <1>1, <1>2, <1>3

(* What an abort does to the requests, to the thread and to the operation.  *)
LEMMA AbortDoes ==
    ASSUME WInv, Abort
    PROVE  /\ phase' = "abort" /\ queue' = <<>>
           /\ UNCHANGED <<writer, current, txn, work, durable, cut, lost, cancels>>
           /\ call' \in [Callers -> CallRec]
           /\ \A c \in Callers : call'[c].kind = call[c].kind
           /\ \A c \in Callers : call'[c].pc # call[c].pc => call[c].pc = "parked"
           /\ \A c \in Callers : call'[c].result \in {call[c].result, "closed"}
           /\ current # None => /\ call'[current].result = "closed"
                                /\ call'[current].done = call[current].done
           /\ op' \in OpRec /\ op'.pc = op.pc /\ op'.reply = op.reply
           /\ op.pc = "over" => ~ op'.kill /\ op'.cause = "cancelled"
           /\ op.pc # "over" => op'.cause = op.cause
           /\ op.pc = None => op' = op
           /\ sql' \in Seq(StmtRec) /\ Len(sql') = Len(sql)
           /\ DOMAIN sql' = 1 .. Len(sql) /\ DOMAIN sql = 1 .. Len(sql) /\ Len(sql) \in Nat
           /\ \A i \in 1 .. Len(sql) : /\ sql'[i].stmt = sql[i].stmt
                                       /\ sql'[i].by = sql[i].by
                                       /\ sql'[i].heard = sql[i].heard
<1> USE DEF WInv
<1> DEFINE n == NotifyAll(call)
<1>1. n \in [Callers -> CallRec] /\ \A c \in Callers :
          IF call[c].pc = "parked" THEN n[c] = [call[c] EXCEPT !.pc = "woken"] ELSE n[c] = call[c]
  BY NotifiedSame DEF WriterType
<1>2. \A c \in Callers : /\ n[c] \in CallRec /\ n[c].kind = call[c].kind
                         /\ n[c].pc # call[c].pc => call[c].pc = "parked"
                         /\ n[c].result = call[c].result /\ n[c].done = call[c].done
  <2> TAKE c \in Callers
  <2>1. call[c] \in CallRec
    BY DEF WriterType
  <2> QED BY <1>1, <2>1 DEF CallRec
<1>3. call' = [c \in Callers |->
                 IF \E i \in DOMAIN queue : queue[i] = c
                 THEN [n[c] EXCEPT !.result = "closed", !.done = TRUE]
                 ELSE IF c = current THEN [n[c] EXCEPT !.result = "closed"] ELSE n[c]]
  BY DEF Abort
<1>4. \A c \in Callers : /\ [n[c] EXCEPT !.result = "closed", !.done = TRUE] \in CallRec
                         /\ [n[c] EXCEPT !.result = "closed"] \in CallRec
  BY <1>2 DEF CallRec, Results
<1>5. /\ call' \in [Callers -> CallRec]
      /\ \A c \in Callers : call'[c].kind = call[c].kind
      /\ \A c \in Callers : call'[c].pc # call[c].pc => call[c].pc = "parked"
      /\ \A c \in Callers : call'[c].result \in {call[c].result, "closed"}
  <2>1. call' \in [Callers -> CallRec]
    BY <1>2, <1>3, <1>4
  <2>2. \A c \in Callers : /\ call'[c].kind = n[c].kind /\ call'[c].pc = n[c].pc
                           /\ call'[c].result \in {n[c].result, "closed"}
    <3> TAKE c \in Callers
    <3>1. n[c] \in CallRec
      BY <1>2
    <3> QED BY <1>3, <3>1 DEF CallRec
  <2> QED BY <1>2, <2>1, <2>2
<1>6. current # None => /\ call'[current].result = "closed"
                        /\ call'[current].done = call[current].done
  <2> HAVE current # None
  <2>1. current \in Callers /\ op.pc # None
    BY DEF WriterType, OpInv
  <2>2. call'[current] = [n[current] EXCEPT !.result = "closed"] /\ n[current] \in CallRec
    BY <1>2, <1>3, <2>1, CurrentIs
  <2> QED BY <1>2, <2>1, <2>2 DEF CallRec
<1>7. /\ op' \in OpRec /\ op'.pc = op.pc /\ op'.reply = op.reply
      /\ op.pc = "over" => ~ op'.kill /\ op'.cause = "cancelled"
      /\ op.pc # "over" => op'.cause = op.cause
      /\ op.pc = None => op' = op
  <2>1. op \in OpRec /\ (op.pc = None => writer # "run") /\ (op.pc = "over" => writer = "run" /\ ~ op.kill)
    BY DEF WriterType, OpInv, None
  <2>2. op' = CASE writer = "run" /\ op.pc # "over" -> [op EXCEPT !.kill = TRUE]
               [] writer = "run" /\ op.pc = "over" -> [op EXCEPT !.cause = "cancelled"]
               [] OTHER -> op
    BY DEF Abort
  <2>a. CASE writer = "run" /\ op.pc # "over"
    BY <2>1, <2>2, <2>a DEF OpRec
  <2>b. CASE writer = "run" /\ op.pc = "over"
    BY <2>1, <2>2, <2>b DEF OpRec, None
  <2>c. CASE writer # "run"
    BY <2>1, <2>2, <2>c
  <2> QED BY <2>a, <2>b, <2>c
<1>8. sql' = Interrupted(sql) /\ sql \in Seq(StmtRec)
  BY DEF Abort, WriterType
<1>9. /\ sql' \in Seq(StmtRec) /\ Len(sql') = Len(sql)
      /\ DOMAIN sql' = 1 .. Len(sql) /\ DOMAIN sql = 1 .. Len(sql) /\ Len(sql) \in Nat
      /\ \A i \in 1 .. Len(sql) : /\ sql'[i].stmt = sql[i].stmt
                                  /\ sql'[i].by = sql[i].by
                                  /\ sql'[i].heard = sql[i].heard
  BY <1>8, InterruptedSame
<1>10. UNCHANGED <<writer, current, txn, work, durable, cut, lost, cancels>>
  BY DEF Abort, past
<1>11. phase' = "abort" /\ queue' = <<>>
  BY DEF Abort
<1> HIDE DEF n, WInv
<1> QED BY <1>5, <1>6, <1>7, <1>9, <1>10, <1>11

LEMMA AbortW ==
    ASSUME WInv, Abort
    PROVE  WInv'
<1> USE DEF WInv
<1>1. WriterType'
  <2>1. dying' \in BOOLEAN
    BY DEF Abort
  <2>2. queue' \in Seq(Callers \cup {Stop})
    BY AbortDoes
  <2> QED BY <2>1, <2>2, AbortDoes DEF WriterType
<1>2. OpInv'
  <2>1. op.pc \in {"begin", "commit", "rollback"} => current \in Callers
    BY CurrentIs DEF None
  <2>2. \A i \in DOMAIN sql' : sql'[i].heard =>
          i = Len(sql') /\ sql'[i].by = current' /\ sql'[i].stmt = op'.pc
    BY AbortDoes DEF OpInv
  <2>3. (sql = <<>>) <=> (sql' = <<>>)
    <3>1. sql \in Seq(StmtRec) /\ sql' \in Seq(StmtRec) /\ Len(sql') = Len(sql)
      BY AbortDoes DEF WriterType
    <3> QED BY <3>1
  <2>4. op'.pc \in Awaiting /\ op'.reply = None => sql' # <<>> /\ sql'[Len(sql')].heard
    <3> SUFFICES ASSUME op.pc \in Awaiting, op.reply = None PROVE sql' # <<>> /\ sql'[Len(sql')].heard
      BY AbortDoes
    <3>1. sql # <<>> /\ sql[Len(sql)].heard
      BY DEF OpInv
    <3>2. Len(sql) \in 1 .. Len(sql)
      BY <3>1 DEF WriterType
    <3> QED BY <2>3, <3>1, <3>2, AbortDoes
  <2>5. /\ op'.pc = None => op' = NoOp
        /\ op'.pc \in {"created", "over"} => op'.reply = None
        /\ op'.pc = "over" => ~ op'.kill /\ op'.cause # None
        /\ op'.pc = "rollback" => op'.cause \in {"error", "cancelled"}
    BY AbortDoes DEF OpInv, None
  <2>6. op'.pc \in {"begin", "commit", "rollback"} => call'[current'].kind = "transaction"
    BY <2>1, AbortDoes DEF OpInv
  <2>7. op'.reply # None => sql' = <<>>
    BY <2>3, AbortDoes DEF OpInv
  <2>8. ((writer' = "run") <=> (current' # None)) /\ ((op'.pc # None) <=> (current' # None))
    BY AbortDoes DEF OpInv
  <2> QED BY <2>2, <2>4, <2>5, <2>6, <2>7, <2>8 DEF OpInv
<1>3. RequestInv'
  <2>1. current # None => current \in Callers
    BY DEF WriterType
  <2>2. current # None => call[current].pc \in {"waiting", "leaving", "idle"}
            /\ call[current].kind \in Writes /\ ~ call[current].done
    BY DEF RequestInv
  <2>3. DOMAIN queue' = {}
    BY AbortDoes
  <2>4. "closed" # None
    BY DEF None
  <2> QED BY <2>1, <2>2, <2>3, <2>4, AbortDoes DEF RequestInv
<1> QED BY <1>1, <1>2, <1>3

-----------------------------------------------------------------------------
(* Steps of the readers *)

(* A caller that is in the pool, or free while the executor accepts, is not *)
(* in the hands of the writer.                                              *)
LEMMA NotWriting ==
    ASSUME WInv, NEW c \in Callers,
           \/ call[c].pc \in {"parked", "woken", "opening", "reading"}
           \/ accepting /\ call[c].pc = "idle"
    PROVE  c # current /\ \A i \in DOMAIN queue : queue[i] # c
<1>1. c # current
  BY CallersAssumption DEF WInv, RequestInv, accepting
<1>2. \A i \in DOMAIN queue : queue[i] # c
  BY CallersAssumption DEF WInv, RequestInv
<1> QED BY <1>1, <1>2

(* What a step of one reader makes of the records of the callers.           *)
OneReader(c, r) ==
    /\ \/ call[c].pc \in {"parked", "woken", "opening", "reading"}
       \/ accepting /\ call[c].pc = "idle"
    /\ call' = [call EXCEPT ![c] = r] \/ (r.pc # "parked" /\ call' = NotifyAll([call EXCEPT ![c] = r]))
    /\ UNCHANGED <<phase, writing, connection, past>>

LEMMA OneReaderDoes ==
    ASSUME WInv, NEW c \in Callers, NEW r \in CallRec, OneReader(c, r)
    PROVE  /\ call' \in [Callers -> CallRec]
           /\ call'[c] = r
           /\ \A d \in Callers \ {c} :
                 \/ call'[d] = call[d]
                 \/ call[d].pc = "parked" /\ call'[d] = [call[d] EXCEPT !.pc = "woken"]
           /\ r.pc # "parked" /\ call' = NotifyAll([call EXCEPT ![c] = r]) =>
                 \A d \in Callers : call'[d].pc # "parked"
<1> DEFINE f == [call EXCEPT ![c] = r]
<1>0. call \in [Callers -> CallRec] /\ f \in [Callers -> CallRec] /\ f[c] = r
      /\ \A d \in Callers \ {c} : f[d] = call[d]
  BY DEF WInv, WriterType
<1>1. CASE call' = f /\ ~ (r.pc # "parked" /\ call' = NotifyAll(f))
  BY <1>0, <1>1
<1>2. CASE r.pc # "parked" /\ call' = NotifyAll(f)
  <2>1. /\ NotifyAll(f) \in [Callers -> CallRec]
        /\ \A d \in Callers : IF f[d].pc = "parked"
                              THEN NotifyAll(f)[d] = [f[d] EXCEPT !.pc = "woken"]
                              ELSE NotifyAll(f)[d] = f[d]
    BY <1>0, NotifiedSame
  <2> HIDE DEF f
  <2>2. \A d \in Callers : call'[d].pc # "parked"
    <3> TAKE d \in Callers
    <3>1. f[d] \in CallRec
      BY <1>0
    <3> QED BY <1>2, <2>1, <3>1 DEF CallRec
  <2> QED BY <1>0, <1>2, <2>1, <2>2
<1> QED BY <1>1, <1>2 DEF OneReader

LEMMA OneReaderW ==
    ASSUME WInv, NEW c \in Callers, NEW r \in CallRec, OneReader(c, r)
    PROVE  WInv'
<1>1. \A d \in Callers : d = current \/ (\E i \in DOMAIN queue : queue[i] = d) => call'[d] = call[d]
  <2> SUFFICES ASSUME NEW d \in Callers, d = current \/ (\E i \in DOMAIN queue : queue[i] = d)
               PROVE  call'[d] = call[d]
    OBVIOUS
  <2>1. d # c
    BY NotWriting DEF OneReader
  <2>2. call[d].pc # "parked"
    BY NotWriting
  <2> QED BY <2>1, <2>2, OneReaderDoes
<1>2. (\A d \in Callers : d = current \/ (\E i \in DOMAIN queue : queue[i] = d) => call'[d] = call[d])
      /\ call' \in [Callers -> CallRec] /\ UNCHANGED <<phase, writing, connection, past>>
  BY <1>1, OneReaderDoes DEF OneReader
<1> QED BY <1>2, ReaderStepW

(* The steps of the pool, each with the counts it changes.                  *)
LEMMA RoundDoes ==
    ASSUME NEW c \in Callers, BorrowRound(c)
    PROVE  \E r \in CallRec :
             /\ call' = [call EXCEPT ![c] = r] /\ r.result = None
             /\ \/ /\ r.pc = "reading" /\ idle > 0 /\ idle' = idle - 1
                   /\ borrowed' = borrowed + 1 /\ UNCHANGED <<total, opening>>
                \/ /\ r.pc = "opening" /\ idle = 0 /\ total + opening < MaxReaders
                   /\ opening' = opening + 1 /\ UNCHANGED <<idle, total, borrowed>>
                \/ /\ r.pc = "parked" /\ idle = 0 /\ total + opening >= MaxReaders
                   /\ UNCHANGED <<idle, total, opening, borrowed>>
<1> DEFINE r(p) == [NoCall EXCEPT !.pc = p, !.kind = "read"]
<1>1. \A p \in {"reading", "opening", "parked"} : r(p) \in CallRec /\ r(p).pc = p /\ r(p).result = None
  BY DEF NoCall, CallRec, Pcs, Results, Kinds
<1>a. CASE idle > 0 /\ idle' = idle - 1 /\ borrowed' = borrowed + 1 /\ UNCHANGED <<total, opening>>
           /\ call' = [call EXCEPT ![c] = r("reading")]
  BY <1>1, <1>a
<1>b. CASE idle = 0 /\ total + opening < MaxReaders /\ opening' = opening + 1
           /\ call' = [call EXCEPT ![c] = r("opening")] /\ UNCHANGED <<idle, total, borrowed>>
  BY <1>1, <1>b
<1>c. CASE idle = 0 /\ total + opening >= MaxReaders /\ call' = [call EXCEPT ![c] = r("parked")]
           /\ UNCHANGED <<idle, total, opening, borrowed>>
  BY <1>1, <1>c
<1> QED BY <1>a, <1>b, <1>c DEF BorrowRound, pool

LEMMA NoCallRec == NoCall \in CallRec /\ NoCall.pc = "idle" /\ NoCall.result = None
  BY DEF NoCall, CallRec, Pcs, Results

(* Cardinality of a set of callers that one joins or leaves.                *)
LEMMA ReadersChange ==
    ASSUME WInv, NEW c \in Callers, NEW r \in CallRec, OneReader(c, r),
           NEW p \in {"opening", "reading"}, IsFiniteSet(Readers(p))
    PROVE  /\ IsFiniteSet(Readers(p)')
           /\ Cardinality(Readers(p)') =
                 Cardinality(Readers(p)) + (IF r.pc = p THEN 1 ELSE 0) - (IF call[c].pc = p THEN 1 ELSE 0)
<1>0. Cardinality(Readers(p)) \in Nat
  BY FS_CardinalityType
<1>1. \A d \in Callers \ {c} : call'[d].pc = p <=> call[d].pc = p
  <2> TAKE d \in Callers \ {c}
  <2>1. call[d] \in CallRec
    BY DEF WInv, WriterType
  <2>2. \/ call'[d] = call[d]
        \/ call[d].pc = "parked" /\ call'[d] = [call[d] EXCEPT !.pc = "woken"]
    BY OneReaderDoes
  <2>3. call'[d].pc = call[d].pc \/ (call[d].pc = "parked" /\ call'[d].pc = "woken")
    BY <2>1, <2>2 DEF CallRec
  <2> QED BY <2>3
<1>2. call'[c].pc = r.pc
  BY OneReaderDoes
<1>a. CASE r.pc = p
  <2>1. Readers(p)' = Readers(p) \cup {c}
    BY <1>1, <1>2, <1>a DEF Readers
  <2>2. /\ IsFiniteSet(Readers(p) \cup {c})
        /\ Cardinality(Readers(p) \cup {c}) =
              IF c \in Readers(p) THEN Cardinality(Readers(p)) ELSE Cardinality(Readers(p)) + 1
    BY FS_AddElement
  <2>3. (c \in Readers(p)) <=> (call[c].pc = p)
    BY DEF Readers
  <2> QED BY <1>a, <1>0, <2>1, <2>2, <2>3
<1>b. CASE r.pc # p
  <2>1. Readers(p)' = Readers(p) \ {c}
    BY <1>1, <1>2, <1>b DEF Readers
  <2>2. /\ IsFiniteSet(Readers(p) \ {c})
        /\ Cardinality(Readers(p) \ {c}) =
              IF c \in Readers(p) THEN Cardinality(Readers(p)) - 1 ELSE Cardinality(Readers(p))
    BY FS_RemoveElement
  <2>3. (c \in Readers(p)) <=> (call[c].pc = p)
    BY DEF Readers
  <2> QED BY <1>b, <1>0, <2>1, <2>2, <2>3
<1> QED BY <1>a, <1>b

(* Who is parked after it.                                                  *)
LEMMA ParkedChange ==
    ASSUME WInv, NEW c \in Callers, NEW r \in CallRec, OneReader(c, r)
    PROVE  /\ r.pc # "parked" => Parked' \subseteq Parked \ {c}
           /\ Parked' \subseteq Parked \cup {c}
           /\ r.pc # "parked" /\ call' = NotifyAll([call EXCEPT ![c] = r]) => Parked' = {}
<1>1. \A d \in Callers \ {c} : call'[d].pc = "parked" => call[d].pc = "parked"
  BY OneReaderDoes
<1>2. call'[c].pc = r.pc
  BY OneReaderDoes
<1>3. r.pc # "parked" /\ call' = NotifyAll([call EXCEPT ![c] = r]) =>
        \A d \in Callers : call'[d].pc # "parked"
  BY OneReaderDoes
<1> QED BY <1>1, <1>2, <1>3 DEF Parked

(* The counts, and that nobody waits for what is there, after a reader step.*)
LEMMA OneReaderPool ==
    ASSUME WInv, PoolInv, NEW c \in Callers, NEW r \in CallRec, OneReader(c, r),
           r.pc \in {"idle", "parked", "opening", "reading"},
           idle' \in Nat, total' \in Nat,
           opening' = opening + (IF r.pc = "opening" THEN 1 ELSE 0) - (IF call[c].pc = "opening" THEN 1 ELSE 0),
           borrowed' = borrowed + (IF r.pc = "reading" THEN 1 ELSE 0) - (IF call[c].pc = "reading" THEN 1 ELSE 0),
           total' + opening' <= MaxReaders,
           accepting => idle' + borrowed' = total',
           accepting => \/ r.pc = "parked" /\ idle' = 0 /\ total' + opening' >= MaxReaders
                        \/ r.pc # "parked" /\ idle' <= idle /\ total' + opening' >= total + opening
                        \/ r.pc # "parked" /\ call' = NotifyAll([call EXCEPT ![c] = r])
    PROVE  PoolInv'
<1> USE DEF PoolInv
<1>0. call[c] \in CallRec /\ phase' = phase
  BY DEF WInv, WriterType, OneReader
<1>1. IsFiniteSet(Readers("opening")') /\ opening' = Cardinality(Readers("opening")')
  <2>1. IsFiniteSet(Readers("opening")) /\ opening = Cardinality(Readers("opening"))
    OBVIOUS
  <2>2. /\ IsFiniteSet(Readers("opening")')
        /\ Cardinality(Readers("opening")') = Cardinality(Readers("opening"))
              + (IF r.pc = "opening" THEN 1 ELSE 0) - (IF call[c].pc = "opening" THEN 1 ELSE 0)
    BY <2>1, ReadersChange
  <2> QED BY <2>1, <2>2
<1>2. IsFiniteSet(Readers("reading")') /\ borrowed' = Cardinality(Readers("reading")')
  <2>1. IsFiniteSet(Readers("reading")) /\ borrowed = Cardinality(Readers("reading"))
    OBVIOUS
  <2>2. /\ IsFiniteSet(Readers("reading")')
        /\ Cardinality(Readers("reading")') = Cardinality(Readers("reading"))
              + (IF r.pc = "reading" THEN 1 ELSE 0) - (IF call[c].pc = "reading" THEN 1 ELSE 0)
    BY <2>1, ReadersChange
  <2> QED BY <2>1, <2>2
<1>3. opening' \in Nat /\ borrowed' \in Nat
  BY <1>1, <1>2, FS_CardinalityType
<1>4. accepting /\ Parked' # {} => idle' = 0 /\ total' + opening' >= MaxReaders
  <2> SUFFICES ASSUME accepting, Parked' # {} PROVE idle' = 0 /\ total' + opening' >= MaxReaders
    OBVIOUS
  <2>1. ~ (r.pc # "parked" /\ call' = NotifyAll([call EXCEPT ![c] = r]))
    BY ParkedChange
  <2>2. CASE idle' <= idle /\ total' + opening' >= total + opening /\ r.pc # "parked"
    <3>1. Parked # {}
      BY <2>2, ParkedChange
    <3> QED BY <2>2, <3>1, <1>3, PoolAssumption
  <2> QED BY <2>1, <2>2
<1>5. accepting' = accepting
  BY <1>0 DEF accepting
<1> QED BY <1>1, <1>2, <1>3, <1>4, <1>5

(* Every step of a reader, its record and the pool after it.                *)
LEMMA ReadersDo ==
    ASSUME WInv, PoolInv, NEW c \in Callers,
           Borrow(c) \/ Reads(c) \/ BorrowCancelled(c) \/ OpenFails(c)
    PROVE  /\ PoolInv'
           /\ \E r \in CallRec : /\ OneReader(c, r)
                                /\ \/ r.result = None
                                   \/ r.result = call[c].result /\ r.kind = call[c].kind
<1> USE DEF PoolInv
<1>0. call \in [Callers -> CallRec] /\ call[c] \in CallRec
  BY DEF WInv, WriterType
<1>n. NoCall \in CallRec /\ NoCall.pc = "idle" /\ NoCall.result = None
  BY NoCallRec
<1>a. CASE (Borrow(c) \/ (BorrowAgain(c) /\ accepting))
  <2>1. BorrowRound(c) /\ accepting /\ call[c].pc \in {"idle", "woken"}
        /\ UNCHANGED <<phase, writing, connection, past>>
    BY <1>a, NoCallRec DEF Borrow, BorrowAgain
  <2>2. PICK r \in CallRec :
             /\ call' = [call EXCEPT ![c] = r] /\ r.result = None
             /\ \/ /\ r.pc = "reading" /\ idle > 0 /\ idle' = idle - 1
                   /\ borrowed' = borrowed + 1 /\ UNCHANGED <<total, opening>>
                \/ /\ r.pc = "opening" /\ idle = 0 /\ total + opening < MaxReaders
                   /\ opening' = opening + 1 /\ UNCHANGED <<idle, total, borrowed>>
                \/ /\ r.pc = "parked" /\ idle = 0 /\ total + opening >= MaxReaders
                   /\ UNCHANGED <<idle, total, opening, borrowed>>
    BY <2>1, RoundDoes
  <2>3. OneReader(c, r)
    BY <2>1, <2>2 DEF OneReader
  <2>4. /\ r.pc \in {"idle", "parked", "opening", "reading"}
        /\ idle' \in Nat /\ total' \in Nat
        /\ opening' = opening + (IF r.pc = "opening" THEN 1 ELSE 0) - (IF call[c].pc = "opening" THEN 1 ELSE 0)
        /\ borrowed' = borrowed + (IF r.pc = "reading" THEN 1 ELSE 0) - (IF call[c].pc = "reading" THEN 1 ELSE 0)
        /\ total' + opening' <= MaxReaders
        /\ idle' + borrowed' = total'
        /\ \/ r.pc = "parked" /\ idle' = 0 /\ total' + opening' >= MaxReaders
           \/ r.pc # "parked" /\ idle' <= idle /\ total' + opening' >= total + opening
    BY <2>1, <2>2, PoolAssumption
  <2>5. PoolInv'
    BY <2>3, <2>4, OneReaderPool
  <2> QED BY <2>2, <2>3, <2>5
<1>b. CASE (BorrowAgain(c) /\ ~ accepting) \/ BorrowCancelled(c)
  <2>1. OneReader(c, NoCall) /\ UNCHANGED <<idle, total, opening, borrowed>> /\ call[c].pc \in {"parked", "woken"}
    BY <1>b DEF OneReader, BorrowAgain, BorrowCancelled, pool
  <2>2. /\ idle' \in Nat /\ total' \in Nat /\ opening' = opening + 0 - 0 /\ borrowed' = borrowed + 0 - 0
        /\ total' + opening' <= MaxReaders /\ (accepting => idle' + borrowed' = total')
        /\ idle' <= idle /\ total' + opening' >= total + opening
    BY <2>1, PoolAssumption
  <2>3. PoolInv'
    BY <1>n, <2>1, <2>2, OneReaderPool
  <2> QED BY <1>n, <2>1, <2>3
<1>c. CASE Opened(c) /\ accepting
  <2> DEFINE r == [call[c] EXCEPT !.pc = "reading"]
  <2>1. r \in CallRec /\ r.pc = "reading" /\ r.result = call[c].result /\ r.kind = call[c].kind
    BY <1>0 DEF CallRec, Pcs
  <2>2. [call EXCEPT ![c].pc = "reading"] = [call EXCEPT ![c] = r]
    BY <1>0
  <2>3. OneReader(c, r) /\ call' = NotifyAll([call EXCEPT ![c] = r]) /\ call[c].pc = "opening"
    BY <1>c, <2>1, <2>2 DEF OneReader, Opened
  <2>4. opening' = opening - 1 /\ total' = total + 1 /\ borrowed' = borrowed + 1 /\ idle' = idle
    BY <1>c DEF Opened
  <2> HIDE DEF r
  <2>5. PoolInv'
    BY <2>1, <2>3, <2>4, OneReaderPool
  <2> QED BY <2>1, <2>3, <2>5
<1>d. CASE (Opened(c) /\ ~ accepting) \/ OpenFails(c)
  <2>1. OneReader(c, NoCall) /\ call' = NotifyAll([call EXCEPT ![c] = NoCall]) /\ call[c].pc = "opening"
    BY <1>d, <1>n DEF OneReader, Opened, OpenFails
  <2>2. opening' = opening - 1 /\ UNCHANGED <<idle, total, borrowed>>
    BY <1>d DEF Opened, OpenFails
  <2>3. PoolInv'
    BY <1>n, <2>1, <2>2, OneReaderPool, PoolAssumption
  <2> QED BY <1>n, <2>1, <2>3
<1>e. CASE Return(c)
  <2>1. OneReader(c, NoCall) /\ call' = NotifyAll([call EXCEPT ![c] = NoCall]) /\ call[c].pc = "reading"
    BY <1>e, <1>n DEF OneReader, Return
  <2>2. borrowed' = borrowed - 1 /\ UNCHANGED <<total, opening>>
        /\ idle' = IF accepting THEN idle + 1 ELSE idle
    BY <1>e DEF Return
  <2>3. PoolInv'
    BY <1>n, <2>1, <2>2, OneReaderPool
  <2> QED BY <1>n, <2>1, <2>3
<1> QED BY <1>a, <1>b, <1>c, <1>d, <1>e DEF Reads

LEMMA ReapPool ==
    ASSUME PoolInv, Reap
    PROVE  PoolInv'
<1>1. PICK n \in 1 .. idle : n <= total - MaxIdle /\ idle' = idle - n /\ total' = total - n
  BY DEF Reap
<1>2. UNCHANGED <<phase, call, opening, borrowed>> /\ accepting
  BY DEF Reap
<1>3. Readers("opening")' = Readers("opening") /\ Readers("reading")' = Readers("reading")
      /\ Parked' = Parked /\ accepting' = accepting
  BY <1>2 DEF Readers, Parked, accepting
<1>4. Parked = {}
  BY <1>1, <1>2 DEF PoolInv
<1> QED BY <1>1, <1>2, <1>3, <1>4, PoolAssumption DEF PoolInv

(* A step which leaves the counts and those who read alone.                 *)
LEMMA PoolKept ==
    ASSUME PoolInv, UNCHANGED <<idle, opening, borrowed>>, total' = total \/ (total' = 0 /\ phase' # "open"),
           phase' = phase \/ phase' # "open",
           \A d \in Callers :
              \/ call'[d].pc = call[d].pc
              \/ /\ call[d].pc \notin {"opening", "reading"}
                 /\ call'[d].pc \notin {"opening", "reading", "parked"}
    PROVE  PoolInv'
<1>1. Readers("opening")' = Readers("opening") /\ Readers("reading")' = Readers("reading")
      /\ Parked' \subseteq Parked
  BY DEF Readers, Parked
<1>2. accepting' => accepting /\ total' = total
  BY DEF accepting
<1>3. total' \in Nat /\ total' + opening' <= MaxReaders
  BY PoolAssumption DEF PoolInv
<1>4. accepting' /\ Parked' # {} => idle' = 0 /\ total' + opening' >= MaxReaders
  BY <1>1, <1>2 DEF PoolInv
<1> QED BY <1>1, <1>2, <1>3, <1>4 DEF PoolInv

LEMMA WriterPool ==
    ASSUME WInv, PoolInv,
           \/ \E c \in Callers, k \in Kinds : Submit(c, k)
           \/ \E c \in Callers : SubmitCancelled(c) \/ Returns(c)
           \/ ThreadRuns \/ Writer \/ StopBegins \/ Closing \/ Abort
    PROVE  PoolInv'
<1> USE DEF pool
<1>0. call \in [Callers -> CallRec]
  BY DEF WInv, WriterType
<1>1. CASE \E c \in Callers, k \in Kinds : Submit(c, k)
  <2>1. PICK c \in Callers, k \in Kinds : Submit(c, k)
    BY <1>1
  <2> QED BY <1>0, <2>1, PoolKept DEF Submit, NoCall
<1>2. CASE \E c \in Callers : SubmitCancelled(c) \/ Returns(c)
  <2>1. PICK c \in Callers : SubmitCancelled(c) \/ Returns(c)
    BY <1>2
  <2>2. call[c].pc \in {"waiting", "leaving"} /\ call[c] \in CallRec /\ UNCHANGED <<phase, idle, total, opening, borrowed>>
    BY <1>0, <2>1 DEF SubmitCancelled, Returns, SubmitReturns, CancelledLeaves
  <2>3. call'[c].pc \in {"leaving", "idle"} /\ \A d \in Callers \ {c} : call'[d] = call[d]
    BY <1>0, <2>1, <2>2 DEF SubmitCancelled, Returns, SubmitReturns, CancelledLeaves, CallRec
  <2> QED BY <2>2, <2>3, PoolKept
<1>3. CASE ThreadRuns \/ OpBegins \/ OpGoesOn \/ OpCancelled \/ WriterDies \/ StopBegins
  BY <1>3, PoolKept DEF ThreadRuns, OpBegins, OpGoesOn, OpCancelled, WriterDies, StopBegins
<1>4. CASE WriterTakes
  <2>1. UNCHANGED <<phase, idle, total, opening, borrowed>> /\ queue # <<>> /\ queue \in Seq(Callers \cup {Stop})
    BY <1>4 DEF WriterTakes, WInv, WriterType
  <2>2. call' = call \/ (Head(queue) \in Callers /\ call' = [call EXCEPT ![Head(queue)] = Settled(Head(queue), "cancelled")])
    BY <1>4, <2>1 DEF WriterTakes
  <2>3. Head(queue) \in Callers => Settled(Head(queue), "cancelled").pc = call[Head(queue)].pc
    BY <1>0 DEF Settled, CallRec
  <2>4. \A d \in Callers : call'[d].pc = call[d].pc
    BY <1>0, <2>2, <2>3
  <2> QED BY <2>1, <2>4, PoolKept
<1>5. CASE WriterSettles
  <2>1. UNCHANGED <<phase, idle, total, opening, borrowed>> /\ current \in Callers
        /\ call' = [call EXCEPT ![current] = Settled(current, op.cause)]
    BY <1>5, CurrentIs DEF WriterSettles, None
  <2>2. Settled(current, op.cause).pc = call[current].pc
    BY <1>0, <2>1 DEF Settled, CallRec
  <2>3. \A d \in Callers : call'[d].pc = call[d].pc
    BY <1>0, <2>1, <2>2
  <2> QED BY <2>1, <2>3, PoolKept
<1>6. CASE StopJoined
  <2>1. UNCHANGED <<idle, total, opening, borrowed>> /\ phase' = "readers" /\ call' = NotifyAll(call)
    BY <1>6 DEF StopJoined
  <2>2. \A d \in Callers : call[d] \in CallRec
    BY <1>0
  <2>3. \A d \in Callers : call'[d].pc = call[d].pc \/ (call[d].pc = "parked" /\ call'[d].pc = "woken")
    BY <1>0, <2>1, <2>2, NotifiedSame DEF CallRec
  <2> QED BY <2>1, <2>3, PoolKept
<1>7. CASE StopReadersBack
  BY <1>7, PoolKept DEF StopReadersBack
<1>8. CASE Closes("writer") \/ Closes("abort")
  BY <1>8, PoolKept DEF Closes
<1>9. CASE Abort
  <2>1. UNCHANGED <<idle, total, opening, borrowed>> /\ phase' = "abort"
    BY <1>9 DEF Abort
  <2>2. call' \in [Callers -> CallRec] /\ \A c \in Callers : call'[c].pc # call[c].pc => call[c].pc = "parked"
    BY <1>9, AbortDoes
  <2>3. \A c \in Callers : call'[c].pc # call[c].pc => call'[c].pc = "woken"
    <3> DEFINE n == NotifyAll(call)
    <3>1. \A c \in Callers : n[c] \in CallRec /\ (n[c].pc # call[c].pc => n[c].pc = "woken")
      <4> TAKE c \in Callers
      <4>1. call[c] \in CallRec /\ n[c] \in CallRec
            /\ IF call[c].pc = "parked" THEN n[c] = [call[c] EXCEPT !.pc = "woken"] ELSE n[c] = call[c]
        BY <1>0, NotifiedSame
      <4> HIDE DEF n
      <4> QED BY <4>1 DEF CallRec
    <3>2. \A c \in Callers : call'[c].pc = n[c].pc
      <4> TAKE c \in Callers
      <4>1. n[c] \in CallRec
        BY <3>1
      <4> QED BY <1>9, <4>1 DEF Abort, CallRec
    <3> QED BY <3>1, <3>2
  <2> QED BY <2>1, <2>2, <2>3, PoolKept
<1> QED BY <1>1, <1>2, <1>3, <1>4, <1>5, <1>6, <1>7, <1>8, <1>9 DEF Writer, Closing

-----------------------------------------------------------------------------
(* The pool and the requests through every step *)

LEMMA StepHolds ==
    ASSUME WInv, PoolInv, [Next]_vars
    PROVE  WInv' /\ PoolInv'
<1>1. CASE \E c \in Callers, k \in Kinds : Submit(c, k)
  BY <1>1, SubmitW, WriterPool
<1>2. CASE \E c \in Callers : SubmitCancelled(c) \/ Returns(c)
  BY <1>2, SubmitCancelledW, SubmitReturnsW, WriterPool DEF Returns
<1>3. CASE \E c \in Callers : Borrow(c) \/ Reads(c) \/ BorrowCancelled(c) \/ OpenFails(c)
  <2>1. PICK c \in Callers : Borrow(c) \/ Reads(c) \/ BorrowCancelled(c) \/ OpenFails(c)
    BY <1>3
  <2>2. PoolInv' /\ \E r \in CallRec : OneReader(c, r)
    BY <2>1, ReadersDo
  <2> QED BY <2>2, OneReaderW
<1>4. CASE ThreadRuns \/ Writer
  <2>1. PoolInv'
    BY <1>4, WriterPool
  <2>2. WInv'
    BY <1>4, ThreadRunsW, WriterTakesW, WriterSettlesW, WriterDiesW, OpBeginsW, OpGoesOnW, OpCancelledW
       DEF Writer
  <2> QED BY <2>1, <2>2
<1>5. CASE Reap
  <2>1. UNCHANGED <<phase, call, writing, connection, past>>
    BY <1>5 DEF Reap
  <2>2. call' \in [Callers -> CallRec]
    BY <2>1 DEF WInv, WriterType
  <2>3. WInv'
    BY <2>1, <2>2, ReaderStepW
  <2> QED BY <1>5, <2>3, ReapPool
<1>6. CASE StopBegins \/ Closing \/ Abort
  <2>1. PoolInv'
    BY <1>6, WriterPool
  <2>2. WInv'
    BY <1>6, StopBeginsW, StopJoinedW, StopReadersBackW, ClosesW, AbortW DEF Closing
  <2> QED BY <2>1, <2>2
<1>7. CASE UNCHANGED vars
  <2>1. UNCHANGED <<phase, call, writing, connection, past>> /\ UNCHANGED <<idle, total, opening, borrowed>>
    BY <1>7 DEF vars, pool
  <2>2. call' \in [Callers -> CallRec]
    BY <2>1 DEF WInv, WriterType
  <2>3. WInv'
    BY <2>1, <2>2, ReaderStepW
  <2>4. PoolInv'
    BY <2>1, PoolKept
  <2> QED BY <2>3, <2>4
<1> QED BY <1>1, <1>2, <1>3, <1>4, <1>5, <1>6, <1>7 DEF Next

LEMMA PoolFollows ==
    ASSUME WInv, PoolInv
    PROVE  PoolAccounts
<1> USE DEF WInv
<1>1. op \in OpRec => op \in [pc : {None, "created", "begin", "body", "commit", "rollback", "over"},
               reply : {None, "ok", "error"}, cause : {None, "ok", "error", "cancelled"},
               kill : BOOLEAN]
  BY DEF OpRec, Awaiting
<1>2. TypeOK
  BY <1>1 DEF WriterType, PoolInv, TypeOK, CallRec, StmtRec, Awaiting
<1> QED BY <1>2 DEF PoolInv, PoolAccounts, Readers

(* The counts of the pool are those of its readers, whatever awaits they    *)
(* were cancelled at, no slot is lost or lent beyond max_readers, and       *)
(* nobody waits while a reader is idle or may be opened: for any callers    *)
(* and any limits.                                                          *)
THEOREM PoolIsAccounted == Spec => []PoolAccounts
<1>1. Init => WInv /\ PoolInv
  BY InitHolds
<1>2. (WInv /\ PoolInv) /\ [Next]_vars => (WInv /\ PoolInv)'
  BY StepHolds
<1>3. WInv /\ PoolInv => PoolAccounts
  BY PoolFollows
<1> QED BY <1>1, <1>2, <1>3, PTL DEF Spec

-----------------------------------------------------------------------------
(* What is kept: steps that leave the thread's statements as they are *)

(* A step that changes nothing of the connection but interrupts, and of the *)
(* requests nothing but that some are refused.                              *)
LEMMA QuietKeeps ==
    ASSUME WInv, Kept, UNCHANGED <<current, txn, work, durable>>,
           DOMAIN sql' = DOMAIN sql, Len(sql') = Len(sql),
           \A i \in DOMAIN sql : /\ sql'[i].stmt = sql[i].stmt /\ sql'[i].by = sql[i].by
                                 /\ sql'[i].heard = sql[i].heard
                                 /\ sql'[i].hit => sql[i].stmt = "body",
           \A i \in DOMAIN queue' : queue'[i] # Stop => \E j \in DOMAIN queue : queue[j] = queue'[i],
           op'.pc = op.pc, op'.reply = op.reply,
           op'.cause # op.cause => /\ op.pc = "over" /\ op'.cause = "cancelled"
                                   /\ call'[current].result # None,
           op'.kill => op.kill \/ call'[current].result # None \/ call'[current].pc = "leaving",
           op'.kill /\ op.pc = "rollback" /\ op.cause = "cancelled" =>
               op.kill \/ call'[current].result # None,
           \A c \in Callers : /\ call'[c].result \in {None, "closed", call[c].result}
                              /\ call'[c].result = "cancelled" => call'[c].kind = call[c].kind,
           current # None =>
               /\ call'[current].kind = call[current].kind
               /\ call'[current].result = None =>
                     /\ call[current].result = None
                     /\ call[current].pc = "leaving" => call'[current].pc = "leaving"
    PROVE  Kept'
<1> USE DEF Kept
<1>0. /\ op.pc \in {"created", "begin", "body", "commit", "rollback", "over"} => current # None
      /\ op.kill => current # None
  BY DEF WInv, OpInv, NoOp, None
<1>1. ConnectionInv'
  <2>1. InTransaction => InTransaction'
    BY DEF InTransaction
  <2>2. /\ \A i \in DOMAIN sql' : sql'[i].hit => sql'[i].stmt = "body"
        /\ \A i \in DOMAIN sql' : sql'[i].stmt = "begin" => sql'[i].heard
    BY DEF ConnectionInv
  <2>3. txn' # None => \A j \in DOMAIN sql' :
          (\A i \in 1 .. j - 1 : sql'[i].stmt \notin Ending) => sql'[j].by = txn'
    <3>1. SUFFICES ASSUME txn # None, NEW j \in DOMAIN sql',
                          \A i \in 1 .. j - 1 : sql'[i].stmt \notin Ending
                   PROVE  sql'[j].by = txn
      OBVIOUS
    <3>2. j \in DOMAIN sql /\ \A i \in 1 .. j - 1 : i \in DOMAIN sql
      BY <3>1 DEF WInv, WriterType
    <3>3. \A i \in 1 .. j - 1 : sql[i].stmt \notin Ending
      BY <3>1, <3>2
    <3> QED BY <3>1, <3>2, <3>3 DEF ConnectionInv
  <2>4. txn' # None =>
          \/ \E i \in DOMAIN sql' : sql'[i].stmt \in Ending
          \/ /\ txn' = current'
             /\ op'.pc = "body" \/ (op'.pc = "begin" /\ op'.reply = "ok")
    BY DEF ConnectionInv
  <2>5. /\ txn' # None /\ txn' = current' => InTransaction'
        /\ work' \subseteq {txn'} \ {None}
    BY <2>1 DEF ConnectionInv
  <2> QED BY <2>2, <2>3, <2>4, <2>5 DEF ConnectionInv
<1>2. \A c : Past(c) => Past(c)'
  BY DEF Past
<1>4. InTransaction' => InTransaction
  BY DEF InTransaction
<1>5. InTransaction' => TransactionAt'
  <2> SUFFICES ASSUME InTransaction, TransactionAt PROVE TransactionAt'
    BY <1>4 DEF OutcomeInv
  <2>1. op.pc # "over" => op'.cause = op.cause
    OBVIOUS
  <2>2. op.pc = "rollback" /\ op.cause = "cancelled" /\ call'[current].result = None =>
            call'[current].pc = "leaving" /\ ~ op'.kill
    BY DEF TransactionAt, InTransaction
  <2> QED BY <2>1, <2>2 DEF TransactionAt, Past, InTransaction
<1>6. op'.kill => call'[current'].result # None \/ call'[current'].pc = "leaving"
  BY <1>0 DEF OutcomeInv
<1>7. \A i \in DOMAIN queue' : queue'[i] # Stop => Untouched(queue[i])'
  BY DEF OutcomeInv, Untouched
<1>8. op'.pc = "created" => Untouched(current)'
  BY DEF OutcomeInv, Untouched
<1>9. /\ op'.pc = "body" /\ ~ InTransaction' /\ op'.reply = "ok" => current' \in durable'
      /\ op'.pc = "over" /\ op'.cause = "ok" => current' \in durable'
  BY <1>0 DEF OutcomeInv, InTransaction
<1>10. op'.pc = "over" /\ op'.cause = "cancelled" /\ InTransaction' /\ call'[current'].result = None =>
          Past(current)'
  BY <1>0, <1>4 DEF OutcomeInv, Past
<1>11. /\ \A c \in Callers : call'[c].result = "ok" => c \in durable'
       /\ \A c \in Callers : call'[c].result = "cancelled" /\ call'[c].kind = "transaction" => Past(c)'
  BY <1>2 DEF OutcomeInv, None
<1>12. OutcomeInv'
  BY <1>5, <1>6, <1>7, <1>8, <1>9, <1>10, <1>11 DEF OutcomeInv
<1> QED BY <1>1, <1>12

(* Steps that leave all of the writer's state but the records of callers.   *)
LEMMA CallersKeep ==
    ASSUME WInv, Kept, UNCHANGED <<queue, current, op, sql, txn, work, durable>>,
           \A c \in Callers : /\ call'[c].result \in {None, call[c].result}
                              /\ call'[c].result = "cancelled" => call'[c].kind = call[c].kind,
           current # None =>
               /\ call'[current].kind = call[current].kind
               /\ call'[current].result = None =>
                     /\ call[current].result = None
                     /\ call[current].pc = "leaving" => call'[current].pc = "leaving"
    PROVE  Kept'
<1>1. op.kill => call'[current].result # None \/ call'[current].pc = "leaving"
  <2> HAVE op.kill
  <2>1. current # None
    BY DEF WInv, OpInv, NoOp
  <2> QED BY <2>1 DEF Kept, OutcomeInv
<1>2. \A i \in DOMAIN sql : sql[i].hit => sql[i].stmt = "body"
  BY DEF Kept, ConnectionInv
<1>3. \A c \in Callers : call'[c].result \in {None, "closed", call[c].result}
  OBVIOUS
<1> QED BY <1>1, <1>2, <1>3, QuietKeeps

LEMMA SubmitReturnsKeep ==
    ASSUME WInv, Kept, NEW c \in Callers, SubmitReturns(c) \/ CancelledLeaves(c)
    PROVE  Kept'
<1>0. call[c] \in CallRec /\ call[c].pc \in {"waiting", "leaving"} /\ (call[c].result # None \/ call[c].done)
      /\ UNCHANGED <<queue, current, op, sql, txn, work, durable>>
  BY DEF WInv, WriterType, SubmitReturns, CancelledLeaves, writing, connection
<1>1. call' = [call EXCEPT ![c] = [call[c] EXCEPT !.pc = "idle"]]
  BY DEF WInv, WriterType, SubmitReturns, CancelledLeaves
<1>2. \A d \in Callers : /\ call'[d].result = call[d].result /\ call'[d].kind = call[d].kind
                         /\ d # c => call'[d] = call[d]
  BY <1>0, <1>1 DEF WInv, WriterType, CallRec
<1>3. current = c => call[c].result # None
  BY <1>0, CallersAssumption DEF WInv, RequestInv
<1>4. current # None => current \in Callers
  BY DEF WInv, WriterType
<1> QED BY <1>0, <1>2, <1>3, <1>4, CallersKeep

LEMMA SubmitCancelledKeep ==
    ASSUME WInv, Kept, NEW c \in Callers, SubmitCancelled(c)
    PROVE  Kept'
<1>0. call[c] \in CallRec /\ call[c].pc = "waiting"
      /\ UNCHANGED <<queue, current, txn, work, durable>> /\ sql \in Seq(StmtRec)
  BY DEF WInv, WriterType, SubmitCancelled
<1>1. call' = [call EXCEPT ![c] = [call[c] EXCEPT !.pc = "leaving", !.cancelled = TRUE]]
  BY DEF WInv, WriterType, SubmitCancelled
<1>2. \A d \in Callers : /\ call'[d].result = call[d].result /\ call'[d].kind = call[d].kind
                         /\ (IF d = c THEN call'[d].pc = "leaving" ELSE call'[d] = call[d])
  BY <1>0, <1>1 DEF WInv, WriterType, CallRec
<1>3. /\ DOMAIN sql' = DOMAIN sql /\ Len(sql') = Len(sql)
      /\ \A i \in DOMAIN sql : /\ sql'[i].stmt = sql[i].stmt /\ sql'[i].by = sql[i].by
                               /\ sql'[i].heard = sql[i].heard
                               /\ sql'[i].hit => sql[i].stmt = "body"
  <2>1. CASE UNCHANGED sql
    BY <2>1 DEF Kept, ConnectionInv
  <2>2. CASE sql' = Interrupted(sql)
    <3>1. \A i \in DOMAIN sql : sql'[i].hit => sql[i].stmt = "body"
      <4> TAKE i \in DOMAIN sql
      <4>1. sql[i] \in StmtRec /\ sql'[i] = IF i = 1 THEN [sql[i] EXCEPT !.hit = sql[i].stmt = "body"] ELSE sql[i]
        BY <1>0, <2>2 DEF Interrupted
      <4> QED BY <4>1 DEF StmtRec, Kept, ConnectionInv
    <3>2. DOMAIN sql' = DOMAIN sql /\ DOMAIN sql = 1 .. Len(sql)
      BY <1>0, <2>2 DEF Interrupted
    <3> QED BY <1>0, <2>2, <3>1, <3>2, InterruptedSame
  <2> QED BY <2>1, <2>2 DEF SubmitCancelled
<1>4. op \in OpRec /\ (op' = op \/ (op' = [op EXCEPT !.kill = TRUE] /\ current = c))
  BY DEF SubmitCancelled, WInv, WriterType
<1>5. op'.pc = op.pc /\ op'.reply = op.reply /\ op'.cause = op.cause /\ (op'.kill => op.kill \/ current = c)
  BY <1>4 DEF OpRec
<1>6. current # None => current \in Callers
  BY DEF WInv, WriterType
<1>7. op'.kill /\ op.pc = "rollback" /\ op.cause = "cancelled" => op.kill \/ call'[current].result # None
  <2> SUFFICES ASSUME op.pc = "rollback", op.cause = "cancelled", current = c, call[c].result = None PROVE FALSE
    BY <1>2, <1>5
  <2>1. c # None /\ call[c].kind = "transaction"
    BY CallersAssumption DEF WInv, OpInv
  <2>2. InTransaction
    BY <2>1 DEF InTransaction
  <2> QED BY <1>0, <2>2 DEF Kept, OutcomeInv, TransactionAt
<1>8. op'.kill => op.kill \/ call'[current].result # None \/ call'[current].pc = "leaving"
  BY <1>2, <1>5
<1>9. \A i \in DOMAIN queue' : queue'[i] # Stop => \E j \in DOMAIN queue : queue[j] = queue'[i]
  BY <1>0
<1> QED BY <1>0, <1>2, <1>3, <1>5, <1>6, <1>7, <1>8, <1>9, QuietKeeps

LEMMA OneReaderKeep ==
    ASSUME WInv, Kept, NEW c \in Callers, NEW r \in CallRec, OneReader(c, r),
           r.result = None \/ (r.result = call[c].result /\ r.kind = call[c].kind)
    PROVE  Kept'
<1>1. UNCHANGED <<queue, current, op, sql, txn, work, durable>>
  BY DEF OneReader, writing, connection
<1>2. \A d \in Callers \ {c} : call'[d].result = call[d].result /\ call'[d].kind = call[d].kind
  <2> TAKE d \in Callers \ {c}
  <2>1. call[d] \in CallRec
    BY DEF WInv, WriterType
  <2>2. call'[d] = call[d] \/ call'[d] = [call[d] EXCEPT !.pc = "woken"]
    BY OneReaderDoes
  <2> QED BY <2>1, <2>2 DEF CallRec
<1>3. call'[c] = r
  BY OneReaderDoes
<1>4. current # None => call'[current] = call[current]
  <2> HAVE current # None
  <2>1. current \in Callers \ {c}
    BY NotWriting DEF OneReader, WInv, WriterType
  <2>2. call[current].pc # "parked"
    BY <2>1, NotWriting
  <2> QED BY <2>1, <2>2, OneReaderDoes
<1>5. \A d \in Callers : /\ call'[d].result \in {None, call[d].result}
                         /\ call'[d].result = "cancelled" => call'[d].kind = call[d].kind
  BY <1>2, <1>3 DEF None
<1> QED BY <1>1, <1>4, <1>5, CallersKeep

LEMMA StopJoinedKeep ==
    ASSUME WInv, Kept, StopJoined
    PROVE  Kept'
<1>1. UNCHANGED <<queue, current, op, sql, txn, work, durable>> /\ current = None
      /\ call' = NotifyAll(call) /\ call \in [Callers -> CallRec]
  BY DEF StopJoined, writing, connection, WInv, WriterType
<1>2. \A d \in Callers : call'[d].result = call[d].result /\ call'[d].kind = call[d].kind
  <2> TAKE d \in Callers
  <2>1. call[d] \in CallRec
    BY <1>1
  <2>2. call'[d] = call[d] \/ call'[d] = [call[d] EXCEPT !.pc = "woken"]
    BY <1>1, NotifiedSame
  <2> QED BY <2>1, <2>2 DEF CallRec
<1> QED BY <1>1, <1>2, CallersKeep

LEMMA StopReadersBackKeep ==
    ASSUME WInv, Kept, StopReadersBack
    PROVE  Kept'
<1>0. UNCHANGED <<call, current, op, connection>> /\ queue' = Append(queue, Stop) /\ queue \in Seq(Callers \cup {Stop})
  BY DEF StopReadersBack, WInv, WriterType
<1>1. \A i \in DOMAIN queue' : queue'[i] # Stop => i \in DOMAIN queue /\ queue'[i] = queue[i]
  BY <1>0
<1>2. \A i \in DOMAIN sql : sql[i].hit => sql[i].stmt = "body"
  BY DEF Kept, ConnectionInv
<1>3. op.kill => call[current].result # None \/ call[current].pc = "leaving"
  BY DEF Kept, OutcomeInv
<1> QED BY <1>0, <1>1, <1>2, <1>3, QuietKeeps DEF connection

LEMMA AbortKeep ==
    ASSUME WInv, Kept, Abort
    PROVE  Kept'
<1>1. \A i \in DOMAIN sql : sql'[i].hit => sql[i].stmt = "body"
  <2> TAKE i \in DOMAIN sql
  <2>1. sql[i] \in StmtRec /\ sql'[i] = IF i = 1 THEN [sql[i] EXCEPT !.hit = sql[i].stmt = "body"] ELSE sql[i]
    <3>1. sql' = Interrupted(sql) /\ sql \in Seq(StmtRec)
      BY DEF Abort, WInv, WriterType
    <3> QED BY <3>1 DEF Interrupted
  <2> QED BY <2>1 DEF StmtRec, Kept, ConnectionInv
<1>2. DOMAIN queue' = {}
  BY AbortDoes
<1>3. "closed" # None
  BY DEF None
<1>4. /\ op'.kill => current # None
      /\ op.pc = "over" => current # None
  BY AbortDoes DEF WInv, OpInv, NoOp, None
<1>5. /\ current # None => current \in Callers /\ call'[current].kind = call[current].kind
      /\ \A c \in Callers : call'[c].result = "cancelled" => call'[c].kind = call[c].kind
      /\ \A c \in Callers : call'[c].result \in {None, "closed", call[c].result}
  BY AbortDoes DEF WInv, WriterType
<1>6. op'.cause # op.cause => op.pc = "over" /\ op'.cause = "cancelled" /\ call'[current].result # None
  BY <1>3, <1>4, AbortDoes
<1>7. op'.kill => call'[current].result # None
  BY <1>3, <1>4, AbortDoes
<1>8. current # None => call'[current].result # None
  BY <1>3, AbortDoes
<1>9. /\ DOMAIN sql' = DOMAIN sql /\ Len(sql') = Len(sql)
      /\ \A i \in DOMAIN sql : /\ sql'[i].stmt = sql[i].stmt /\ sql'[i].by = sql[i].by
                               /\ sql'[i].heard = sql[i].heard
  BY AbortDoes
<1>10. op'.pc = op.pc /\ op'.reply = op.reply /\ UNCHANGED <<current, txn, work, durable>>
  BY AbortDoes
<1> QED BY <1>1, <1>2, <1>5, <1>6, <1>7, <1>8, <1>9, <1>10, QuietKeeps

LEMMA ClosesKeep ==
    ASSUME WInv, Kept, Closes("writer") \/ Closes("abort")
    PROVE  Kept'
<1>0. UNCHANGED <<call, queue, writer, current, op, sql, durable>> /\ txn' = None /\ work' = {}
      /\ sql = <<>> /\ writer = "ended"
  BY DEF Closes, writing
<1>1. DOMAIN sql = {} /\ current = None /\ op = NoOp
  BY <1>0 DEF WInv, OpInv
<1>2. ConnectionInv'
  BY <1>0, <1>1 DEF ConnectionInv
<1>3. \A i \in DOMAIN queue : queue[i] # Stop => queue[i] \in Callers /\ queue[i] # None
  BY CallersAssumption DEF WInv, WriterType
<1>4. OutcomeInv'
  <2>1. \A i \in DOMAIN queue' : queue'[i] # Stop => Untouched(queue[i])'
    BY <1>0, <1>1, <1>3 DEF Kept, OutcomeInv, Untouched
  <2>2. op'.pc = None /\ ~ op'.kill /\ ~ InTransaction'
    BY <1>0, <1>1 DEF NoOp, InTransaction
  <2>3. \A c \in Callers : call'[c].result = "cancelled" /\ call'[c].kind = "transaction" => Past(c)'
    BY <1>0 DEF Kept, OutcomeInv, Past
  <2>4. \A c \in Callers : call'[c].result = "ok" => c \in durable'
    BY <1>0 DEF Kept, OutcomeInv
  <2> QED BY <2>1, <2>2, <2>3, <2>4 DEF OutcomeInv, None
<1> QED BY <1>2, <1>4 DEF Kept

-----------------------------------------------------------------------------
(* What is kept: requests come and go *)

(* While nothing of a caller is with the thread and its operation does not  *)
(* run, it has no transaction.                                              *)
LEMMA NoTransaction ==
    ASSUME WInv, Kept, NEW c \in Callers, c # current, \A i \in DOMAIN sql : sql[i].by # c
    PROVE  txn # c
<1> SUFFICES ASSUME txn = c PROVE FALSE
  OBVIOUS
<1>1. txn # None
  BY CallersAssumption
<1>2. PICK i \in DOMAIN sql : sql[i].stmt \in Ending
  BY <1>1 DEF Kept, ConnectionInv
<1>3. 1 \in DOMAIN sql
  BY <1>2 DEF WInv, WriterType
<1>4. sql[1].by = txn
  BY <1>1, <1>3 DEF Kept, ConnectionInv
<1> QED BY <1>3, <1>4

LEMMA SubmitKeep ==
    ASSUME WInv, Kept, NEW c \in Callers, NEW k \in Kinds, Submit(c, k)
    PROVE  Kept'
<1>0. UNCHANGED <<current, op, sql, txn>> /\ queue' = Append(queue, c) /\ call[c].pc = "idle"
      /\ work' = work \ {c} /\ durable' = durable \ {c} /\ accepting /\ \A i \in DOMAIN sql : sql[i].by # c
      /\ queue \in Seq(Callers \cup {Stop})
  BY DEF Submit, WInv, WriterType
<1>1. call'[c].result = None /\ \A d \in Callers \ {c} : call'[d] = call[d]
  BY DEF Submit, WInv, WriterType, NoCall
<1>2. c # current /\ txn # c /\ c # None
  BY <1>0, NotWriting, NoTransaction, CallersAssumption
<1>3. current # None => current \in Callers /\ call'[current] = call[current]
  BY <1>1, <1>2 DEF WInv, WriterType
<1>4. (op.pc # None <=> current # None) /\ (op.kill => current # None)
  BY DEF WInv, OpInv, NoOp
<1>5. InTransaction' <=> InTransaction
  BY <1>0, <1>3 DEF InTransaction
<1>6. ConnectionInv'
  BY <1>0, <1>5 DEF Kept, ConnectionInv
<1>7. \A i \in DOMAIN queue' : queue'[i] = c \/ (i \in DOMAIN queue /\ queue'[i] = queue[i])
  BY <1>0
<1>8. \A i \in DOMAIN queue' : queue'[i] # Stop => Untouched(queue[i])'
  <2> TAKE i \in DOMAIN queue'
  <2>1. CASE queue'[i] = c
    BY <1>0, <1>2, <2>1 DEF Untouched
  <2>2. CASE i \in DOMAIN queue /\ queue'[i] = queue[i]
    BY <1>0, <2>2 DEF Untouched, Kept, OutcomeInv
  <2> QED BY <1>7, <2>1, <2>2
<1>9. op'.pc = "created" => Untouched(current)'
  BY <1>0 DEF Untouched, Kept, OutcomeInv
<1>10. InTransaction' => TransactionAt'
  <2> SUFFICES ASSUME InTransaction, TransactionAt PROVE TransactionAt'
    BY <1>5 DEF Kept, OutcomeInv
  <2>1. call'[current] = call[current]
    BY <1>3 DEF InTransaction
  <2> QED BY <1>0, <1>2, <2>1 DEF TransactionAt, Past
<1>11. op'.kill => call'[current'].result # None \/ call'[current'].pc = "leaving"
  BY <1>0, <1>3, <1>4 DEF Kept, OutcomeInv
<1>12. /\ op'.pc = "body" /\ ~ InTransaction' /\ op'.reply = "ok" => current' \in durable'
       /\ op'.pc = "over" /\ op'.cause = "ok" => current' \in durable'
  BY <1>0, <1>2, <1>5 DEF Kept, OutcomeInv
<1>13. op'.pc = "over" /\ op'.cause = "cancelled" /\ InTransaction' /\ call'[current'].result = None =>
          Past(current)'
  BY <1>0, <1>3, <1>5 DEF Kept, OutcomeInv, Past, InTransaction
<1>14. /\ \A d \in Callers : call'[d].result = "ok" => d \in durable'
       /\ \A d \in Callers : call'[d].result = "cancelled" /\ call'[d].kind = "transaction" => Past(d)'
  BY <1>0, <1>1 DEF Kept, OutcomeInv, Past, None
<1>15. OutcomeInv'
  BY <1>8, <1>9, <1>10, <1>11, <1>12, <1>13, <1>14 DEF OutcomeInv
<1> QED BY <1>6, <1>15 DEF Kept

LEMMA WriterTakesKeep ==
    ASSUME WInv, Kept, WriterTakes
    PROVE  Kept'
<1> DEFINE h == Head(queue)
<1>0. /\ UNCHANGED <<sql, txn, work, durable>> /\ current = None /\ op = NoOp
      /\ h \in Callers \cup {Stop} /\ 1 \in DOMAIN queue /\ h = queue[1]
      /\ \A i \in DOMAIN queue' : i + 1 \in DOMAIN queue /\ queue'[i] = queue[i + 1]
  BY DEF WriterTakes, WInv, WriterType, OpInv, connection
<1>1. \A i \in DOMAIN queue' : queue'[i] # Stop => \E j \in DOMAIN queue : queue[j] = queue'[i]
  BY <1>0
<1>2. h # Stop => Untouched(h)
  BY <1>0 DEF Kept, OutcomeInv
<1>3. \A i \in DOMAIN queue' : queue'[i] # Stop => Untouched(queue[i])'
  BY <1>0 DEF Kept, OutcomeInv, Untouched
<1>a. CASE h = Stop
  <2>1. UNCHANGED <<call, current, op>>
    BY <1>a DEF WriterTakes
  <2>2. \A i \in DOMAIN sql : sql[i].hit => sql[i].stmt = "body"
    BY DEF Kept, ConnectionInv
  <2> QED BY <1>0, <1>1, <2>1, <2>2, QuietKeeps DEF NoOp
<1>b. CASE h # Stop /\ call[h].cancelled
  <2>1. call' = [call EXCEPT ![h] = Settled(h, "cancelled")] /\ UNCHANGED <<current, op>> /\ h \in Callers
    BY <1>0, <1>b DEF WriterTakes
  <2>2. \A c \in Callers \ {h} : call'[c] = call[c]
    BY <2>1 DEF WInv, WriterType
  <2>3. call'[h].result = "cancelled"
    <3>1. call[h].result = None /\ call[h] \in CallRec
      BY <1>0, <1>b, <2>1 DEF WInv, RequestInv, WriterType
    <3>2. call'[h] = Settled(h, "cancelled")
      BY <2>1 DEF WInv, WriterType
    <3> QED BY <3>1, <3>2 DEF Settled, CallRec
  <2>4. \A d \in Callers : d = h => Past(d)'
    BY <1>0, <1>2, <1>b DEF Untouched, Past
  <2>5. ConnectionInv'
    BY <1>0, <2>1 DEF Kept, ConnectionInv
  <2>6. /\ \A d \in Callers : call'[d].result = "ok" => d \in durable'
        /\ \A d \in Callers : call'[d].result = "cancelled" /\ call'[d].kind = "transaction" => Past(d)'
    BY <1>0, <2>2, <2>3, <2>4 DEF Kept, OutcomeInv, Past
  <2>7. op'.pc = None /\ ~ op'.kill /\ ~ InTransaction'
    BY <1>0, <2>1 DEF NoOp, InTransaction
  <2>8. OutcomeInv'
    BY <1>3, <2>6, <2>7 DEF OutcomeInv, None
  <2> QED BY <2>5, <2>8 DEF Kept
<1>c. CASE h # Stop /\ ~ call[h].cancelled
  <2>1. current' = h /\ op' = [NoOp EXCEPT !.pc = "created"] /\ call' = call /\ h \in Callers
    BY <1>0, <1>c DEF WriterTakes
  <2>2. op'.pc = "created" /\ op'.reply = None /\ ~ op'.kill
    BY <2>1 DEF NoOp
  <2>3. h # txn
    BY <1>2, <1>c DEF Untouched
  <2>4. ConnectionInv'
    BY <1>0, <2>1, <2>2, <2>3 DEF Kept, ConnectionInv
  <2>5. Untouched(current)'
    BY <1>0, <1>2, <1>c, <2>1 DEF Untouched
  <2>6. TransactionAt'
    BY <2>2 DEF TransactionAt
  <2>7. /\ \A d \in Callers : call'[d].result = "ok" => d \in durable'
        /\ \A d \in Callers : call'[d].result = "cancelled" /\ call'[d].kind = "transaction" => Past(d)'
    BY <1>0, <2>1 DEF Kept, OutcomeInv, Past
  <2>8. OutcomeInv'
    BY <1>3, <2>2, <2>5, <2>6, <2>7 DEF OutcomeInv
  <2> QED BY <2>4, <2>8 DEF Kept
<1> QED BY <1>a, <1>b, <1>c

LEMMA WriterSettlesKeep ==
    ASSUME WInv, Kept, WriterSettles
    PROVE  Kept'
<1>0. UNCHANGED <<queue, sql, txn, work, durable>> /\ current' = None /\ op' = NoOp /\ op.pc = "over"
      /\ call' = [call EXCEPT ![current] = Settled(current, op.cause)]
  BY DEF WriterSettles, connection
<1>1. current \in Callers /\ call[current] \in CallRec
  BY <1>0, CurrentIs DEF None
<1>2. \A c \in Callers \ {current} : call'[c] = call[c]
  BY <1>0, <1>1 DEF WInv, WriterType
<1>3. call'[current].kind = call[current].kind
      /\ call'[current].result = IF call[current].result = None THEN op.cause ELSE call[current].result
  <2>1. call'[current] = Settled(current, op.cause)
    BY <1>0, <1>1 DEF WInv, WriterType
  <2> QED BY <1>1, <2>1 DEF Settled, CallRec
<1>4. current # None
  BY <1>1, CallersAssumption
<1>5. ConnectionInv'
  BY <1>0, <1>4 DEF Kept, ConnectionInv
<1>6. \A d \in Callers : call'[d].result = "ok" => d \in durable'
  BY <1>0, <1>2, <1>3 DEF Kept, OutcomeInv
<1>7. \A d \in Callers : call'[d].result = "cancelled" /\ call'[d].kind = "transaction" => Past(d)'
  BY <1>0, <1>2, <1>3, <1>4 DEF Kept, OutcomeInv, Past, InTransaction
<1>8. op'.pc = None /\ ~ op'.kill /\ ~ InTransaction'
  BY <1>0 DEF NoOp, InTransaction
<1>9. \A i \in DOMAIN queue' : queue'[i] # Stop => Untouched(queue[i])'
  BY <1>0 DEF Kept, OutcomeInv, Untouched
<1>10. OutcomeInv'
  BY <1>6, <1>7, <1>8, <1>9 DEF OutcomeInv, None
<1> QED BY <1>5, <1>10 DEF Kept

-----------------------------------------------------------------------------
(* What is kept: the operation                                              *)

(* The operation that runs is not queued, and its request is answered only  *)
(* where the executor was aborted.                                          *)
LEMMA RunningIs ==
    ASSUME WInv, Kept, op.pc # None
    PROVE  /\ current \in Callers /\ current # None
           /\ \A i \in DOMAIN queue : queue[i] # current
           /\ \A d \in Callers : call[d].result \in {"ok", "cancelled"} => d # current
<1>1. current \in Callers /\ current # None /\ \A i \in DOMAIN queue : queue[i] # current
  BY CurrentIs, CallersAssumption
<1>2. call[current].result = None \/ call[current].result = "closed"
  BY <1>1 DEF WInv, RequestInv
<1> QED BY <1>1, <1>2 DEF None

(* What a step of the operation does not touch.                             *)
LEMMA OpKeeps ==
    ASSUME WInv, Kept, op.pc # None,
           UNCHANGED <<call, queue, current, txn, work, durable>>,
           \A i \in DOMAIN sql' : sql'[i].by = current \/
              (i \in DOMAIN sql /\ sql'[i].by = sql[i].by /\ sql'[i].stmt = sql[i].stmt)
    PROVE  /\ \A i \in DOMAIN queue' : queue'[i] # Stop => Untouched(queue[i])'
           /\ \A d \in Callers : call'[d].result = "ok" => d \in durable'
           /\ \A d \in Callers : call'[d].result = "cancelled" /\ call'[d].kind = "transaction" => Past(d)'
           /\ InTransaction' <=> InTransaction
<1>1. \A i \in DOMAIN queue : queue[i] # Stop => Untouched(queue[i]) /\ queue[i] # current
  BY RunningIs DEF Kept, OutcomeInv
<1>2. \A d \in Callers : call[d].result = "cancelled" /\ call[d].kind = "transaction" => Past(d) /\ d # current
  BY RunningIs DEF Kept, OutcomeInv
<1>3. \A i \in DOMAIN queue' : queue'[i] # Stop => Untouched(queue[i])'
  BY <1>1 DEF Untouched
<1>4. \A d \in Callers : call'[d].result = "cancelled" /\ call'[d].kind = "transaction" => Past(d)'
  BY <1>2 DEF Past
<1>5. \A d \in Callers : call'[d].result = "ok" => d \in durable'
  BY DEF Kept, OutcomeInv
<1>6. InTransaction' <=> InTransaction
  BY DEF InTransaction
<1> QED BY <1>3, <1>4, <1>5, <1>6

LEMMA OpBeginsKeep ==
    ASSUME WInv, Kept, OpBegins
    PROVE  Kept'
<1>0. /\ op.pc = "created" /\ op.pc # None /\ UNCHANGED <<call, queue, current, txn, work, durable>>
      /\ sql \in Seq(StmtRec) /\ \A i \in DOMAIN sql : ~ sql[i].heard
  BY NobodyListens DEF OpBegins, None, Awaiting, WInv, WriterType
<1>1. current \in Callers /\ current # None
  BY <1>0, RunningIs
<1>2. PICK p \in {"begin", "body"} :
         /\ (p = "begin") <=> InTransaction
         /\ op' = [NoOp EXCEPT !.pc = p, !.cause = None]
         /\ sql' = Append(sql, [stmt |-> p, by |-> current, heard |-> TRUE, hit |-> FALSE])
  BY <1>1 DEF OpBegins, InTransaction, Awaits, Handed
<1>3. /\ [stmt |-> p, by |-> current, heard |-> TRUE, hit |-> FALSE] \in StmtRec
      /\ op'.pc = p /\ op'.cause = None /\ op'.reply = None /\ ~ op'.kill
  BY <1>1, <1>2 DEF StmtRec, Awaiting, NoOp
<1>4. /\ Len(sql') = Len(sql) + 1 /\ DOMAIN sql' = 1 .. Len(sql) + 1 /\ DOMAIN sql = 1 .. Len(sql)
      /\ Len(sql) \in Nat /\ \A i \in 1 .. Len(sql) : sql'[i] = sql[i]
      /\ LET l == sql'[Len(sql) + 1] IN l.stmt = p /\ l.by = current /\ l.heard /\ ~ l.hit
  BY <1>0, <1>2, <1>3, AppendedSame
<1>5. \A i \in DOMAIN sql' : i \in DOMAIN sql \/ i = Len(sql) + 1
  BY <1>4
<1>6. Untouched(current)
  BY <1>0 DEF Kept, OutcomeInv
<1>7. ConnectionInv'
  <2>1. txn # None => \E i \in DOMAIN sql : sql[i].stmt \in Ending
    BY <1>0 DEF Kept, ConnectionInv
  <2>2. txn # current
    BY <1>6 DEF Untouched
  <2>3. txn' # None => \A j \in DOMAIN sql' :
          (\A i \in 1 .. j - 1 : sql'[i].stmt \notin Ending) => sql'[j].by = txn'
    <3> SUFFICES ASSUME txn # None, NEW j \in DOMAIN sql',
                        \A i \in 1 .. j - 1 : sql'[i].stmt \notin Ending
                 PROVE  sql'[j].by = txn
      BY <1>0
    <3>1. j \in DOMAIN sql
      BY <1>4, <1>5, <2>1
    <3>2. \A i \in 1 .. j - 1 : sql[i].stmt \notin Ending
      BY <1>4, <3>1
    <3> QED BY <1>4, <3>1, <3>2 DEF Kept, ConnectionInv
  <2>4. /\ \A i \in DOMAIN sql' : sql'[i].hit => sql'[i].stmt = "body"
        /\ \A i \in DOMAIN sql' : sql'[i].stmt = "begin" => sql'[i].heard
    BY <1>4, <1>5 DEF Kept, ConnectionInv
  <2>5. txn' # None => \E i \in DOMAIN sql' : sql'[i].stmt \in Ending
    BY <1>0, <1>4, <2>1
  <2>6. work' \subseteq {txn'} \ {None}
    BY <1>0 DEF Kept, ConnectionInv
  <2>7. txn' # None /\ txn' = current' => InTransaction'
    BY <1>0, <2>2
  <2> QED BY <2>3, <2>4, <2>5, <2>6, <2>7 DEF ConnectionInv
<1>8. \A i \in DOMAIN sql' : sql'[i].by = current \/
              (i \in DOMAIN sql /\ sql'[i].by = sql[i].by /\ sql'[i].stmt = sql[i].stmt)
  BY <1>4, <1>5
<1>9. /\ \A i \in DOMAIN queue' : queue'[i] # Stop => Untouched(queue[i])'
      /\ \A d \in Callers : call'[d].result = "ok" => d \in durable'
      /\ \A d \in Callers : call'[d].result = "cancelled" /\ call'[d].kind = "transaction" => Past(d)'
      /\ InTransaction' <=> InTransaction
  BY <1>0, <1>8, OpKeeps
<1>10. InTransaction' => TransactionAt'
  <2> SUFFICES ASSUME p = "begin" PROVE TransactionAt'
    BY <1>2, <1>9
  <2>1. txn' # current' /\ Past(current)'
    BY <1>0, <1>4, <1>5, <1>6 DEF Untouched, Past
  <2>2. op'.pc = "begin" /\ op'.reply # "ok"
    BY <1>3 DEF None
  <2> QED BY <2>1, <2>2 DEF TransactionAt
<1>11. OutcomeInv'
  BY <1>3, <1>9, <1>10 DEF OutcomeInv, None
<1> QED BY <1>7, <1>11 DEF Kept

(* The operation is over, and no transaction is left without an end.        *)
LEMMA OverKeeps ==
    ASSUME WInv, Kept, op.pc # None, NEW x \in {"ok", "error", "cancelled"},
           op' = [NoOp EXCEPT !.pc = "over", !.cause = x],
           UNCHANGED <<call, queue, current, txn, work, durable>>,
           DOMAIN sql' = DOMAIN sql,
           \A i \in DOMAIN sql : /\ sql'[i].stmt = sql[i].stmt /\ sql'[i].by = sql[i].by
                                 /\ sql'[i].hit = sql[i].hit /\ sql[i].stmt # "begin",
           txn # None => \E i \in DOMAIN sql : sql[i].stmt \in Ending,
           x = "ok" => current \in durable,
           x = "cancelled" /\ InTransaction /\ call[current].result = None => Past(current)
    PROVE  Kept'
<1>1. \A i \in DOMAIN sql' : sql'[i].by = current \/
              (i \in DOMAIN sql /\ sql'[i].by = sql[i].by /\ sql'[i].stmt = sql[i].stmt)
  OBVIOUS
<1>2. /\ \A i \in DOMAIN queue' : queue'[i] # Stop => Untouched(queue[i])'
      /\ \A d \in Callers : call'[d].result = "ok" => d \in durable'
      /\ \A d \in Callers : call'[d].result = "cancelled" /\ call'[d].kind = "transaction" => Past(d)'
      /\ InTransaction' <=> InTransaction
  BY <1>1, OpKeeps
<1>3. op'.pc = "over" /\ op'.cause = x /\ ~ op'.kill
  BY DEF NoOp
<1>4. ConnectionInv'
  <2>1. txn' # None /\ txn' = current' => InTransaction'
    BY <1>2 DEF Kept, ConnectionInv
  <2>2. /\ \A i \in DOMAIN sql' : sql'[i].hit => sql'[i].stmt = "body"
        /\ \A i \in DOMAIN sql' : sql'[i].stmt # "begin"
        /\ txn' # None => \E i \in DOMAIN sql' : sql'[i].stmt \in Ending
        /\ work' \subseteq {txn'} \ {None}
    BY DEF Kept, ConnectionInv
  <2>3. txn' # None => \A j \in DOMAIN sql' :
          (\A i \in 1 .. j - 1 : sql'[i].stmt \notin Ending) => sql'[j].by = txn'
    <3> SUFFICES ASSUME txn # None, NEW j \in DOMAIN sql,
                        \A i \in 1 .. j - 1 : sql'[i].stmt \notin Ending
                 PROVE  sql[j].by = txn
      OBVIOUS
    <3>1. \A i \in 1 .. j - 1 : i \in DOMAIN sql
      BY DEF WInv, WriterType
    <3> QED BY <3>1 DEF Kept, ConnectionInv
  <2> QED BY <2>1, <2>2, <2>3 DEF ConnectionInv
<1>5. TransactionAt'
  BY <1>3 DEF TransactionAt
<1>6. x = "cancelled" /\ InTransaction' /\ call'[current'].result = None => Past(current)'
  BY <1>2 DEF Past
<1>7. OutcomeInv'
  BY <1>2, <1>3, <1>5, <1>6 DEF OutcomeInv
<1> QED BY <1>4, <1>7 DEF Kept

(* The operation awaits its next statement, in the transaction that is open.*)
LEMMA AwaitsKeeps ==
    ASSUME WInv, Kept, op.pc # None, NEW p \in {"body", "commit", "rollback"},
           op'.pc = p, op'.reply = None, ~ op'.kill,
           UNCHANGED <<call, queue, current, txn, work, durable>>,
           NEW s \in Seq(StmtRec), Len(s) = Len(sql),
           \A i \in 1 .. Len(sql) : /\ s[i].stmt = sql[i].stmt /\ s[i].by = sql[i].by
                                    /\ s[i].hit = sql[i].hit /\ sql[i].stmt # "begin",
           sql' = Append(s, [stmt |-> p, by |-> current, heard |-> TRUE, hit |-> FALSE]),
           txn # None => txn = current \/ \E i \in DOMAIN sql : sql[i].stmt \in Ending,
           p = "body" /\ txn # None => txn = current,
           InTransaction => TransactionAt'
    PROVE  Kept'
<1>0. current \in Callers /\ current # None /\ Len(sql) \in Nat /\ DOMAIN sql = 1 .. Len(sql)
  BY RunningIs DEF WInv, WriterType
<1>3. [stmt |-> p, by |-> current, heard |-> TRUE, hit |-> FALSE] \in StmtRec
  BY <1>0 DEF StmtRec, Awaiting
<1>4. /\ DOMAIN sql' = 1 .. Len(sql) + 1 /\ \A i \in 1 .. Len(sql) : sql'[i] = s[i]
      /\ LET l == sql'[Len(sql) + 1] IN l.stmt = p /\ l.by = current /\ l.heard /\ ~ l.hit
  BY <1>3, AppendedSame
<1>5. \A i \in DOMAIN sql' :
         \/ i = Len(sql) + 1
         \/ /\ i \in DOMAIN sql /\ sql'[i].stmt = sql[i].stmt /\ sql'[i].by = sql[i].by
            /\ sql'[i].hit = sql[i].hit /\ sql'[i].stmt # "begin"
  <2> TAKE i \in DOMAIN sql'
  <2>1. i = Len(sql) + 1 \/ i \in 1 .. Len(sql)
    BY <1>0, <1>4
  <2>2. CASE i \in 1 .. Len(sql)
    <3>1. sql'[i] = s[i] /\ i \in DOMAIN sql
      BY <1>0, <1>4, <2>2
    <3>2. s[i].stmt = sql[i].stmt /\ s[i].by = sql[i].by /\ s[i].hit = sql[i].hit /\ sql[i].stmt # "begin"
      BY <2>2
    <3> QED BY <3>1, <3>2
  <2> QED BY <2>1, <2>2
<1>6. /\ \A i \in DOMAIN queue' : queue'[i] # Stop => Untouched(queue[i])'
      /\ \A d \in Callers : call'[d].result = "ok" => d \in durable'
      /\ \A d \in Callers : call'[d].result = "cancelled" /\ call'[d].kind = "transaction" => Past(d)'
      /\ InTransaction' <=> InTransaction
  BY <1>4, <1>5, OpKeeps
<1>7. ConnectionInv'
  <2>1. txn' # None => \A j \in DOMAIN sql' :
          (\A i \in 1 .. j - 1 : sql'[i].stmt \notin Ending) => sql'[j].by = txn'
    <3> SUFFICES ASSUME txn # None, NEW j \in DOMAIN sql',
                        \A i \in 1 .. j - 1 : sql'[i].stmt \notin Ending
                 PROVE  sql'[j].by = txn
      OBVIOUS
    <3>1. CASE j = Len(sql) + 1
      <4>1. \A i \in 1 .. Len(sql) : sql[i].stmt \notin Ending
        BY <1>0, <1>4, <3>1
      <4> QED BY <1>0, <1>4, <3>1, <4>1
    <3>2. CASE j \in DOMAIN sql
      <4>1. \A i \in 1 .. j - 1 : sql[i].stmt \notin Ending
        BY <1>0, <1>4, <3>2
      <4> QED BY <1>5, <1>0, <3>2, <4>1 DEF Kept, ConnectionInv
    <3> QED BY <1>5, <3>1, <3>2
  <2>2. /\ \A i \in DOMAIN sql' : sql'[i].hit => sql'[i].stmt = "body"
        /\ \A i \in DOMAIN sql' : sql'[i].stmt = "begin" => sql'[i].heard
    BY <1>4, <1>5 DEF Kept, ConnectionInv
  <2>3. txn' # None =>
          \/ \E i \in DOMAIN sql' : sql'[i].stmt \in Ending
          \/ txn' = current' /\ op'.pc = "body"
    <3>1. CASE p = "body"
      BY <3>1
    <3>2. CASE p # "body"
      <4>1. sql'[Len(sql) + 1].stmt \in Ending /\ Len(sql) + 1 \in DOMAIN sql'
        BY <1>0, <1>4, <3>2 DEF Ending
      <4> QED BY <4>1
    <3> QED BY <3>1, <3>2
  <2>4. work' \subseteq {txn'} \ {None}
    BY DEF Kept, ConnectionInv
  <2>5. txn' # None /\ txn' = current' => InTransaction'
    BY <1>6 DEF Kept, ConnectionInv
  <2> QED BY <2>1, <2>2, <2>3, <2>4, <2>5 DEF ConnectionInv
<1>8. OutcomeInv'
  BY <1>6 DEF OutcomeInv, None
<1> QED BY <1>7, <1>8 DEF Kept

LEMMA OpGoesOnKeep ==
    ASSUME WInv, Kept, OpGoesOn
    PROVE  Kept'
<1>1. sql = <<>> /\ op.pc \in Awaiting /\ op.reply \in {"ok", "error"} /\ op.pc # None
  BY RepliedIs DEF OpGoesOn, Awaiting, None
<1>2. UNCHANGED <<call, queue, current, txn, work, durable>> /\ current \in Callers /\ current # None
  BY <1>1, RunningIs DEF OpGoesOn
<1>3. /\ DOMAIN sql = {} /\ Len(sql) = 0 /\ sql \in Seq(StmtRec)
  BY <1>1
<1>4. txn # None => txn = current /\ InTransaction /\ (op.pc = "body" \/ (op.pc = "begin" /\ op.reply = "ok"))
  BY <1>3 DEF Kept, ConnectionInv
<1>5. (call[current].kind = "transaction") <=> InTransaction
  BY <1>2 DEF InTransaction
<1>6. op.pc \in {"begin", "commit", "rollback"} => InTransaction
  BY <1>5 DEF WInv, OpInv
<1>7. InTransaction => TransactionAt
  BY DEF Kept, OutcomeInv
<1> DEFINE r(p) == [stmt |-> p, by |-> current, heard |-> TRUE, hit |-> FALSE]
<1>o. ASSUME NEW x \in {"ok", "error", "cancelled"},
             op' = [NoOp EXCEPT !.pc = "over", !.cause = x], sql' = sql, txn = None,
             x = "ok" => current \in durable,
             x = "cancelled" /\ InTransaction /\ call[current].result = None => Past(current)
      PROVE  Kept'
  BY <1>o, <1>1, <1>2, <1>3, OverKeeps
<1>w. ASSUME NEW p \in {"body", "commit", "rollback"}, NEW x,
             op' = [NoOp EXCEPT !.pc = p, !.cause = x], sql' = Append(sql, r(p)),
             InTransaction => TransactionAt'
      PROVE  Kept'
  <2>1. op'.pc = p /\ op'.reply = None /\ ~ op'.kill
    BY <1>w DEF NoOp
  <2>2. \A i \in 1 .. Len(sql) : FALSE
    BY <1>3
  <2>3. sql' = Append(sql, [stmt |-> p, by |-> current, heard |-> TRUE, hit |-> FALSE])
    BY <1>w
  <2> HIDE DEF r
  <2> QED BY <1>w, <2>1, <2>2, <2>3, <1>1, <1>2, <1>3, <1>4, AwaitsKeeps
<1>s. ASSUME NEW p \in {"body", "commit", "rollback"}, sql' = Append(sql, r(p))
      PROVE  /\ Len(sql') = 1 /\ \A i \in DOMAIN sql' : sql'[i].stmt = p
  BY <1>s, <1>1
<1>a. CASE op.pc = "begin" /\ op.reply = "ok"
  <2>1. op' = [NoOp EXCEPT !.pc = "body", !.cause = None] /\ sql' = Append(sql, r("body"))
    BY <1>a DEF OpGoesOn, Awaits, Handed
  <2>2. TransactionAt'
    <3>1. current \notin durable /\ txn = current
      BY <1>a, <1>6, <1>7 DEF TransactionAt, Past
    <3>2. op'.pc = "body" /\ op'.reply = None
      BY <2>1 DEF NoOp
    <3> QED BY <1>2, <1>s, <2>1, <3>1, <3>2 DEF TransactionAt, None
  <2> QED BY <1>w, <2>1, <2>2
<1>b. CASE op.pc = "begin" /\ op.reply # "ok"
  <2>1. op' = [NoOp EXCEPT !.pc = "over", !.cause = "error"] /\ sql' = sql
    BY <1>b DEF OpGoesOn, Over
  <2> QED BY <1>o, <1>4, <1>b, <2>1
<1>c. CASE op.pc = "body" /\ ~ InTransaction
  <2>1. op' = [NoOp EXCEPT !.pc = "over", !.cause = op.reply] /\ sql' = sql
    BY <1>c, <1>5 DEF OpGoesOn, Over
  <2>2. op.reply = "ok" => current \in durable
    BY <1>c DEF Kept, OutcomeInv
  <2> QED BY <1>o, <1>1, <1>4, <1>c, <2>1, <2>2
<1>d. CASE op.pc = "body" /\ InTransaction /\ op.reply = "ok"
  <2>1. op' = [NoOp EXCEPT !.pc = "commit", !.cause = None] /\ sql' = Append(sql, r("commit"))
    BY <1>d, <1>5 DEF OpGoesOn, Awaits, Handed
  <2>2. TransactionAt'
    <3>1. current \notin durable /\ txn = current /\ current \in work
      BY <1>d, <1>7 DEF TransactionAt
    <3>2. op'.pc = "commit" /\ op'.reply = None
      BY <2>1 DEF NoOp
    <3> QED BY <1>2, <1>s, <2>1, <3>1, <3>2 DEF TransactionAt, None
  <2> QED BY <1>w, <2>1, <2>2
<1>e. CASE op.pc = "body" /\ InTransaction /\ op.reply # "ok"
  <2>1. op' = [NoOp EXCEPT !.pc = "rollback", !.cause = "error"] /\ sql' = Append(sql, r("rollback"))
    BY <1>e, <1>5 DEF OpGoesOn, Awaits, Handed
  <2>2. TransactionAt'
    <3>1. current \notin durable
      BY <1>e, <1>7 DEF TransactionAt
    <3>2. op'.pc = "rollback" /\ op'.cause = "error"
      BY <2>1 DEF NoOp
    <3> QED BY <1>2, <1>s, <2>1, <3>1, <3>2 DEF TransactionAt, Past
  <2> QED BY <1>w, <2>1, <2>2
<1>f. CASE op.pc = "commit"
  <2>1. op.reply = "ok" /\ current \in durable
    BY <1>1, <1>f, <1>6, <1>7 DEF TransactionAt
  <2>2. op' = [NoOp EXCEPT !.pc = "over", !.cause = "ok"] /\ sql' = sql
    BY <1>f, <2>1 DEF OpGoesOn, Over
  <2> QED BY <1>o, <1>4, <1>f, <2>1, <2>2
<1>g. CASE op.pc = "rollback"
  <2>1. op' = [NoOp EXCEPT !.pc = "over", !.cause = IF op.reply = "ok" THEN op.cause ELSE "error"] /\ sql' = sql
    BY <1>g DEF OpGoesOn, Over
  <2>2. op.cause \in {"error", "cancelled"}
    BY <1>g DEF WInv, OpInv
  <2>3. op.cause = "cancelled" /\ op.reply = "ok" => Past(current)
    BY <1>3, <1>g, <1>6, <1>7 DEF TransactionAt, Past
  <2>4. txn = None
    BY <1>4, <1>g
  <2>5. CASE op.reply = "ok"
    BY <1>o, <2>1, <2>2, <2>3, <2>4, <2>5
  <2>6. CASE op.reply # "ok"
    BY <1>o, <2>1, <2>4, <2>6
  <2> QED BY <2>5, <2>6
<1> QED BY <1>1, <1>a, <1>b, <1>c, <1>d, <1>e, <1>f, <1>g DEF Awaiting

LEMMA OpCancelledKeep ==
    ASSUME WInv, Kept, OpCancelled, op.pc # "begin"
    PROVE  Kept'
<1>1. op.kill /\ op.pc \in {"created", "body", "commit", "rollback"} /\ op.pc # None
  <2>1. op \in OpRec
    BY DEF WInv, WriterType
  <2> QED BY <2>1 DEF OpCancelled, WInv, OpInv, NoOp, OpRec, Awaiting, None
<1>2. /\ UNCHANGED <<call, queue, current, txn, work, durable>> /\ current \in Callers /\ current # None
      /\ sql \in Seq(StmtRec) /\ DOMAIN sql = 1 .. Len(sql) /\ Len(sql) \in Nat
  BY <1>1, RunningIs DEF OpCancelled, WInv, WriterType
<1>3. Unheard \in Seq(StmtRec) /\ Len(Unheard) = Len(sql) /\ DOMAIN Unheard = DOMAIN sql
  BY <1>2, UnheardSame
<1>4. \A i \in 1 .. Len(sql) : /\ Unheard[i].stmt = sql[i].stmt /\ Unheard[i].by = sql[i].by
                               /\ Unheard[i].hit = sql[i].hit /\ sql[i].stmt # "begin"
  <2> TAKE i \in 1 .. Len(sql)
  <2>1. sql[i] \in StmtRec /\ Unheard[i] = [sql[i] EXCEPT !.heard = FALSE]
    BY <1>2 DEF Unheard
  <2>2. sql[i].stmt # "begin"
    BY <1>1, <1>2 DEF WInv, OpInv, Kept, ConnectionInv
  <2> QED BY <2>1, <2>2 DEF StmtRec
<1>5. (call[current].kind = "transaction") <=> InTransaction
  BY <1>2 DEF InTransaction
<1>6. InTransaction => TransactionAt
  BY DEF Kept, OutcomeInv
<1>7. call[current].result = None => call[current].pc = "leaving"
  BY <1>1 DEF Kept, OutcomeInv
<1>8. txn # None => (txn = current /\ InTransaction /\ op.pc = "body")
                    \/ \E i \in DOMAIN sql : sql[i].stmt \in Ending
  BY <1>1 DEF Kept, ConnectionInv
<1>9. op.pc \in {"commit", "rollback"} => InTransaction
  BY <1>5 DEF WInv, OpInv
<1>o. ASSUME Over("cancelled"), sql' = Unheard,
             txn # None => \E i \in DOMAIN sql : sql[i].stmt \in Ending,
             InTransaction /\ call[current].result = None => Past(current)
      PROVE  Kept'
  <2>1. op' = [NoOp EXCEPT !.pc = "over", !.cause = "cancelled"]
    BY <1>o DEF Over
  <2> QED BY <1>o, <2>1, <1>1, <1>2, <1>3, <1>4, OverKeeps
<1> DEFINE r == [stmt |-> "rollback", by |-> current, heard |-> TRUE, hit |-> FALSE]
<1>w. ASSUME Awaits("rollback", "cancelled"), sql' = Append(Unheard, r), InTransaction,
             txn = current => current \notin durable,
             Len(sql) <= 1, Len(sql) = 1 => txn = current
      PROVE  Kept'
  <2>1. op'.pc = "rollback" /\ op'.reply = None /\ ~ op'.kill /\ op'.cause = "cancelled"
    BY <1>w DEF Awaits, NoOp
  <2>2. r \in StmtRec
    BY <1>2 DEF StmtRec, Awaiting
  <2>3. Len(sql') = Len(sql) + 1
    BY <1>3, <1>w, <2>2, AppendedSame
  <2>4. TransactionAt'
    BY <1>2, <1>7, <1>w, <2>1, <2>3 DEF TransactionAt, None
  <2>5. txn # None => txn = current \/ \E i \in DOMAIN sql : sql[i].stmt \in Ending
    BY <1>8
  <2> QED BY <1>w, <2>1, <2>4, <2>5, <1>1, <1>2, <1>3, <1>4, AwaitsKeeps
<1>s. op.reply = None /\ op.pc \in {"body", "commit"} /\ InTransaction => Len(sql) = 1 /\ txn = current
  BY <1>6 DEF TransactionAt
<1>t. op.reply # None => Len(sql) = 0 /\ DOMAIN sql = {}
  BY <1>2, RepliedIs
<1>a. CASE op.pc = "created"
  <2>1. Over("cancelled") /\ sql' = Unheard
    BY <1>a DEF OpCancelled
  <2>2. Past(current)
    BY <1>a DEF Kept, OutcomeInv, Untouched, Past
  <2> QED BY <1>a, <1>o, <1>8, <2>1, <2>2
<1>b. CASE op.pc = "body" /\ InTransaction
  <2>1. Awaits("rollback", "cancelled") /\ sql' = Append(Unheard, r)
    BY <1>b, <1>5 DEF OpCancelled
  <2>2. current \notin durable
    BY <1>b, <1>6 DEF TransactionAt
  <2>3. Len(sql) <= 1 /\ (Len(sql) = 1 => txn = current)
    <3>1. CASE op.reply = None
      <4>1. Len(sql) = 1 /\ txn = current
        BY <1>b, <1>s, <3>1
      <4> QED BY <4>1
    <3>2. CASE op.reply # None
      BY <1>t, <3>2
    <3> QED BY <3>1, <3>2
  <2> HIDE DEF r
  <2> QED BY <1>b, <1>w, <2>1, <2>2, <2>3
<1>c. CASE op.pc = "body" /\ ~ InTransaction
  <2>1. Over("cancelled") /\ sql' = Unheard
    BY <1>c, <1>5 DEF OpCancelled
  <2> QED BY <1>c, <1>o, <1>8, <2>1
<1>d. CASE op.pc = "commit"
  <2>1. Awaits("rollback", "cancelled") /\ sql' = Append(Unheard, r)
    BY <1>d DEF OpCancelled
  <2>2. CASE op.reply = None
    <3>1. current \notin durable
      BY <1>d, <1>6, <1>9, <2>2 DEF TransactionAt
    <3>2. Len(sql) <= 1 /\ txn = current
      <4>1. Len(sql) = 1 /\ txn = current
        BY <1>d, <1>9, <1>s, <2>2
      <4> QED BY <4>1
    <3> HIDE DEF r
    <3> QED BY <1>d, <1>9, <1>w, <2>1, <3>1, <3>2
  <2>3. CASE op.reply # None
    <3>1. txn = None
      BY <1>d, <1>8, <1>t, <2>3
    <3> QED BY <1>2, <1>d, <1>9, <1>t, <1>w, <2>1, <2>3, <3>1
  <2> QED BY <2>2, <2>3
<1>e. CASE op.pc = "rollback"
  <2>1. Over("cancelled") /\ sql' = Unheard
    BY <1>e DEF OpCancelled
  <2>2. call[current].result = None => Past(current)
    <3> HAVE call[current].result = None
    <3>1. op.cause \in {"error", "cancelled"}
      BY <1>e DEF WInv, OpInv
    <3> QED BY <1>1, <1>e, <1>6, <1>9, <3>1 DEF TransactionAt
  <2> QED BY <1>e, <1>o, <1>8, <2>1, <2>2
<1> QED BY <1>1, <1>a, <1>b, <1>c, <1>d, <1>e

-----------------------------------------------------------------------------
(* What is kept: the thread                                                 *)

(* What a statement may do, by the reply to it.                             *)
Effect(h, r) ==
    \/ /\ h.stmt = "begin" /\ txn = None /\ r = "ok"
       /\ txn' = h.by /\ work' = work /\ durable' = durable
    \/ /\ h.stmt = "body" /\ txn = None /\ r = "ok"
       /\ txn' = txn /\ work' = work /\ durable' = durable \cup {h.by}
    \/ /\ h.stmt = "body" /\ txn # None /\ r = "ok"
       /\ txn' = txn /\ work' = work \cup {h.by} /\ durable' = durable
    \/ /\ h.stmt = "commit" /\ txn # None /\ r = "ok"
       /\ txn' = None /\ work' = {} /\ durable' = durable \cup work
    \/ /\ h.stmt = "rollback" /\ txn # None /\ r = "ok"
       /\ txn' = None /\ work' = {} /\ durable' = durable
    \/ /\ (h.stmt \in Ending => txn = None) /\ r = "error"
       /\ (h.stmt = "begin" => txn # None)
       /\ txn' = txn /\ work' = work /\ durable' = durable
    \/ /\ h.stmt = "body" /\ r = "error"
       /\ txn' = None /\ work' = {} /\ durable' = durable

(* The statement at the head is that of the open transaction, if there is   *)
(* one, and has one of those effects.                                       *)
LEMMA ThreadDoes ==
    ASSUME WInv, Kept, ThreadRuns
    PROVE  /\ txn # None => Head(sql).by = txn
           /\ Head(sql).stmt = "begin" => Head(sql).heard
           /\ \E r \in {"ok", "error"} :
                 /\ op' = IF Head(sql).heard THEN [op EXCEPT !.reply = r] ELSE op
                 /\ Effect(Head(sql), r)
<1> DEFINE h == Head(sql)
<1>0. sql \in Seq(StmtRec) /\ sql # <<>> /\ h = sql[1] /\ 1 \in DOMAIN sql /\ h \in StmtRec
  BY TailSame DEF ThreadRuns, WInv, WriterType
<1>1. PICK o \in Outcomes(h) :
          /\ txn' = o.txn /\ work' = o.work /\ durable' = o.durable
          /\ op' = IF h.heard THEN [op EXCEPT !.reply = o.reply] ELSE op
  BY DEF ThreadRuns
<1>2. txn # None => h.by = txn
  BY <1>0 DEF Kept, ConnectionInv
<1>3. (h.hit => h.stmt = "body") /\ (h.stmt = "begin" => h.heard)
  BY <1>0 DEF Kept, ConnectionInv
<1> DEFINE same == [txn |-> txn, work |-> work, durable |-> durable, reply |-> "error"]
           none == [same EXCEPT !.txn = None, !.work = {}]
<1> HIDE DEF h
<1>4. \/ h.stmt = "begin" /\ txn = None /\ o = [same EXCEPT !.txn = h.by, !.reply = "ok"]
      \/ h.stmt = "body" /\ txn = None /\ o = [same EXCEPT !.durable = @ \cup {h.by}, !.reply = "ok"]
      \/ h.stmt = "body" /\ txn # None /\ o = [same EXCEPT !.work = @ \cup {h.by}, !.reply = "ok"]
      \/ h.stmt = "commit" /\ txn # None /\ o = [none EXCEPT !.durable = @ \cup work, !.reply = "ok"]
      \/ h.stmt = "rollback" /\ txn # None /\ o = [none EXCEPT !.reply = "ok"]
      \/ /\ (h.stmt \in {"commit", "rollback"} => txn = None) /\ (h.stmt = "begin" => txn # None)
         /\ o = same
      \/ h.stmt = "body" /\ o = none
  BY <1>1, <1>3 DEF Outcomes
<1>5. \/ /\ h.stmt = "begin" /\ txn = None /\ o.reply = "ok"
         /\ o.txn = h.by /\ o.work = work /\ o.durable = durable
      \/ /\ h.stmt = "body" /\ txn = None /\ o.reply = "ok"
         /\ o.txn = txn /\ o.work = work /\ o.durable = durable \cup {h.by}
      \/ /\ h.stmt = "body" /\ txn # None /\ o.reply = "ok"
         /\ o.txn = txn /\ o.work = work \cup {h.by} /\ o.durable = durable
      \/ /\ h.stmt = "commit" /\ txn # None /\ o.reply = "ok"
         /\ o.txn = None /\ o.work = {} /\ o.durable = durable \cup work
      \/ /\ h.stmt = "rollback" /\ txn # None /\ o.reply = "ok"
         /\ o.txn = None /\ o.work = {} /\ o.durable = durable
      \/ /\ (h.stmt \in {"commit", "rollback"} => txn = None) /\ o.reply = "error"
         /\ (h.stmt = "begin" => txn # None)
         /\ o.txn = txn /\ o.work = work /\ o.durable = durable
      \/ /\ h.stmt = "body" /\ o.reply = "error"
         /\ o.txn = None /\ o.work = {} /\ o.durable = durable
  <2>1. CASE h.stmt = "begin" /\ txn = None /\ o = [same EXCEPT !.txn = h.by, !.reply = "ok"]
    BY <2>1
  <2>2. CASE h.stmt = "body" /\ txn = None /\ o = [same EXCEPT !.durable = @ \cup {h.by}, !.reply = "ok"]
    BY <2>2
  <2>3. CASE h.stmt = "body" /\ txn # None /\ o = [same EXCEPT !.work = @ \cup {h.by}, !.reply = "ok"]
    BY <2>3
  <2>4. CASE h.stmt = "commit" /\ txn # None /\ o = [none EXCEPT !.durable = @ \cup work, !.reply = "ok"]
    BY <2>4
  <2>5. CASE h.stmt = "rollback" /\ txn # None /\ o = [none EXCEPT !.reply = "ok"]
    BY <2>5
  <2>6. CASE (h.stmt \in {"commit", "rollback"} => txn = None) /\ (h.stmt = "begin" => txn # None)
              /\ o = same
    BY <2>6
  <2>7. CASE h.stmt = "body" /\ o = none
    BY <2>7
  <2> QED BY <1>4, <2>1, <2>2, <2>3, <2>4, <2>5, <2>6, <2>7
<1>6. o.reply \in {"ok", "error"}
  BY <1>5
<1> HIDE DEF same, none
<1>7. Effect(h, o.reply)
  BY <1>1, <1>5 DEF Effect, Ending
<1> QED BY <1>1, <1>2, <1>3, <1>6, <1>7 DEF h

LEMMA ThreadRunsKeep ==
    ASSUME WInv, Kept, ThreadRuns
    PROVE  Kept'
<1> DEFINE h == Head(sql)
<1>0. /\ sql \in Seq(StmtRec) /\ sql # <<>> /\ h = sql[1] /\ h \in StmtRec
      /\ sql' = Tail(sql) /\ UNCHANGED <<call, queue, current>>
      /\ Len(sql) \in Nat \ {0} /\ Len(sql') = Len(sql) - 1 /\ op \in OpRec
      /\ DOMAIN sql = 1 .. Len(sql) /\ DOMAIN sql' = 1 .. Len(sql) - 1
      /\ \A i \in DOMAIN sql' : i + 1 \in DOMAIN sql /\ sql'[i] = sql[i + 1]
  BY TailSame DEF ThreadRuns, WInv, WriterType
<1>1. PICK r \in {"ok", "error"} :
         /\ op' = IF h.heard THEN [op EXCEPT !.reply = r] ELSE op
         /\ Effect(h, r)
  BY ThreadDoes
<1>2. (txn # None => h.by = txn) /\ (h.stmt = "begin" => h.heard)
  BY ThreadDoes
<1> HIDE DEF h
<1>3. /\ op'.pc = op.pc /\ op'.cause = op.cause /\ op'.kill = op.kill
      /\ op'.reply = IF h.heard THEN r ELSE op.reply
  BY <1>0, <1>1 DEF OpRec
<1>4. op.reply = None
  BY <1>0, RepliedIs
<1>5. h.heard => Len(sql) = 1 /\ h.by = current /\ h.stmt = op.pc
  BY <1>0 DEF WInv, OpInv
<1>6. op.pc \in Awaiting => sql[Len(sql)].heard /\ sql[Len(sql)].by = current /\ sql[Len(sql)].stmt = op.pc
  BY <1>0, <1>4 DEF WInv, OpInv
<1>7. work \subseteq {txn} \ {None}
  BY DEF Kept, ConnectionInv
<1>8. /\ txn' = txn \/ txn' = None \/ (txn' = current /\ h.heard /\ h.stmt = "begin" /\ txn = None /\ r = "ok")
      /\ durable \subseteq durable'
      /\ \A c \in durable' : c \in durable \/ (c = h.by /\ h.stmt \in {"body", "commit"})
  BY <1>1, <1>2, <1>5, <1>7 DEF Effect, Ending
(* Whoever has nothing with the connection goes on having nothing there     *)
<1>9. \A c \in Callers : Past(c) => Past(c)'
  <2> TAKE c \in Callers
  <2> HAVE Past(c)
  <2>1. h.by = c => h.stmt \notin {"body", "commit"}
    BY <1>0 DEF Past
  <2> QED BY <1>0, <1>8, <2>1 DEF Past
<1>10. \A c \in Callers : Untouched(c) => Untouched(c)'
  <2> TAKE c \in Callers
  <2> HAVE Untouched(c)
  <2>1. h.by # c /\ c # txn /\ c \notin durable
    BY <1>0 DEF Untouched
  <2>2. c # txn' /\ c \notin durable'
    BY <1>5, <1>8, <2>1, CallersAssumption
  <2> QED BY <1>0, <2>2 DEF Untouched
<1>11. InTransaction' <=> InTransaction
  BY <1>0 DEF InTransaction
<1>12. op.pc # None => current \in Callers /\ current # None
  BY RunningIs
<1>13. txn' # None /\ txn' = txn => h.stmt \notin Ending
  BY <1>1 DEF Effect, Ending
<1>14. ConnectionInv'
  <2>1. /\ \A i \in DOMAIN sql' : sql'[i].hit => sql'[i].stmt = "body"
        /\ \A i \in DOMAIN sql' : sql'[i].stmt = "begin" => sql'[i].heard
    BY <1>0 DEF Kept, ConnectionInv
  <2>a. CASE txn' = None
    <3>1. work' = {}
      BY <1>1, <1>7, <2>a DEF Effect
    <3> QED BY <2>1, <2>a, <3>1 DEF ConnectionInv
  <2>b. CASE txn' # None /\ txn' = txn
    <3>1. \A j \in DOMAIN sql' :
            (\A i \in 1 .. j - 1 : sql'[i].stmt \notin Ending) => sql'[j].by = txn'
      <4> SUFFICES ASSUME NEW j \in DOMAIN sql', \A i \in 1 .. j - 1 : sql'[i].stmt \notin Ending
                   PROVE  sql'[j].by = txn
        BY <2>b
      <4>1. \A i \in 1 .. (j + 1) - 1 : sql[i].stmt \notin Ending
        <5> TAKE i \in 1 .. (j + 1) - 1
        <5>1. CASE i = 1
          BY <1>0, <1>13, <2>b, <5>1
        <5>2. CASE i # 1
          <6>1. i - 1 \in 1 .. j - 1 /\ i - 1 \in DOMAIN sql' /\ (i - 1) + 1 = i
            BY <1>0, <5>2
          <6> QED BY <1>0, <6>1
        <5> QED BY <5>1, <5>2
      <4>2. j + 1 \in DOMAIN sql /\ sql'[j] = sql[j + 1]
        BY <1>0
      <4> QED BY <2>b, <4>1, <4>2 DEF Kept, ConnectionInv
    <3>2. \/ \E i \in DOMAIN sql' : sql'[i].stmt \in Ending
          \/ txn' = current' /\ op'.pc = "body"
      <4>1. CASE \E i \in DOMAIN sql : sql[i].stmt \in Ending
        <5>1. PICK i \in DOMAIN sql : sql[i].stmt \in Ending
          BY <4>1
        <5>2. i # 1
          BY <1>0, <1>13, <2>b, <5>1
        <5>3. i - 1 \in DOMAIN sql' /\ (i - 1) + 1 = i
          BY <1>0, <5>2
        <5> QED BY <1>0, <5>1, <5>3
      <4>2. CASE txn = current /\ (op.pc = "body" \/ (op.pc = "begin" /\ op.reply = "ok"))
        BY <1>0, <1>3, <1>4, <2>b, <4>2 DEF None
      <4> QED BY <2>b, <4>1, <4>2 DEF Kept, ConnectionInv
    <3>3. txn' = current' => InTransaction'
      BY <1>0, <1>11, <2>b DEF Kept, ConnectionInv
    <3>4. work' \subseteq {txn'} \ {None}
      BY <1>1, <1>2, <1>7, <2>b DEF Effect
    <3> QED BY <2>1, <3>1, <3>2, <3>3, <3>4 DEF ConnectionInv
  <2>c. CASE txn' # None /\ txn' = current /\ h.heard /\ h.stmt = "begin" /\ txn = None /\ r = "ok"
    <3>1. DOMAIN sql' = {} /\ op'.pc = "begin" /\ op'.reply = "ok"
      BY <1>0, <1>3, <1>5, <2>c
    <3>2. InTransaction'
      BY <1>0, <1>5, <1>11, <2>c DEF WInv, OpInv, InTransaction
    <3>3. work' = {}
      BY <1>1, <1>7, <2>c DEF Effect, Ending
    <3> QED BY <1>0, <2>1, <2>c, <3>1, <3>2, <3>3 DEF ConnectionInv
  <2> QED BY <1>8, <2>a, <2>b, <2>c
<1>15. InTransaction' => TransactionAt'
  <2> SUFFICES ASSUME InTransaction, TransactionAt PROVE TransactionAt'
    BY <1>11 DEF Kept, OutcomeInv
  <2>0. current \in Callers
    BY DEF InTransaction, WInv, WriterType
  <2>1. op.pc = "begin" => Past(current)' /\ (IF op'.reply = "ok" THEN txn' = current' ELSE txn' # current')
    <3> SUFFICES ASSUME op.pc = "begin"
                 PROVE  Past(current)' /\ (IF op'.reply = "ok" THEN txn' = current' ELSE txn' # current')
      OBVIOUS
    <3>1. Past(current) /\ txn # current
      BY <1>4 DEF TransactionAt, None
    <3>2. Past(current)'
      BY <1>0, <1>9, <2>0, <3>1 DEF Past
    <3>3. CASE h.heard
      <4>1. h.stmt = "begin" /\ h.by = current /\ op'.reply = r
        BY <1>3, <1>5, <3>3
      <4>2. IF r = "ok" THEN txn' = current ELSE txn' # current
        BY <1>1, <3>1, <4>1 DEF Effect, Ending
      <4> QED BY <1>0, <3>2, <4>1, <4>2
    <3>4. CASE ~ h.heard
      <4>1. op'.reply # "ok"
        BY <1>3, <1>4, <3>4 DEF None
      <4>2. txn' # current
        BY <1>8, <2>0, <3>1, <3>4, CallersAssumption
      <4> QED BY <1>0, <3>2, <4>1, <4>2
    <3> QED BY <3>3, <3>4
  <2>2. op.pc \in {"body", "commit"} => h.heard /\ txn = current /\ current \notin durable /\ op'.reply = r
    <3> SUFFICES ASSUME op.pc \in {"body", "commit"} PROVE h.heard /\ txn = current /\ current \notin durable
      BY <1>3
    <3>1. Len(sql) = 1 /\ txn = current /\ current \notin durable
      BY <1>4 DEF TransactionAt
    <3> QED BY <1>0, <1>6, <3>1 DEF Awaiting
  <2>3. op.pc = "body" => /\ current' \notin durable'
                          /\ op'.reply = "ok" => txn' = current' /\ current' \in work'
    <3> SUFFICES ASSUME op.pc = "body" PROVE current \notin durable' /\ (r = "ok" => txn' = current /\ current \in work')
      BY <1>0, <2>2
    <3>1. h.stmt = "body" /\ h.by = current /\ txn = current /\ txn # None /\ current \notin durable
      BY <1>5, <1>12, <2>2 DEF None
    <3> QED BY <1>1, <3>1 DEF Effect
  <2>4. op.pc = "commit" => op'.reply = "ok" /\ current' \in durable'
    <3> SUFFICES ASSUME op.pc = "commit" PROVE r = "ok" /\ current \in durable'
      BY <1>0, <2>2
    <3>1. h.stmt = "commit" /\ txn = current /\ txn # None /\ current \in work
      BY <1>4, <1>5, <1>12, <2>2 DEF None, TransactionAt
    <3> QED BY <1>1, <3>1 DEF Effect, Ending
  <2>5. op.pc = "rollback" /\ op.cause = "error" => Past(current)'
    BY <1>0, <1>9, <2>0 DEF TransactionAt, Past
  <2>6. op.pc = "rollback" /\ op.cause = "cancelled" =>
           /\ txn' = current' \/ op'.reply = "ok" => current' \notin durable'
           /\ Len(sql') <= 1
    <3> SUFFICES ASSUME op.pc = "rollback", op.cause = "cancelled"
                 PROVE  (txn' = current \/ op'.reply = "ok" => current \notin durable') /\ Len(sql') <= 1
      BY <1>0
    <3>1. Len(sql) <= 2 /\ (Len(sql) = 2 => txn = current) /\ (txn = current => current \notin durable)
      BY DEF TransactionAt
    <3>2. CASE h.heard
      <4>1. h.stmt = "rollback" /\ h.by = current /\ op'.reply = r
        BY <1>3, <1>5, <3>2
      <4> QED BY <1>0, <1>1, <1>2, <1>12, <3>1, <4>1 DEF Effect, Ending, None
    <3>3. CASE ~ h.heard
      <4>1. op'.reply # "ok"
        BY <1>3, <1>4, <3>3 DEF None
      <4>2. Len(sql) = 2 /\ txn = current /\ current \notin durable /\ txn # None
        BY <1>0, <1>6, <1>12, <3>1, <3>3 DEF Awaiting, None
      <4>3. txn' = current => current \notin durable'
        BY <1>1, <1>2, <3>3, <4>2 DEF Effect
      <4> QED BY <1>0, <4>1, <4>2, <4>3
    <3> QED BY <3>2, <3>3
  <2>7. op.pc = "rollback" /\ op.cause = "cancelled" /\ call'[current'].result = None =>
           call'[current'].pc = "leaving" /\ ~ op'.kill
    BY <1>0, <1>3 DEF TransactionAt
  <2>8. op.pc \in {"body", "commit"} => op'.reply # None
    BY <2>2 DEF None
  <2>9. Len(sql') <= 1 => Len(sql') <= 2 /\ Len(sql') # 2
    <3>1. Len(sql') \in Int
      BY <1>0
    <3> QED BY <3>1
  <2>10. op.pc = "commit" => op'.reply \notin {None, "error"}
    BY <2>4 DEF None
  <2> QED BY <1>3, <2>1, <2>3, <2>4, <2>5, <2>6, <2>7, <2>8, <2>9, <2>10 DEF TransactionAt
<1>16. op'.pc = "body" /\ ~ InTransaction' /\ op'.reply = "ok" => current' \in durable'
  <2> SUFFICES ASSUME op.pc = "body", ~ InTransaction, op'.reply = "ok" PROVE current \in durable'
    BY <1>0, <1>3, <1>11
  <2>1. h.heard /\ h.stmt = "body" /\ h.by = current /\ r = "ok"
    BY <1>3, <1>4, <1>5 DEF None
  <2>2. txn = None
    BY <1>2, <2>1 DEF Kept, ConnectionInv
  <2> QED BY <1>1, <2>1, <2>2 DEF Effect
<1>17. op'.pc = "over" /\ op'.cause = "cancelled" /\ InTransaction' /\ call'[current'].result = None =>
          Past(current)'
  <2> SUFFICES ASSUME op.pc = "over", op.cause = "cancelled", InTransaction, call[current].result = None
               PROVE  Past(current)'
    BY <1>0, <1>3, <1>11
  <2>1. Past(current) /\ current \in Callers
    BY <1>12 DEF Kept, OutcomeInv, None
  <2> QED BY <1>0, <1>9, <2>1 DEF Past
<1>18. op'.pc = "created" => Untouched(current)'
  <2> SUFFICES ASSUME op.pc = "created" PROVE Untouched(current)'
    BY <1>3
  <2>1. Untouched(current) /\ current \in Callers
    BY <1>12 DEF Kept, OutcomeInv, None
  <2> QED BY <1>0, <1>10, <2>1 DEF Untouched
<1>19. \A i \in DOMAIN queue' : queue'[i] # Stop => Untouched(queue[i])'
  <2> SUFFICES ASSUME NEW i \in DOMAIN queue, queue[i] # Stop PROVE Untouched(queue[i])'
    BY <1>0
  <2>1. Untouched(queue[i]) /\ queue[i] \in Callers
    BY DEF Kept, OutcomeInv, WInv, WriterType
  <2> QED BY <1>0, <1>10, <2>1 DEF Untouched
<1>20. /\ \A d \in Callers : call'[d].result = "ok" => d \in durable'
       /\ \A d \in Callers : call'[d].result = "cancelled" /\ call'[d].kind = "transaction" => Past(d)'
       /\ op'.kill => call'[current'].result # None \/ call'[current'].pc = "leaving"
       /\ op'.pc = "over" /\ op'.cause = "ok" => current' \in durable'
  BY <1>0, <1>3, <1>8, <1>9 DEF Kept, OutcomeInv
<1>21. OutcomeInv'
  BY <1>15, <1>16, <1>17, <1>18, <1>19, <1>20 DEF OutcomeInv
<1> QED BY <1>14, <1>21 DEF Kept

-----------------------------------------------------------------------------
(* What is kept through every step *)

LEMMA StepKeeps ==
    ASSUME WInv, PoolInv, KeepInv, [Next]_vars
    PROVE  KeepInv'
<1> SUFFICES ASSUME ~ cut' PROVE Kept'
  BY DEF KeepInv
<1>1. cut \in BOOLEAN
  BY DEF WInv, WriterType
<1>2. Kept /\ (OpCancelled => op.pc # "begin")
  <2>1. CASE OpCancelled
    BY <1>1, <2>1 DEF OpCancelled, KeepInv
  <2>2. CASE ~ OpCancelled
    <3>1. cut' = cut
      BY <2>2 DEF Next, vars, past, Submit, SubmitCancelled, Returns, SubmitReturns, CancelledLeaves,
                  Borrow, Reads, BorrowAgain, Opened, Return, BorrowCancelled, OpenFails, ThreadRuns, Writer,
                  WriterTakes, WriterSettles, WriterDies, OpBegins, OpGoesOn, Reap, StopBegins, Closing,
                  StopJoined, StopReadersBack, Closes, Abort
    <3> QED BY <2>2, <3>1 DEF KeepInv
  <2> QED BY <2>1, <2>2
<1>3. CASE \E c \in Callers, k \in Kinds : Submit(c, k)
  BY <1>2, <1>3, SubmitKeep
<1>4. CASE \E c \in Callers : SubmitCancelled(c) \/ Returns(c)
  BY <1>2, <1>4, SubmitCancelledKeep, SubmitReturnsKeep DEF Returns
<1>5. CASE \E c \in Callers : Borrow(c) \/ Reads(c) \/ BorrowCancelled(c) \/ OpenFails(c)
  <2>1. PICK c \in Callers : Borrow(c) \/ Reads(c) \/ BorrowCancelled(c) \/ OpenFails(c)
    BY <1>5
  <2>2. PICK r \in CallRec :
            OneReader(c, r) /\ (r.result = None \/ (r.result = call[c].result /\ r.kind = call[c].kind))
    BY <2>1, ReadersDo
  <2> QED BY <1>2, <2>2, OneReaderKeep
<1>6. CASE ThreadRuns \/ WriterTakes \/ WriterSettles \/ OpBegins \/ OpGoesOn \/ OpCancelled
  BY <1>2, <1>6, ThreadRunsKeep, WriterTakesKeep, WriterSettlesKeep, OpBeginsKeep, OpGoesOnKeep, OpCancelledKeep
<1>7. CASE WriterDies \/ Reap \/ StopBegins \/ UNCHANGED vars
  <2>1. UNCHANGED <<call, queue, current, op, sql, txn, work, durable>>
    BY <1>7 DEF WriterDies, Reap, StopBegins, vars, writing, connection
  <2> QED BY <1>2, <2>1, CallersKeep
<1>8. CASE Closing \/ Abort
  BY <1>2, <1>8, StopJoinedKeep, StopReadersBackKeep, ClosesKeep, AbortKeep DEF Closing
<1> QED BY <1>3, <1>4, <1>5, <1>6, <1>7, <1>8 DEF Next, Writer

LEMMA KeptFollows ==
    ASSUME KeepInv
    PROVE  AnsweredIsKept
BY DEF KeepInv, Kept, OutcomeInv, Past, AnsweredIsKept

(* A write answered with success is in the file for good, and a transaction *)
(* whose operation was cancelled is not, wherever the cancellations and the *)
(* interrupts fall, unless a cancelled BEGIN has left a transaction open:   *)
(* for any callers and any number of cancellations.                         *)
THEOREM AnswersAreKept == Spec => []AnsweredIsKept
<1>1. Init => WInv /\ PoolInv /\ KeepInv
  BY InitHolds
<1>2. (WInv /\ PoolInv /\ KeepInv) /\ [Next]_vars => (WInv /\ PoolInv /\ KeepInv)'
  BY StepHolds, StepKeeps
<1>3. WInv /\ PoolInv /\ KeepInv => AnsweredIsKept
  BY KeptFollows
<1> QED BY <1>1, <1>2, <1>3, PTL DEF Spec
=============================================================================

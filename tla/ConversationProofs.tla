------------------------ MODULE ConversationProofs ------------------------
(***************************************************************************)
(* What the runs check of the conversations, for every number of threads,  *)
(* command slots, messages and restarts: the types; the freshness of a send *)
(* against what this process observed; the drafts; the listings of check    *)
(* behind the read cursor; and, for an agent that gives one command at a    *)
(* time, that a send answers only what it had been told and that a settled  *)
(* draft stays settled.                                                     *)
(***************************************************************************)
EXTENDS Conversation, FiniteSetTheorems, NaturalsInduction, SequenceTheorems,
        WellFoundedInduction, TLAPS

LEMMA MaxOfBounded ==
  ASSUME NEW n \in Nat, NEW S, S \subseteq 1 .. n, S # {}
  PROVE  Max(S) \in S /\ \A y \in S : Max(S) >= y
<1> DEFINE T == {n - i : i \in S}
<1>0. \A i \in S : i \in Nat /\ i <= n
  OBVIOUS
<1>1. T \subseteq Nat /\ T # {}
  <2>1. \A i \in S : n - i \in Nat
    BY <1>0
  <2>2. T # {}
    OBVIOUS
  <2>3. QED
    BY <2>1, <2>2
<1>2. IsWellFoundedOn(OpToRel(<, Nat), Nat)
  BY NatLessThanWellFounded
<1>3. \E m \in T : \A k \in T : ~ (<<k, m>> \in OpToRel(<, Nat))
  <2> HIDE DEF T
  <2> QED BY <1>1, <1>2, WFMin
<1>4. PICK m \in T : \A k \in T : ~ (k < m)
  BY <1>1, <1>3 DEF OpToRel
<1>5. PICK i \in S : m = n - i
  BY <1>4
<1>6. \A y \in S : n - y \in T
  OBVIOUS
<1>7. \A y \in S : i >= y
  BY <1>4, <1>5, <1>6
<1>8. QED
  BY <1>7 DEF Max

LEMMA MaxOrZeroBounded ==
  ASSUME NEW n \in Nat, NEW S, S \subseteq 1 .. n
  PROVE  MaxOrZero(S) \in Nat /\ \A y \in S : MaxOrZero(S) >= y
<1>1. CASE S = {}
  BY <1>1 DEF MaxOrZero
<1>2. CASE S # {}
  <2>1. MaxOrZero(S) = Max(S)
    BY <1>2 DEF MaxOrZero
  <2>2. Max(S) \in S /\ \A y \in S : Max(S) >= y
    BY <1>2, MaxOfBounded
  <2>3. \A i \in S : i \in Nat
    OBVIOUS
  <2>4. QED
    BY <2>1, <2>2, <2>3
<1>3. QED
  BY <1>1, <1>2

(* The queries answer a sequence number, or zero *)
LEMMA LatestTypes ==
  ASSUME log \in Seq(Entries), NEW t \in Threads
  PROVE  LatestInbound(t) \in Nat /\ LatestNotifying(t) \in Nat /\ LatestReadable(t) \in Nat
<1>1. Len(log) \in Nat
  OBVIOUS
<1>2. Inbound(t) \subseteq 1 .. Len(log) /\ Readable(t) \subseteq 1 .. Len(log)
      /\ Notifying(t) \subseteq 1 .. Len(log)
  BY DEF Inbound, Readable, Notifying
<1>3. QED
  BY <1>1, <1>2, MaxOrZeroBounded DEF LatestInbound, LatestNotifying, LatestReadable

-----------------------------------------------------------------------------
(* What the commands do to their own state keeps it one *)
LEMMA IdleType == Idle \in CmdState
BY DEF Idle, CmdState, Phases, Seqs, NoSeqs, NoDraft, Reviews, AllResults

LEMMA PcType ==
  ASSUME NEW s \in CmdState, NEW p \in Phases PROVE [s EXCEPT !.pc = p] \in CmdState
BY DEF CmdState

LEMMA OnwardType ==
  ASSUME NEW s \in CmdState, NEW t \in Threads, NEW p \in Phases
  PROVE  Onward(s, t, p) \in CmdState
<1>1. [s EXCEPT !.todo = s.targets, !.pc = p] \in CmdState
  BY DEF CmdState
<1>2. [s EXCEPT !.todo = s.todo \ {t}] \in CmdState
  BY DEF CmdState
<1>3. QED
  BY <1>1, <1>2 DEF Onward

LEMMA StagedType ==
  ASSUME NEW s \in CmdState, NEW t \in Threads PROVE Staged(s, t) \in CmdState
BY OnwardType DEF Staged, Phases

LEMMA HoldingType ==
  ASSUME NEW s \in CmdState, NEW t \in Threads, NEW seq \in Nat
  PROVE  Holding(s, t, seq) \in CmdState
<1>1. s.shown \in Seqs /\ s.held \in SUBSET Threads
  BY DEF CmdState
<1>2. [s.shown EXCEPT ![t] = seq] \in Seqs
  BY <1>1 DEF Seqs
<1>3. QED
  BY <1>1, <1>2 DEF CmdState, Holding

LEMMA ExpectedType ==
  ASSUME NEW s \in CmdState, NEW t \in Threads, NEW seq \in Nat
  PROVE  [s EXCEPT !.expected = [@ EXCEPT ![t] = seq]] \in CmdState
<1>1. s.expected \in Seqs
  BY DEF CmdState
<1>2. [s.expected EXCEPT ![t] = seq] \in Seqs
  BY <1>1 DEF Seqs
<1>3. QED
  BY <1>2 DEF CmdState

LEMMA BasisType ==
  ASSUME NEW s \in CmdState, NEW t \in Threads, NEW seq \in Nat
  PROVE  [s EXCEPT !.basis = [@ EXCEPT ![t] = seq]] \in CmdState
<1>1. s.basis \in Seqs
  BY DEF CmdState
<1>2. [s.basis EXCEPT ![t] = seq] \in Seqs
  BY <1>1 DEF Seqs
<1>3. QED
  BY <1>2 DEF CmdState

LEMMA UptoType ==
  ASSUME NEW old \in Seqs, NEW seen \in Seqs
  PROVE  /\ Upto(old, seen) \in Seqs
         /\ \A t \in Threads : old[t] <= Upto(old, seen)[t]
BY DEF Upto, Seqs

-----------------------------------------------------------------------------
LEMMA WithinType ==
  ASSUME NEW seen \in Seqs, NEW T PROVE Within(seen, T) \in Seqs
BY DEF Within, Seqs

LEMMA InitTypeOK == Init => TypeOK
BY IdleType DEF Init, TypeOK, NoSeqs, Seqs, Keys, Reviews, NoDraft, Entries, Free

LEMMA NoSeqsType == NoSeqs \in Seqs
BY DEF NoSeqs, Seqs

(* A new state for one slot is all a command needs to keep cmd's type *)
LEMMA CmdUpdate ==
  ASSUME cmd \in [Cmds -> CmdState], NEW c \in Cmds, NEW s \in CmdState,
         cmd' = [cmd EXCEPT ![c] = s]
  PROVE  cmd' \in [Cmds -> CmdState]
OBVIOUS

(* An entry is appended to the log, and so far no check has listed it *)
LEMMA LogGrows ==
  ASSUME log \in Seq(Entries), drained \in [1 .. Len(log) -> Nat], NEW e \in Entries,
         log' = Append(log, e), drained' = Append(drained, 0)
  PROVE  /\ log' \in Seq(Entries) /\ Len(log') = Len(log) + 1
         /\ drained' \in [1 .. Len(log') -> Nat]
         /\ \A i \in 1 .. Len(log) : log'[i] = log[i] /\ drained'[i] = drained[i]
         /\ log'[Len(log) + 1] = e /\ drained'[Len(log) + 1] = 0
<1>1. Len(log) \in Nat
  OBVIOUS
<1>2. drained \in Seq(Nat) /\ Len(drained) = Len(log)
  BY <1>1
<1>3. /\ Len(drained') = Len(log) + 1 /\ drained' \in Seq(Nat)
      /\ \A i \in 1 .. Len(log) : drained'[i] = drained[i]
      /\ drained'[Len(log) + 1] = 0
  BY <1>2
<1>4. drained' \in [1 .. Len(log) + 1 -> Nat]
  <2>1. drained' \in [1 .. Len(drained') -> Nat]
    BY <1>3, LenProperties
  <2>2. QED
    BY <1>3, <2>1
<1>5. /\ log' \in Seq(Entries) /\ Len(log') = Len(log) + 1
      /\ \A i \in 1 .. Len(log) : log'[i] = log[i]
      /\ log'[Len(log) + 1] = e
  OBVIOUS
<1>6. QED
  BY <1>3, <1>4, <1>5

(* What a delivery leaves in the log is an entry nobody has listed          *)
LEMMA WritesOne ==
  ASSUME log \in Seq(Entries), drained \in [1 .. Len(log) -> Nat],
         NEW t \in Threads, NEW answer, WrittenDown(t, answer)
  PROVE  /\ log' \in Seq(Entries) /\ drained' \in [1 .. Len(log') -> Nat]
         /\ \/ log' = log /\ drained' = drained
            \/ \E e \in Entries : /\ log' = Append(log, e) /\ drained' = Append(drained, 0)
                                 /\ ~ e.notifies /\ ~ e.inbound
<1> DEFINE e == [thread |-> t, inbound |-> FALSE, notifies |-> FALSE,
                 readable |-> answer = "accepted"]
<1>1. e \in Entries /\ ~ e.notifies /\ ~ e.inbound
  BY DEF Entries
<1>2. \/ log' = log /\ drained' = drained
      \/ log' = Append(log, e) /\ drained' = Append(drained, 0)
  BY DEF WrittenDown
<1> HIDE DEF e
<1>3. CASE log' = log /\ drained' = drained
  BY <1>3
<1>4. CASE log' = Append(log, e) /\ drained' = Append(drained, 0)
  BY <1>1, <1>4, LogGrows
<1>5. QED
  BY <1>2, <1>3, <1>4

LEMMA StepTypeOK == TypeOK /\ [Next]_vars => TypeOK'
<1> SUFFICES ASSUME TypeOK, [Next]_vars PROVE TypeOK'
  OBVIOUS
<1> USE DEF vars, durable, memory, history
<1>0. /\ log \in Seq(Entries) /\ cmd \in [Cmds -> CmdState]
      /\ snapshot \in Seqs /\ told \in Seqs /\ hushed \in Seqs /\ cursor \in Seqs
      /\ drained \in [1 .. Len(log) -> Nat]
  BY DEF TypeOK
<1>a. \A t \in Threads : /\ LatestInbound(t) \in Nat /\ LatestNotifying(t) \in Nat
                          /\ LatestReadable(t) \in Nat
  BY <1>0, LatestTypes
<1>b. \A c \in Cmds : /\ cmd[c] \in CmdState /\ cmd[c].shown \in Seqs
                       /\ cmd[c].targets \subseteq Threads
  BY <1>0 DEF CmdState
<1>1. ASSUME NEW a \in Arrivals, RecordInbound(a) PROVE TypeOK'
  <2>1. /\ a.thread \in Threads /\ a.mentions \in BOOLEAN /\ a.wakes \in BOOLEAN
        /\ a.opening \in Reviews
    BY ArrivalsAssumption DEF Reviews
  <2>2. review' \in [Threads -> Reviews]
    BY <1>1, <2>1 DEF TypeOK, RecordInbound, ReviewAfter, Reviews
  <2>3. following' \in [Threads -> BOOLEAN]
    BY <1>1, <2>1 DEF TypeOK, RecordInbound, FollowingAfter
  <2>4. log' \in Seq(Entries) /\ drained' \in [1 .. Len(log') -> Nat]
    <3> DEFINE e == [thread |-> a.thread, inbound |-> TRUE,
                     notifies |-> WakesAgent(a), readable |-> TRUE]
    <3>1. e \in Entries
      BY <2>1 DEF Entries, WakesAgent
    <3>2. log' = Append(log, e)
      BY <1>1 DEF RecordInbound
    <3>3. drained' = Append(drained, 0)
      BY <1>1 DEF RecordInbound
    <3> HIDE DEF e
    <3>4. QED
      BY <1>0, <3>1, <3>2, <3>3, LogGrows
  <2>5. QED
    BY <1>1, <2>2, <2>3, <2>4 DEF TypeOK, RecordInbound
<1>2. ASSUME NEW t \in Threads, NEW d \in Decisions, ReviewContact(t, d) PROVE TypeOK'
  BY <1>2, DecisionsAssumption DEF TypeOK, ReviewContact, Reviews
<1>3. ASSUME Restart PROVE TypeOK'
  BY <1>3, IdleType, NoSeqsType DEF TypeOK, Restart, NoDraft
<1>4. ASSUME NEW c \in Cmds, CheckMessages(c) PROVE TypeOK'
  <2> DEFINE reach  == {t \in Threads : review[t] = "approved"}
             latest == [t \in Threads |-> IF t \in reach THEN LatestInbound(t) ELSE 0]
             s == [Idle EXCEPT !.pc = "observe", !.targets = reach, !.shown = latest]
  <2>1. latest \in Seqs
    BY <1>a DEF Seqs
  <2>2. s \in CmdState
    BY <2>1, IdleType DEF CmdState, Phases
  <2>3. cursor' \in Seqs
    BY <1>0, <1>4, <1>a DEF CheckMessages, Seqs
  <2>4. log' = log /\ drained' \in [1 .. Len(log') -> Nat]
    BY <1>0, <1>4 DEF CheckMessages
  <2>5. cmd' = [cmd EXCEPT ![c] = s]
    BY <1>4 DEF CheckMessages
  <2>6. QED
    BY <1>0, <1>4, <2>2, <2>3, <2>4, <2>5, CmdUpdate DEF TypeOK, CheckMessages
<1>5. ASSUME NEW c \in Cmds, NEW t \in Threads, ReadMessages(c, t) PROVE TypeOK'
  <2> DEFINE s == [Idle EXCEPT !.pc = "observe", !.targets = {t},
                              !.shown = [NoSeqs EXCEPT ![t] = LatestReadable(t)]]
  <2>1. [NoSeqs EXCEPT ![t] = LatestReadable(t)] \in Seqs
    BY <1>a DEF NoSeqs, Seqs
  <2>2. s \in CmdState
    BY <2>1, IdleType DEF CmdState, Phases
  <2>3. QED
    BY <1>0, <1>5, <2>2, CmdUpdate DEF TypeOK, ReadMessages
<1>6. ASSUME NEW c \in Cmds, Observe(c) PROVE TypeOK'
  <2>1. Upto(snapshot, cmd[c].shown) \in Seqs
    BY <1>0, <1>b, UptoType
  <2>2. [cmd[c] EXCEPT !.pc = "reply"] \in CmdState
    BY <1>b, PcType DEF Phases
  <2>3. QED
    BY <1>0, <1>6, <2>1, <2>2, CmdUpdate DEF TypeOK, Observe
<1>7. ASSUME NEW c \in Cmds, Reply(c) PROVE TypeOK'
  <2>1. told' \in Seqs /\ hushed' \in Seqs
    BY <1>0, <1>7, <1>b, UptoType, WithinType DEF Reply
  <2>2. QED
    BY <1>0, <1>7, <2>1, IdleType, CmdUpdate DEF TypeOK, Reply
<1>8. ASSUME NEW c \in Cmds, NEW k \in Keys, NEW d \in Nat, SendStarts(c, k, d),
             drafts' \in [Keys -> Nat]
      PROVE TypeOK'
  <2> DEFINE s == [Idle EXCEPT !.pc = "stage", !.targets = k, !.todo = k,
                              !.draft = d, !.knew = told]
  <2>1. s \in CmdState
    BY <1>0, IdleType DEF CmdState, Phases, Keys
  <2>2. QED
    BY <1>0, <1>8, <2>1, CmdUpdate DEF TypeOK, SendStarts
<1>9. ASSUME NEW c \in Cmds, NEW k \in Keys, SendNew(c, k) \/ SendDraft(c, k) PROVE TypeOK'
  <2>1. CASE SendNew(c, k)
    <3>1. drafts' \in [Keys -> Nat] /\ SendStarts(c, k, sends + 1) /\ sends + 1 \in Nat
      BY <2>1 DEF TypeOK, SendNew
    <3>2. QED
      BY <1>8, <3>1
  <2>2. CASE SendDraft(c, k)
    <3>1. drafts' \in [Keys -> Nat] /\ SendStarts(c, k, drafts[k]) /\ drafts[k] \in Nat
      BY <2>2 DEF TypeOK, SendDraft
    <3>2. QED
      BY <1>8, <3>1
  <2>3. QED
    BY <1>9, <2>1, <2>2
<1>10. ASSUME NEW c \in Cmds, NEW t \in Threads, StagePasses(c, t) PROVE TypeOK'
  <2>1. Staged([cmd[c] EXCEPT !.expected = [@ EXCEPT ![t] = LatestNotifying(t)]], t) \in CmdState
    BY <1>a, <1>b, ExpectedType, StagedType
  <2>2. QED
    BY <1>0, <1>10, <2>1, CmdUpdate DEF TypeOK, StagePasses
<1>11. ASSUME NEW c \in Cmds, NEW t \in Threads, StageHolds(c, t) PROVE TypeOK'
  <2>1. Staged(Holding(cmd[c], t, LatestNotifying(t)), t) \in CmdState
    BY <1>a, <1>b, HoldingType, StagedType
  <2>2. snapshot' \in Seqs
    BY <1>0, <1>a, <1>11 DEF StageHolds, Seqs
  <2>3. QED
    BY <1>0, <1>11, <2>1, <2>2, CmdUpdate DEF TypeOK, StageHolds
<1>12. ASSUME NEW c \in Cmds, NEW t \in Threads, TakeLock(c, t) PROVE TypeOK'
  <2>1. Onward(cmd[c], t, "look") \in CmdState
    BY <1>b, OnwardType DEF Phases
  <2>2. lock' \in [Threads -> Cmds \cup {Free}]
    BY <1>12 DEF TypeOK, TakeLock
  <2>3. QED
    BY <1>0, <1>12, <2>1, <2>2, CmdUpdate DEF TypeOK, TakeLock
<1>13. ASSUME NEW c \in Cmds, NEW t \in Threads, LookPasses(c, t) PROVE TypeOK'
  <2>1. Onward([cmd[c] EXCEPT !.basis = [@ EXCEPT ![t] = LatestNotifying(t)]], t, "transmit")
            \in CmdState
    BY <1>a, <1>b, BasisType, OnwardType DEF Phases
  <2>2. QED
    BY <1>0, <1>13, <2>1, CmdUpdate DEF TypeOK, LookPasses
<1>c. \A c \in Cmds : Released(c) \in [Threads -> Cmds \cup {Free}]
  BY DEF TypeOK, Released
<1>14. ASSUME NEW c \in Cmds, NEW t \in Threads, LookHolds(c, t) PROVE TypeOK'
  <2>1. [Holding(cmd[c], t, LatestNotifying(t)) EXCEPT !.pc = "reply"] \in CmdState
    BY <1>a, <1>b, HoldingType, PcType DEF Phases
  <2>2. snapshot' \in Seqs
    BY <1>0, <1>a, <1>14 DEF LookHolds, Seqs
  <2>3. QED
    BY <1>0, <1>14, <1>c, <2>1, <2>2, CmdUpdate DEF TypeOK, LookHolds
<1>15. ASSUME NEW c \in Cmds, NEW t \in Threads, NEW r \in Results, Transmit(c, t, r)
       PROVE TypeOK'
  <2>1. [cmd[c].answer EXCEPT ![t] = r] \in [Threads -> AllResults \cup {"none"}]
    BY <1>b, ResultsAssumption DEF CmdState
  <2>2. [cmd[c] EXCEPT !.answer = [@ EXCEPT ![t] = r]] \in CmdState
    BY <1>b, <2>1 DEF CmdState
  <2>3. QED
    BY <1>0, <1>15, <2>2, CmdUpdate DEF TypeOK, Transmit
<1>16. ASSUME NEW c \in Cmds, NEW t \in Threads, Finalize(c, t) PROVE TypeOK'
  <2>1. [cmd[c] EXCEPT !.todo = @ \ {t}] \in CmdState
    BY <1>b DEF CmdState
  <2>2. log' \in Seq(Entries) /\ drained' \in [1 .. Len(log') -> Nat]
    BY <1>0, <1>16, WritesOne DEF Finalize
  <2>3. QED
    BY <1>0, <1>16, <2>1, <2>2, CmdUpdate DEF TypeOK, Finalize
<1>17. ASSUME NEW c \in Cmds, SendEnds(c) PROVE TypeOK'
  <2>1. [cmd[c] EXCEPT !.pc = "reply"] \in CmdState
    BY <1>b, PcType DEF Phases
  <2>2. drafts' \in [Keys -> Nat]
    BY <1>17 DEF SendEnds, DraftsAfter, TypeOK, NoDraft
  <2>3. cmd[c].draft \in Nat
    BY <1>b DEF CmdState
  <2>4. settled' \subseteq Nat
    BY <1>17, <2>3 DEF SendEnds, TypeOK
  <2>5. QED
    BY <1>0, <1>17, <1>c, <2>1, <2>2, <2>4, CmdUpdate DEF TypeOK, SendEnds
<1>18. ASSUME NEW c \in Cmds, NEW t \in Threads, UnfollowResolves(c, t) PROVE TypeOK'
  <2> DEFINE s == [Idle EXCEPT !.pc = "unfollow", !.targets = {t},
                     !.copy = [review |-> review[t], following |-> following[t]]]
  <2>1. s \in CmdState
    BY IdleType DEF CmdState, Phases, TypeOK
  <2>2. QED
    BY <1>0, <1>18, <2>1, CmdUpdate DEF TypeOK, UnfollowResolves
<1>19. ASSUME NEW c \in Cmds, NEW t \in Threads, UnfollowSaves(c, t) PROVE TypeOK'
  <2>1. [cmd[c] EXCEPT !.pc = "reply"] \in CmdState
    BY <1>b, PcType DEF Phases
  <2>2. cmd[c].copy.review \in Reviews
    BY <1>b DEF CmdState
  <2>3. review' \in [Threads -> Reviews] /\ following' \in [Threads -> BOOLEAN]
    BY <1>19, <2>2 DEF UnfollowSaves, TypeOK
  <2>4. QED
    BY <1>0, <1>19, <2>1, <2>3, CmdUpdate DEF TypeOK, UnfollowSaves
<1>20. ASSUME NEW c \in Cmds, LookFails(c) PROVE TypeOK'
  <2>1. cmd[c].held \in SUBSET Threads /\ "reply" \in Phases
    BY <1>b DEF CmdState, Phases
  <2>2. [cmd[c] EXCEPT !.pc = "reply", !.mute = cmd[c].held] \in CmdState
    BY <1>b, <2>1 DEF CmdState
  <2>3. QED
    BY <1>0, <1>20, <1>c, <2>2, CmdUpdate DEF TypeOK, LookFails, SendFails
<1>21. ASSUME NEW c \in Cmds, NEW t \in Threads, FinalizeFails(c, t) PROVE TypeOK'
  <2>1. [cmd[c] EXCEPT !.pc = "reply", !.todo = {}] \in CmdState
    <3>1. "reply" \in Phases /\ {} \in SUBSET Threads
      BY DEF Phases
    <3>2. QED
      BY <1>b, <3>1 DEF CmdState
  <2>2. /\ cmd[c].draft \in Nat /\ cmd[c].todo \subseteq Threads
        /\ \A u \in Threads : cmd[c].answer[u] \in AllResults \cup {"none"}
    BY <1>b DEF CmdState
  <2>3. failures' \in Nat /\ strays' \subseteq Strays
    <3>1. failures' \in Nat
      BY <1>21 DEF TypeOK, FinalizeFails, SendFails
    <3>2. QED
      BY <1>21, <2>2, <3>1 DEF TypeOK, FinalizeFails, Strays
  <2>4. settled' \subseteq Nat /\ unrecorded' \subseteq Nat
    BY <1>21, <2>2 DEF TypeOK, FinalizeFails
  <2>5. QED
    BY <1>0, <1>21, <1>c, <2>1, <2>3, <2>4, CmdUpdate DEF TypeOK, FinalizeFails, SendFails
<1>22. ASSUME NEW s \in strays, NEW r \in Results, StrayEnds(s, r) PROVE TypeOK'
  <2>1. s.thread \in Threads /\ strays' \subseteq Strays
    BY <1>22 DEF TypeOK, Strays, StrayEnds
  <2>2. log' \in Seq(Entries) /\ drained' \in [1 .. Len(log') -> Nat]
    BY <1>0, <1>22, <2>1, WritesOne DEF StrayEnds
  <2>3. QED
    BY <1>0, <1>22, <2>1, <2>2 DEF TypeOK, StrayEnds
<1>23. CASE UNCHANGED vars
  BY <1>23 DEF TypeOK
<1>24. QED
  BY <1>1, <1>2, <1>3, <1>4, <1>5, <1>6, <1>7, <1>9, <1>10, <1>11, <1>12, <1>13, <1>14,
     <1>15, <1>16, <1>17, <1>18, <1>19, <1>20, <1>21, <1>22, <1>23
     DEF Next, Outside, Begin, Proceed, Fails

(* A send that fails is on its way, replies, and keeps what it was about    *)
LEMMA FailsMove ==
  ASSUME TypeOK, NEW c \in Cmds, Fails(c)
  PROVE  /\ cmd[c].pc \in {"stage", "look", "transmit"} /\ cmd'[c].pc = "reply"
         /\ cmd' = [cmd EXCEPT ![c] = cmd'[c]] /\ cmd'[c] \in CmdState
         /\ cmd'[c].todo \subseteq cmd[c].todo /\ cmd'[c].targets = cmd[c].targets
         /\ cmd'[c].held = cmd[c].held /\ cmd'[c].answer = cmd[c].answer
         /\ cmd'[c].shown = cmd[c].shown
         /\ lock' = Released(c)
         /\ UNCHANGED <<snapshot, drafts, told, hushed, sends, restarts, log, drained, cursor>>
<1> USE DEF durable
<1>0. cmd \in [Cmds -> CmdState] /\ cmd[c] \in CmdState
  BY DEF TypeOK
<1>1. CASE LookFails(c)
  <2> DEFINE s == [cmd[c] EXCEPT !.pc = "reply", !.mute = cmd[c].held]
  <2>1. cmd' = [cmd EXCEPT ![c] = s] /\ cmd'[c] = s
    BY <1>0, <1>1 DEF LookFails
  <2>2. cmd[c].held \in SUBSET Threads /\ "reply" \in Phases
    BY <1>0 DEF CmdState, Phases
  <2>3. /\ s \in CmdState /\ s.pc = "reply" /\ s.todo = cmd[c].todo /\ s.targets = cmd[c].targets
        /\ s.held = cmd[c].held /\ s.answer = cmd[c].answer /\ s.shown = cmd[c].shown
    BY <1>0, <2>2 DEF CmdState
  <2> HIDE DEF s
  <2>4. QED
    BY <1>1, <2>1, <2>3 DEF LookFails, SendFails
<1>2. ASSUME NEW t \in Threads, FinalizeFails(c, t)
      PROVE  /\ cmd[c].pc = "transmit" /\ lock' = Released(c)
             /\ UNCHANGED <<snapshot, drafts, told, hushed, sends, restarts, log, drained, cursor>>
             /\ cmd' = [cmd EXCEPT ![c] = [cmd[c] EXCEPT !.pc = "reply", !.todo = {}]]
  BY <1>2 DEF FinalizeFails, SendFails
<1>3. CASE \E t \in Threads : FinalizeFails(c, t)
  <2> DEFINE s == [cmd[c] EXCEPT !.pc = "reply", !.todo = {}]
  <2>1. cmd' = [cmd EXCEPT ![c] = s] /\ cmd'[c] = s
    BY <1>0, <1>2, <1>3
  <2>2. /\ s \in CmdState /\ s.pc = "reply" /\ s.todo = {} /\ s.targets = cmd[c].targets
        /\ s.held = cmd[c].held /\ s.answer = cmd[c].answer /\ s.shown = cmd[c].shown
    BY <1>0 DEF CmdState, Phases
  <2> HIDE DEF s
  <2>3. QED
    BY <1>2, <1>3, <2>1, <2>2
<1>4. QED
  BY <1>1, <1>3 DEF Fails

(* Every variable keeps its type, whatever the threads, slots and bounds *)
THEOREM TypeCorrect == Spec => []TypeOK
<1>1. QED
  BY InitTypeOK, StepTypeOK, PTL DEF Spec
-----------------------------------------------------------------------------
(* The freshness of a send *)

(* Snapshots only grow, and what was settled against lower ones stays so *)
LEMMA SendInvMonotone ==
  ASSUME NEW s \in CmdState, NEW old \in Seqs, NEW new \in Seqs,
         \A t \in Threads : old[t] <= new[t], SendInv(s, old)
  PROVE  SendInv(s, new)
<1>1. s.targets \subseteq Threads /\ s.expected \in Seqs
  BY DEF CmdState
<1>2. \A t \in Threads : s.expected[t] \in Nat /\ old[t] \in Nat /\ new[t] \in Nat
  BY <1>1 DEF Seqs
<1>3. \A t \in s.targets : s.expected[t] <= old[t] => s.expected[t] <= new[t]
  BY <1>1, <1>2
<1>4. QED
  BY <1>3 DEF SendInv, Delivering

(* One command moves, the others look at the same or higher snapshots *)
LEMMA OneMoves ==
  ASSUME TypeOK, FreshnessInv, NEW c \in Cmds, NEW s \in CmdState,
         cmd' = [cmd EXCEPT ![c] = s], snapshot' \in Seqs,
         \A t \in Threads : snapshot[t] <= snapshot'[t],
         SendInv(s, snapshot')
  PROVE  FreshnessInv'
<1>1. snapshot \in Seqs /\ cmd \in [Cmds -> CmdState]
  BY DEF TypeOK
<1>2. SUFFICES ASSUME NEW d \in Cmds PROVE SendInv(cmd'[d], snapshot')
  BY DEF FreshnessInv
<1>3. CASE d = c
  BY <1>1, <1>3
<1>4. CASE d # c
  <2>1. cmd'[d] = cmd[d] /\ cmd[d] \in CmdState
    BY <1>1, <1>4
  <2>2. SendInv(cmd[d], snapshot)
    BY DEF FreshnessInv
  <2>3. QED
    BY <1>1, <2>1, <2>2, SendInvMonotone
<1>5. QED
  BY <1>3, <1>4

(* The locks stay as they are, and the one who moves keeps what it holds *)
LEMMA LocksStay ==
  ASSUME TypeOK, LockInv, NEW c \in Cmds, NEW s \in CmdState,
         cmd' = [cmd EXCEPT ![c] = s], lock' = lock,
         cmd[c].pc \in Delivering => s.pc \in Delivering
  PROVE  LockInv'
<1>1. lock \in [Threads -> Cmds \cup {Free}] /\ cmd \in [Cmds -> CmdState]
  BY DEF TypeOK
<1>2. SUFFICES ASSUME NEW t \in Threads, lock[t] # Free PROVE cmd'[lock[t]].pc \in Delivering
  BY DEF LockInv
<1>3. lock[t] \in Cmds /\ cmd[lock[t]].pc \in Delivering
  BY <1>1, <1>2 DEF LockInv
<1>4. QED
  BY <1>1, <1>3

(* The one who moves gives up every lock it holds *)
LEMMA LocksGo ==
  ASSUME TypeOK, LockInv, NEW c \in Cmds, NEW s \in CmdState,
         cmd' = [cmd EXCEPT ![c] = s], lock' = Released(c)
  PROVE  LockInv'
<1>1. lock \in [Threads -> Cmds \cup {Free}] /\ cmd \in [Cmds -> CmdState]
  BY DEF TypeOK
<1>2. SUFFICES ASSUME NEW t \in Threads, lock'[t] # Free PROVE cmd'[lock'[t]].pc \in Delivering
  BY DEF LockInv
<1>3. lock'[t] = lock[t] /\ lock[t] # c
  BY <1>2 DEF Released
<1>4. lock[t] \in Cmds /\ cmd[lock[t]].pc \in Delivering
  BY <1>1, <1>2, <1>3 DEF LockInv
<1>5. QED
  BY <1>1, <1>3, <1>4

LEMMA InitFreshness == Init => FreshnessInv /\ LockInv
BY DEF Init, FreshnessInv, LockInv, SendInv, Idle, Delivering

(* Moving on to the next thread of the phase, or to the next phase, keeps   *)
(* what is settled, when thread t is settled and the next phase is due.     *)
LEMMA StagedKeeps ==
  ASSUME NEW s \in CmdState, NEW t \in s.todo, NEW snap \in Seqs,
         SendInv(s, snap), s.pc = "stage",
         t \in s.held \/ s.expected[t] <= snap[t]
  PROVE  SendInv(Staged(s, t), snap)
<1>1. s.targets \subseteq Threads /\ s.todo \subseteq s.targets
  BY DEF CmdState, SendInv
<1>2. CASE s.todo = {t} /\ s.held = {}
  <2>1. Staged(s, t) = [s EXCEPT !.todo = s.targets, !.pc = "locking"]
    BY <1>2 DEF Staged, Onward
  <2>2. \A u \in s.targets : s.expected[u] <= snap[u]
    BY <1>2 DEF SendInv
  <2>3. QED
    BY <2>1, <2>2, <1>2 DEF SendInv, CmdState, Delivering
<1>3. CASE s.todo = {t} /\ s.held # {}
  <2>1. Staged(s, t) = [s EXCEPT !.todo = s.targets, !.pc = "reply"]
    BY <1>3 DEF Staged, Onward
  <2>2. QED
    BY <2>1, <1>3 DEF SendInv, CmdState, Delivering
<1>4. CASE s.todo # {t}
  <2>1. Staged(s, t) = [s EXCEPT !.todo = s.todo \ {t}]
    BY <1>4 DEF Staged, Onward
  <2>2. QED
    BY <1>1, <2>1 DEF SendInv, CmdState, Delivering
<1>5. QED
  BY <1>2, <1>3, <1>4

LEMMA LockedKeeps ==
  ASSUME NEW s \in CmdState, NEW t \in s.todo, NEW snap \in Seqs,
         SendInv(s, snap), s.pc = "locking"
  PROVE  SendInv(Onward(s, t, "look"), snap)
<1>1. CASE s.todo = {t}
  <2> DEFINE n == Onward(s, t, "look")
  <2>1. n = [s EXCEPT !.todo = s.targets, !.pc = "look"]
    BY <1>1 DEF Onward
  <2>2. n.todo = s.targets /\ n.pc = "look" /\ n.targets = s.targets /\ n.held = s.held
        /\ n.expected = s.expected /\ n.basis = s.basis /\ n.answer = s.answer
    BY <2>1 DEF CmdState
  <2> HIDE DEF n
  <2>3. SendInv(n, snap)
    BY <2>2 DEF SendInv, Delivering
  <2>4. QED
    BY <2>3 DEF n
<1>2. CASE s.todo # {t}
  <2> DEFINE n == Onward(s, t, "look")
  <2>1. n = [s EXCEPT !.todo = s.todo \ {t}]
    BY <1>2 DEF Onward
  <2>2. n.todo = s.todo \ {t} /\ n.pc = s.pc /\ n.targets = s.targets /\ n.held = s.held
        /\ n.expected = s.expected /\ n.basis = s.basis /\ n.answer = s.answer
    BY <2>1 DEF CmdState
  <2> HIDE DEF n
  <2>3. SendInv(n, snap)
    BY <2>2 DEF SendInv, Delivering
  <2>4. QED
    BY <2>3 DEF n
<1>3. QED
  BY <1>1, <1>2

LEMMA LookedKeeps ==
  ASSUME NEW s \in CmdState, NEW t \in s.todo, NEW snap \in Seqs,
         SendInv(s, snap), s.pc = "look", s.basis[t] <= s.expected[t]
  PROVE  SendInv(Onward(s, t, "transmit"), snap)
<1>1. CASE s.todo = {t}
  <2> DEFINE n == Onward(s, t, "transmit")
  <2>1. n = [s EXCEPT !.todo = s.targets, !.pc = "transmit"]
    BY <1>1 DEF Onward
  <2>2. n.todo = s.targets /\ n.pc = "transmit" /\ n.targets = s.targets /\ n.held = s.held
        /\ n.expected = s.expected /\ n.basis = s.basis /\ n.answer = s.answer
    BY <2>1 DEF CmdState
  <2>3. \A u \in s.targets : s.basis[u] <= s.expected[u]
    BY <1>1 DEF SendInv
  <2> HIDE DEF n
  <2>4. SendInv(n, snap)
    BY <2>2, <2>3 DEF SendInv, Delivering
  <2>5. QED
    BY <2>4 DEF n
<1>2. CASE s.todo # {t}
  <2> DEFINE n == Onward(s, t, "transmit")
  <2>1. n = [s EXCEPT !.todo = s.todo \ {t}]
    BY <1>2 DEF Onward
  <2>2. n.todo = s.todo \ {t} /\ n.pc = s.pc /\ n.targets = s.targets /\ n.held = s.held
        /\ n.expected = s.expected /\ n.basis = s.basis /\ n.answer = s.answer
    BY <2>1 DEF CmdState
  <2> HIDE DEF n
  <2>3. SendInv(n, snap)
    BY <2>2 DEF SendInv, Delivering
  <2>4. QED
    BY <2>3 DEF n
<1>3. QED
  BY <1>1, <1>2

LEMMA StepFreshness ==
  TypeOK /\ FreshnessInv /\ LockInv /\ [Next]_vars => FreshnessInv' /\ LockInv'
<1> SUFFICES ASSUME TypeOK, FreshnessInv, LockInv, [Next]_vars
             PROVE  FreshnessInv' /\ LockInv'
  OBVIOUS
<1> USE DEF vars, durable, memory, history
<1>0. /\ log \in Seq(Entries) /\ cmd \in [Cmds -> CmdState] /\ snapshot \in Seqs
      /\ snapshot' \in Seqs
  BY StepTypeOK DEF TypeOK
<1>a. \A t \in Threads : LatestNotifying(t) \in Nat
  BY <1>0, LatestTypes
<1>b. \A t \in Threads : snapshot[t] \in Nat /\ snapshot[t] <= snapshot[t]
  BY <1>0 DEF Seqs
<1>c. \A c \in Cmds : SendInv(cmd[c], snapshot) /\ cmd[c] \in CmdState
  BY <1>0 DEF FreshnessInv
<1>d. \A c \in Cmds : cmd[c].shown \in Seqs /\ cmd[c].expected \in Seqs
                       /\ cmd[c].basis \in Seqs /\ cmd[c].targets \subseteq Threads
  BY <1>c DEF CmdState
<1>1. ASSUME NEW c \in Cmds, NEW s \in CmdState, cmd' = [cmd EXCEPT ![c] = s],
             snapshot' = snapshot, lock' = lock, SendInv(s, snapshot),
             cmd[c].pc \in Delivering => s.pc \in Delivering
      PROVE  FreshnessInv' /\ LockInv'
  BY <1>0, <1>1, <1>b, OneMoves, LocksStay
<1>2. ASSUME UNCHANGED <<snapshot, lock, cmd>> PROVE FreshnessInv' /\ LockInv'
  BY <1>2 DEF FreshnessInv, LockInv, SendInv
<1>3. ASSUME Outside PROVE FreshnessInv' /\ LockInv'
  <2>1. CASE Restart
    <3>1. \A c \in Cmds : cmd'[c] = Idle
      BY <2>1 DEF Restart
    <3>2. SendInv(Idle, snapshot')
      BY DEF SendInv, Idle, Delivering
    <3>3. \A t \in Threads : lock'[t] = Free
      BY <2>1 DEF Restart
    <3>4. QED
      BY <3>1, <3>2, <3>3 DEF FreshnessInv, LockInv
  <2>2. CASE ~ Restart
    BY <1>2, <1>3, <2>2 DEF Outside, RecordInbound, ReviewContact, StrayEnds
  <2>3. QED
    BY <2>1, <2>2
<1>4. ASSUME NEW c \in Cmds, Begin(c) PROVE FreshnessInv' /\ LockInv'
  <2>0. cmd[c].pc = "idle" /\ UNCHANGED <<snapshot, lock>> /\ \E s : cmd' = [cmd EXCEPT ![c] = s]
    <3> DEFINE Begun == cmd[c].pc = "idle" /\ UNCHANGED <<snapshot, lock>>
                        /\ \E s : cmd' = [cmd EXCEPT ![c] = s]
    <3>1. ASSUME CheckMessages(c) PROVE Begun
      BY <3>1 DEF CheckMessages
    <3>2. ASSUME NEW t \in Threads, ReadMessages(c, t) PROVE Begun
      BY <3>2 DEF ReadMessages
    <3>3. ASSUME NEW t \in Threads, UnfollowResolves(c, t) PROVE Begun
      BY <3>3 DEF UnfollowResolves
    <3>4. ASSUME NEW k \in Keys, NEW d, SendStarts(c, k, d) PROVE Begun
      BY <3>4 DEF SendStarts
    <3>5. ASSUME NEW k \in Keys, SendNew(c, k) \/ SendDraft(c, k) PROVE Begun
      <4> HIDE DEF Begun
      <4> QED BY <3>4, <3>5 DEF SendNew, SendDraft
    <3> HIDE DEF Begun
    <3>6. Begun
      BY <1>4, <3>1, <3>2, <3>3, <3>5 DEF Begin
    <3> QED BY <3>6 DEF Begun
  <2>1. cmd[c].pc = "idle" /\ UNCHANGED <<snapshot, lock>>
    BY <2>0
  <2>2. \A s \in CmdState : cmd' = [cmd EXCEPT ![c] = s] => s = cmd'[c]
    BY <1>0
  <2>3. cmd'[c] \in CmdState /\ cmd' = [cmd EXCEPT ![c] = cmd'[c]]
    <3>1. cmd' \in [Cmds -> CmdState]
      BY StepTypeOK DEF TypeOK
    <3>2. QED
      BY <1>0, <2>0, <3>1
  <2>4. \/ cmd'[c].pc \in {"observe", "unfollow"} /\ cmd'[c].todo = {} /\ cmd'[c].held = {}
        \/ /\ cmd'[c].pc = "stage" /\ cmd'[c].todo = cmd'[c].targets /\ cmd'[c].held = {}
           /\ \A t \in Threads : cmd'[c].answer[t] = "none"
    <3>1. CASE CheckMessages(c)
      BY <1>0, <3>1 DEF CheckMessages, Idle
    <3>2. ASSUME NEW t \in Threads, ReadMessages(c, t) \/ UnfollowResolves(c, t)
          PROVE cmd'[c].pc \in {"observe", "unfollow"} /\ cmd'[c].todo = {} /\ cmd'[c].held = {}
      <4>1. CASE ReadMessages(c, t)
        BY <1>0, <4>1 DEF ReadMessages, Idle
      <4>2. CASE UnfollowResolves(c, t)
        BY <1>0, <4>2 DEF UnfollowResolves, Idle
      <4>3. QED
        BY <3>2, <4>1, <4>2
    <3>3. ASSUME NEW k \in Keys, NEW d, SendStarts(c, k, d)
          PROVE /\ cmd'[c].pc = "stage" /\ cmd'[c].todo = cmd'[c].targets /\ cmd'[c].held = {}
                /\ \A t \in Threads : cmd'[c].answer[t] = "none"
      BY <1>0, <3>3 DEF SendStarts, Idle
    <3>4. QED
      BY <1>4, <3>1, <3>2, <3>3 DEF Begin, SendNew, SendDraft
  <2>5. SendInv(cmd'[c], snapshot)
    BY <2>4 DEF SendInv, Delivering
  <2>6. QED
    BY <1>1, <2>1, <2>3, <2>5 DEF Delivering
<1>5. ASSUME NEW c \in Cmds, Observe(c) PROVE FreshnessInv' /\ LockInv'
  <2> DEFINE s == [cmd[c] EXCEPT !.pc = "reply"]
  <2>1. s \in CmdState /\ cmd' = [cmd EXCEPT ![c] = s] /\ cmd[c].pc = "observe" /\ lock' = lock
    BY <1>c, <1>5, PcType DEF Observe, Phases
  <2>2. snapshot' = Upto(snapshot, cmd[c].shown)
    BY <1>5 DEF Observe
  <2>3. \A t \in Threads : snapshot[t] <= snapshot'[t]
    BY <1>0, <1>d, <2>2, UptoType
  <2>4. SendInv(s, snapshot')
    BY <1>c, <2>1 DEF SendInv, CmdState, Delivering
  <2>5. FreshnessInv'
    BY <1>0, <2>1, <2>3, <2>4, OneMoves
  <2>6. LockInv'
    BY <2>1, LocksStay DEF Delivering
  <2>7. QED
    BY <2>5, <2>6
<1>6. ASSUME NEW c \in Cmds, Reply(c) PROVE FreshnessInv' /\ LockInv'
  <2>1. SendInv(Idle, snapshot)
    BY DEF SendInv, Idle, Delivering
  <2>2. QED
    BY <1>1, <1>6, <2>1, IdleType DEF Reply, Delivering
<1>7. ASSUME NEW c \in Cmds, NEW t \in Threads, StagePasses(c, t)
      PROVE  FreshnessInv' /\ LockInv'
  <2> DEFINE r == [cmd[c] EXCEPT !.expected = [@ EXCEPT ![t] = LatestNotifying(t)]]
             s == Staged(r, t)
  <2>1. cmd[c].pc = "stage" /\ t \in cmd[c].todo /\ LatestNotifying(t) <= snapshot[t]
    BY <1>7 DEF StagePasses, Fresh
  <2>2. r \in CmdState /\ s \in CmdState
    BY <1>a, <1>c, ExpectedType, StagedType
  <2>3. r.pc = "stage" /\ t \in r.todo /\ r.expected[t] <= snapshot[t]
    BY <1>c, <1>d, <2>1 DEF CmdState, Seqs
  <2>4. SendInv(r, snapshot)
    BY <1>c, <1>d, <2>1 DEF SendInv, CmdState, Seqs, Delivering
  <2>5. SendInv(s, snapshot)
    <3> HIDE DEF r
    <3> QED BY <1>0, <2>2, <2>3, <2>4, StagedKeeps
  <2>6. cmd' = [cmd EXCEPT ![c] = s] /\ UNCHANGED <<snapshot, lock>>
    BY <1>7 DEF StagePasses
  <2>7. QED
    BY <1>1, <2>1, <2>2, <2>5, <2>6 DEF Delivering
<1>8. ASSUME NEW c \in Cmds, NEW t \in Threads, StageHolds(c, t)
      PROVE  FreshnessInv' /\ LockInv'
  <2> DEFINE r == Holding(cmd[c], t, LatestNotifying(t))
             s == Staged(r, t)
  <2>1. cmd[c].pc = "stage" /\ t \in cmd[c].todo /\ LatestNotifying(t) > snapshot[t]
    BY <1>8, <1>a, <1>b DEF StageHolds, Fresh
  <2>2. r \in CmdState /\ s \in CmdState
    BY <1>a, <1>c, HoldingType, StagedType
  <2>3. \A u \in Threads : snapshot[u] <= snapshot'[u]
    BY <1>0, <1>8, <1>a, <1>b, <2>1 DEF StageHolds, Seqs
  <2>4. SendInv(cmd[c], snapshot')
    BY <1>0, <1>c, <2>3, SendInvMonotone
  <2>5. r.pc = "stage" /\ t \in r.todo /\ t \in r.held
    BY <1>c, <2>1 DEF Holding, CmdState
  <2>6. SendInv(r, snapshot')
    BY <1>c, <2>1, <2>4 DEF SendInv, Holding, CmdState, Delivering
  <2>7. SendInv(s, snapshot')
    <3> HIDE DEF r
    <3> QED BY <1>0, <2>2, <2>5, <2>6, StagedKeeps
  <2>8. cmd' = [cmd EXCEPT ![c] = s] /\ lock' = lock
    BY <1>8 DEF StageHolds
  <2>9. FreshnessInv'
    BY <1>0, <2>2, <2>3, <2>7, <2>8, OneMoves
  <2>10. LockInv'
    BY <2>1, <2>2, <2>8, LocksStay DEF Delivering
  <2>11. QED
    BY <2>9, <2>10
<1>9. ASSUME NEW c \in Cmds, NEW t \in Threads, TakeLock(c, t)
      PROVE  FreshnessInv' /\ LockInv'
  <2> DEFINE s == Onward(cmd[c], t, "look")
  <2>1. cmd[c].pc = "locking" /\ t \in cmd[c].todo /\ lock' = [lock EXCEPT ![t] = c]
        /\ cmd' = [cmd EXCEPT ![c] = s] /\ snapshot' = snapshot
    BY <1>9 DEF TakeLock, InIdOrder
  <2>2. s \in CmdState /\ s.pc \in Delivering
    <3>1. s \in CmdState
      BY <1>c, OnwardType DEF Phases
    <3>2. s.pc = "look" \/ s.pc = cmd[c].pc
      BY <1>c DEF Onward, CmdState
    <3>3. QED
      BY <2>1, <3>1, <3>2 DEF Delivering
  <2>3. SendInv(s, snapshot)
    BY <1>0, <1>c, <2>1, LockedKeeps
  <2>4. FreshnessInv'
    BY <1>0, <1>b, <2>1, <2>2, <2>3, OneMoves
  <2>5. LockInv'
    <3>1. SUFFICES ASSUME NEW u \in Threads, lock'[u] # Free
                   PROVE  cmd'[lock'[u]].pc \in Delivering
      BY DEF LockInv
    <3>2. lock \in [Threads -> Cmds \cup {Free}]
      BY DEF TypeOK
    <3>3. CASE lock'[u] = c
      BY <1>0, <2>1, <2>2, <3>3
    <3>4. CASE lock'[u] # c
      <4>1. lock'[u] = lock[u] /\ lock[u] \in Cmds
        BY <2>1, <3>1, <3>2, <3>4
      <4>2. cmd[lock[u]].pc \in Delivering
        BY <3>1, <4>1 DEF LockInv
      <4>3. QED
        BY <1>0, <2>1, <3>4, <4>1, <4>2
    <3>5. QED
      BY <3>3, <3>4
  <2>6. QED
    BY <2>4, <2>5
<1>10. ASSUME NEW c \in Cmds, NEW t \in Threads, LookPasses(c, t)
       PROVE  FreshnessInv' /\ LockInv'
  <2> DEFINE r == [cmd[c] EXCEPT !.basis = [@ EXCEPT ![t] = LatestNotifying(t)]]
             s == Onward(r, t, "transmit")
  <2>1. cmd[c].pc = "look" /\ t \in cmd[c].todo /\ LatestNotifying(t) <= cmd[c].expected[t]
        /\ cmd' = [cmd EXCEPT ![c] = s] /\ UNCHANGED <<snapshot, lock>>
    BY <1>10 DEF LookPasses, Fresh
  <2>2. r \in CmdState /\ s \in CmdState
    BY <1>a, <1>c, BasisType, OnwardType DEF Phases
  <2>3. r.pc = "look" /\ t \in r.todo /\ r.basis[t] <= r.expected[t]
    BY <1>c, <1>d, <2>1 DEF CmdState, Seqs
  <2>4. SendInv(r, snapshot)
    BY <1>c, <1>d, <2>1 DEF SendInv, CmdState, Seqs, Delivering
  <2>5. s.pc \in Delivering
    BY <2>2, <2>3 DEF Onward, Delivering, CmdState
  <2>6. SendInv(s, snapshot)
    <3> HIDE DEF r
    <3> QED BY <1>0, <2>2, <2>3, <2>4, LookedKeeps
  <2>7. QED
    BY <1>1, <2>1, <2>2, <2>5, <2>6
<1>11. ASSUME NEW c \in Cmds, NEW t \in Threads, LookHolds(c, t)
       PROVE  FreshnessInv' /\ LockInv'
  <2> DEFINE r == Holding(cmd[c], t, LatestNotifying(t))
             s == [r EXCEPT !.pc = "reply"]
  <2>1. cmd[c].pc = "look" /\ cmd' = [cmd EXCEPT ![c] = s] /\ lock' = Released(c)
    BY <1>11 DEF LookHolds
  <2>2. s \in CmdState
    BY <1>a, <1>c, HoldingType, PcType DEF Phases
  <2>3. \A u \in Threads : snapshot[u] <= snapshot'[u]
    BY <1>0, <1>11, <1>a, <1>b DEF LookHolds, Seqs
  <2>4. SendInv(s, snapshot')
    BY <1>c, <2>1 DEF SendInv, Holding, CmdState, Delivering
  <2>5. FreshnessInv'
    BY <1>0, <2>1, <2>2, <2>3, <2>4, OneMoves
  <2>6. LockInv'
    BY <2>1, <2>2, LocksGo
  <2>7. QED
    BY <2>5, <2>6
<1>12. ASSUME NEW c \in Cmds, NEW t \in Threads,
              (\E r \in Results : Transmit(c, t, r)) \/ Finalize(c, t)
       PROVE  FreshnessInv' /\ LockInv'
  <2>1. cmd' \in [Cmds -> CmdState]
    BY <1>12, StepTypeOK DEF TypeOK
  <2>2. cmd[c].pc = "transmit" /\ cmd' = [cmd EXCEPT ![c] = cmd'[c]] /\ cmd'[c] \in CmdState
        /\ UNCHANGED <<snapshot, lock>>
    BY <1>0, <1>12, <2>1 DEF Transmit, Finalize
  <2>3. /\ cmd'[c].pc = "transmit" /\ cmd'[c].targets = cmd[c].targets
        /\ cmd'[c].todo \subseteq cmd[c].todo /\ cmd'[c].held = cmd[c].held
        /\ cmd'[c].expected = cmd[c].expected /\ cmd'[c].basis = cmd[c].basis
    <3>1. CASE Finalize(c, t)
      <4>1. cmd'[c] = [cmd[c] EXCEPT !.todo = @ \ {t}]
        BY <1>0, <3>1 DEF Finalize
      <4>2. QED
        BY <4>1, <1>c, <2>2 DEF CmdState
    <3>2. CASE \E r \in Results : Transmit(c, t, r)
      <4>1. PICK r \in Results : Transmit(c, t, r)
        BY <3>2
      <4>2. cmd'[c] = [cmd[c] EXCEPT !.answer = [@ EXCEPT ![t] = r]]
        BY <1>0, <4>1 DEF Transmit
      <4>3. QED
        BY <4>2, <1>c, <2>2 DEF CmdState
    <3>3. QED
      BY <1>12, <3>1, <3>2
  <2>4. SendInv(cmd'[c], snapshot)
    BY <1>c, <2>2, <2>3 DEF SendInv, Delivering
  <2>5. QED
    BY <1>1, <2>2, <2>3, <2>4 DEF Delivering
<1>13. ASSUME NEW c \in Cmds, SendEnds(c) PROVE FreshnessInv' /\ LockInv'
  <2> DEFINE s == [cmd[c] EXCEPT !.pc = "reply"]
  <2>1. cmd[c].pc = "transmit" /\ cmd' = [cmd EXCEPT ![c] = s] /\ lock' = Released(c)
        /\ snapshot' = snapshot
    BY <1>13 DEF SendEnds
  <2>2. s \in CmdState
    BY <1>c, PcType DEF Phases
  <2>3. SendInv(s, snapshot)
    BY <1>c, <2>1 DEF SendInv, CmdState, Delivering
  <2>4. QED
    BY <1>0, <1>b, <2>1, <2>2, <2>3, OneMoves, LocksGo
<1>14. ASSUME NEW c \in Cmds, NEW t \in Threads, UnfollowSaves(c, t)
       PROVE  FreshnessInv' /\ LockInv'
  <2> DEFINE s == [cmd[c] EXCEPT !.pc = "reply"]
  <2>1. cmd[c].pc = "unfollow" /\ cmd' = [cmd EXCEPT ![c] = s] /\ UNCHANGED <<snapshot, lock>>
    BY <1>14 DEF UnfollowSaves
  <2>2. s \in CmdState
    BY <1>c, PcType DEF Phases
  <2>3. SendInv(s, snapshot)
    BY <1>c, <2>1 DEF SendInv, CmdState, Delivering
  <2>4. QED
    BY <1>1, <2>1, <2>2, <2>3 DEF Delivering
<1>15. ASSUME NEW c \in Cmds, Fails(c) PROVE FreshnessInv' /\ LockInv'
  <2>1. SendInv(cmd'[c], snapshot)
    BY <1>c, <1>15, FailsMove DEF SendInv, Delivering
  <2>2. QED
    BY <1>0, <1>b, <1>15, <2>1, FailsMove, OneMoves, LocksGo
<1>16. CASE UNCHANGED vars
  BY <1>2, <1>16
<1>17. QED
  BY <1>3, <1>4, <1>5, <1>6, <1>7, <1>8, <1>9, <1>10, <1>11, <1>12, <1>13, <1>14, <1>15, <1>16
     DEF Next, Proceed

LEMMA FreshnessImplies ==
  TypeOK /\ FreshnessInv /\ LockInv => SentOnAKnownConversation /\ HoldSendsNothing
<1> SUFFICES ASSUME TypeOK, FreshnessInv, LockInv
             PROVE  SentOnAKnownConversation /\ HoldSendsNothing
  OBVIOUS
<1>1. \A c \in Cmds : SendInv(cmd[c], snapshot) /\ cmd[c] \in CmdState
  BY DEF FreshnessInv, TypeOK
<1>2. SentOnAKnownConversation
  <2>1. SUFFICES ASSUME NEW c \in Cmds, cmd[c].pc = "transmit", NEW t \in cmd[c].targets
                 PROVE  cmd[c].basis[t] <= snapshot[t]
    BY DEF SentOnAKnownConversation
  <2>2. cmd[c].basis[t] <= cmd[c].expected[t] /\ cmd[c].expected[t] <= snapshot[t]
    BY <1>1, <2>1 DEF SendInv, Delivering
  <2>3. cmd[c].basis[t] \in Nat /\ cmd[c].expected[t] \in Nat /\ snapshot[t] \in Nat
    BY <1>1, <2>1 DEF CmdState, Seqs, TypeOK
  <2>4. QED
    BY <2>2, <2>3
<1>3. HoldSendsNothing
  <2>1. SUFFICES ASSUME NEW c \in Cmds, cmd[c].held # {}
                 PROVE  /\ \A t \in Threads : cmd[c].answer[t] = "none"
                        /\ cmd[c].pc = "reply" => \A t \in Threads : lock[t] # c
    BY DEF HoldSendsNothing
  <2>2. \A t \in Threads : cmd[c].answer[t] = "none"
    BY <1>1, <2>1 DEF SendInv
  <2>3. ASSUME cmd[c].pc = "reply", NEW t \in Threads PROVE lock[t] # c
    BY <2>3, FreeAssumption DEF LockInv, Delivering
  <2>4. QED
    BY <2>2, <2>3
<1>4. QED
  BY <1>2, <1>3

(* The safety of bcc message send, for every number of threads, commands    *)
(* and messages: nothing goes out on a conversation whose newest waking     *)
(* message this process has not put before the agent, and a hold anywhere   *)
(* means that nothing went out at all.                                      *)
THEOREM FreshSends == Spec => []SentOnAKnownConversation
<1>1. QED
  BY InitTypeOK, StepTypeOK, InitFreshness, StepFreshness, FreshnessImplies, PTL DEF Spec

(* "Something new in any of them holds the whole" (_deliver) *)
THEOREM HeldSends == Spec => []HoldSendsNothing
<1>1. QED
  BY InitTypeOK, StepTypeOK, InitFreshness, StepFreshness, FreshnessImplies, PTL DEF Spec

-----------------------------------------------------------------------------
(* Drafts *)

(* What a new draft, the end of a send and a restart do not touch stays *)
LEMMA DraftsMove ==
  ASSUME [Next]_vars
  PROVE  \/ drafts' = drafts
         \/ Restart
         \/ \E c \in Cmds, k \in Keys : SendNew(c, k)
         \/ \E c \in Cmds : SendEnds(c)
<1> USE DEF vars, durable, memory, history
<1>1. ASSUME Outside PROVE drafts' = drafts \/ Restart
  BY <1>1 DEF Outside, RecordInbound, ReviewContact, StrayEnds
<1>2. ASSUME NEW c \in Cmds, Begin(c) PROVE drafts' = drafts \/ \E k \in Keys : SendNew(c, k)
  BY <1>2 DEF Begin, CheckMessages, ReadMessages, UnfollowResolves, SendDraft
<1>3. ASSUME NEW c \in Cmds, Proceed(c) PROVE drafts' = drafts \/ SendEnds(c)
  BY <1>3 DEF Proceed, Observe, Reply, StagePasses, StageHolds, TakeLock, LookPasses,
              LookHolds, Transmit, Finalize, UnfollowSaves
<1>4. ASSUME NEW c \in Cmds, Fails(c) PROVE drafts' = drafts
  BY <1>4 DEF Fails, LookFails, FinalizeFails, SendFails
<1>5. QED
  BY <1>1, <1>2, <1>3, <1>4 DEF Next

LEMMA StepDrafts ==
  ASSUME TypeOK, [Next]_vars, NEW k \in Keys, drafts[k] # NoDraft, drafts'[k] = NoDraft
  PROVE  restarts' # restarts \/ drafts[k] \in settled'
<1>0. /\ drafts \in [Keys -> Nat] /\ cmd \in [Cmds -> CmdState]
      /\ restarts \in Nat /\ sends \in Nat
  BY DEF TypeOK
<1>1. CASE drafts' = drafts
  BY <1>1
<1>2. CASE Restart
  BY <1>0, <1>2 DEF Restart
<1>3. ASSUME NEW c \in Cmds, NEW l \in Keys, SendNew(c, l) PROVE FALSE
  <2>1. drafts' = [drafts EXCEPT ![l] = sends + 1]
    BY <1>3 DEF SendNew
  <2>2. QED
    BY <1>0, <2>1 DEF NoDraft
<1>4. ASSUME NEW c \in Cmds, SendEnds(c) PROVE drafts[k] \in settled'
  <2>1. drafts' = DraftsAfter(cmd[c])
    BY <1>4 DEF SendEnds
  <2>2. TookAll(cmd[c]) /\ drafts[cmd[c].targets] = cmd[c].draft /\ k = cmd[c].targets
    BY <1>0, <2>1 DEF DraftsAfter
  <2>3. QED
    BY <1>4, <2>2 DEF SendEnds
<1>5. QED
  BY <1>1, <1>2, <1>3, <1>4, DraftsMove

(* A draft is lost only to the end of the process or to a send that carried *)
(* it and whose channels all took it; _send (l. 841) compares the draft it  *)
(* carried with the one that waits before it lets go.                       *)
THEOREM DraftsAreKept == Spec => OnlyTakenDraftsGo
<1>1. TypeOK /\ [Next]_vars =>
         [\A k \in Keys : drafts[k] # NoDraft /\ drafts'[k] = NoDraft =>
             \/ restarts' # restarts
             \/ drafts[k] \in settled']_vars
  BY StepDrafts
<1>2. QED
  BY <1>1, TypeCorrect, PTL DEF Spec, OnlyTakenDraftsGo

-----------------------------------------------------------------------------
(* The listings of check *)

(* What a check has listed is behind the cursor, and the cursor is in the log *)
ListInv ==
    \A t \in Threads :
        /\ cursor[t] <= Len(log)
        /\ \A i \in Notifying(t) : drained[i] > 0 => i <= cursor[t]

(* What was listed of a thread before entry i *)
ListedBefore(t, i) == {j \in Notifying(t) : j < i /\ drained[j] > 0}

LEMMA NotifyingIn ==
  ASSUME log \in Seq(Entries), NEW t \in Threads
  PROVE  /\ Notifying(t) \subseteq Inbound(t) /\ Notifying(t) \subseteq 1 .. Len(log)
         /\ IsFiniteSet(Notifying(t)) /\ Len(log) \in Nat
         /\ LatestInbound(t) \in Nat /\ LatestInbound(t) <= Len(log)
         /\ \A i \in Notifying(t) : i <= LatestInbound(t)
<1>1. /\ Notifying(t) \subseteq Inbound(t) /\ Notifying(t) \subseteq 1 .. Len(log)
      /\ Inbound(t) \subseteq 1 .. Len(log) /\ Len(log) \in Nat
  BY DEF Notifying, Inbound
<1>2. IsFiniteSet(Notifying(t))
  <2>1. IsFiniteSet(1 .. Len(log))
    BY <1>1, FS_Interval
  <2>2. QED
    BY <1>1, <2>1, FS_Subset
<1>3. LatestInbound(t) \in Nat /\ \A i \in Inbound(t) : i <= LatestInbound(t)
  BY <1>1, MaxOrZeroBounded DEF LatestInbound
<1>4. LatestInbound(t) <= Len(log)
  <2>1. CASE Inbound(t) = {}
    BY <1>1, <2>1 DEF LatestInbound, MaxOrZero
  <2>2. CASE Inbound(t) # {}
    BY <1>1, <2>2, MaxOfBounded DEF LatestInbound, MaxOrZero
  <2>3. QED
    BY <2>1, <2>2
<1>5. QED
  BY <1>1, <1>2, <1>3, <1>4

(* Of a finite set of numbers the elements with fewer than n below them are *)
(* at least n in number before one with n below it: the cut at a limit.     *)
LEMMA CutIsFull ==
  ASSUME NEW U, U \subseteq Nat, IsFiniteSet(U), NEW n \in Nat, NEW i \in U,
         Cardinality({j \in U : j < i}) >= n
  PROVE  Cardinality({j \in U : j < i /\ Cardinality({k \in U : k < j}) < n}) >= n
<1> DEFINE Below(j) == {k \in U : k < j}
           Late == {j \in U : Cardinality(Below(j)) >= n}
           First == {j \in U : j < i /\ Cardinality(Below(j)) < n}
<1>0. \A j \in U : IsFiniteSet(Below(j)) /\ Cardinality(Below(j)) \in Nat
  BY FS_Subset, FS_CardinalityType
<1>1. Late \subseteq Nat /\ i \in Late
  OBVIOUS
<1>2. PICK m \in Late : \A j \in Late : ~ (j < m)
  <2>1. \E m \in Late : \A j \in Late : ~ (<<j, m>> \in OpToRel(<, Nat))
    <3> HIDE DEF Late
    <3> QED BY <1>1, NatLessThanWellFounded, WFMin
  <2>2. QED
    BY <1>1, <2>1 DEF OpToRel
<1>3. m \in U /\ m <= i /\ Cardinality(Below(m)) >= n
  BY <1>1, <1>2
<1>4. Below(m) \subseteq First
  <2>1. SUFFICES ASSUME NEW j \in Below(m) PROVE j \in First
    OBVIOUS
  <2>2. j \in U /\ j < m /\ j \notin Late
    BY <1>2
  <2>3. Cardinality(Below(j)) < n
    BY <1>0, <2>2
  <2>4. QED
    BY <1>3, <2>2, <2>3
<1>5. IsFiniteSet(First)
  BY FS_Subset
<1>6. Cardinality(Below(m)) <= Cardinality(First) /\ Cardinality(First) \in Nat
  BY <1>4, <1>5, FS_Subset, FS_CardinalityType
<1>7. Cardinality(First) >= n
  BY <1>0, <1>3, <1>6
<1>8. QED
  BY <1>7

(* An entry is appended: it is not behind the cursor, and all before it stays *)
LEMMA ListsGrow ==
  ASSUME TypeOK, ListInv, ListedOnceOrCut, NEW e \in Entries, log' = Append(log, e),
         drained' = Append(drained, 0), cursor' = cursor
  PROVE  ListInv' /\ ListedOnceOrCut'
<1>0. log \in Seq(Entries) /\ drained \in [1 .. Len(log) -> Nat] /\ cursor \in Seqs
      /\ Len(log) \in Nat
  BY DEF TypeOK
<1>1. /\ Len(log') = Len(log) + 1
      /\ \A i \in 1 .. Len(log) : log'[i] = log[i] /\ drained'[i] = drained[i]
      /\ drained'[Len(log) + 1] = 0
  BY <1>0, LogGrows
<1>2. SUFFICES ASSUME NEW t \in Threads
               PROVE  /\ cursor'[t] <= Len(log')
                      /\ \A i \in Notifying(t)' :
                            /\ drained'[i] > 0 => i <= cursor'[t]
                            /\ drained'[i] <= 1
                            /\ i <= cursor'[t] /\ drained'[i] = 0 =>
                                  Cardinality(ListedBefore(t, i)') >= CheckLimit
  BY DEF ListInv, ListedOnceOrCut, ListedBefore
<1>3. cursor[t] \in Nat /\ cursor[t] <= Len(log)
  BY <1>0 DEF ListInv, Seqs
<1>4. \A i \in 1 .. Len(log) : i \in Notifying(t)' <=> i \in Notifying(t)
  BY <1>0, <1>1 DEF Notifying, Inbound
<1>5. Notifying(t) \subseteq 1 .. Len(log) /\ Notifying(t)' \subseteq 1 .. Len(log) + 1
  BY <1>0, <1>1 DEF Notifying, Inbound
<1>a. cursor'[t] = cursor[t] /\ cursor'[t] <= Len(log')
  BY <1>0, <1>1, <1>3
<1>6. SUFFICES ASSUME NEW i \in Notifying(t)'
               PROVE  /\ drained'[i] > 0 => i <= cursor[t]
                      /\ drained'[i] <= 1
                      /\ i <= cursor[t] /\ drained'[i] = 0 =>
                            Cardinality(ListedBefore(t, i)') >= CheckLimit
  BY <1>a
<1>7. CASE i = Len(log) + 1
  BY <1>0, <1>1, <1>3, <1>7
<1>8. CASE i # Len(log) + 1
  <2>1. i \in 1 .. Len(log) /\ i \in Notifying(t) /\ drained'[i] = drained[i]
    BY <1>0, <1>1, <1>4, <1>5, <1>8
  <2>2. ListedBefore(t, i)' = ListedBefore(t, i)
    <3>1. \A j \in 1 .. Len(log) : j \in ListedBefore(t, i)' <=> j \in ListedBefore(t, i)
      BY <1>1, <1>4 DEF ListedBefore
    <3>2. ListedBefore(t, i)' \subseteq 1 .. Len(log) /\ ListedBefore(t, i) \subseteq 1 .. Len(log)
      BY <1>0, <1>5, <2>1 DEF ListedBefore
    <3>3. QED
      BY <3>1, <3>2
  <2>3. /\ drained[i] > 0 => i <= cursor[t]
        /\ drained[i] <= 1
        /\ i <= cursor[t] /\ drained[i] = 0 =>
              Cardinality(ListedBefore(t, i)) >= CheckLimit
    BY <2>1 DEF ListInv, ListedOnceOrCut, ListedBefore
  <2>4. QED
    BY <2>1, <2>2, <2>3
<1>9. QED
  BY <1>7, <1>8

(* A check lists what is unread up to its limit and passes over the rest *)
LEMMA ListsChecked ==
  ASSUME TypeOK, ListInv, ListedOnceOrCut, NEW c \in Cmds, CheckMessages(c)
  PROVE  ListInv' /\ ListedOnceOrCut'
<1> DEFINE reach == {t \in Threads : review[t] = "approved"}
           listed == UNION {Listed(t) : t \in reach}
<1>0. log \in Seq(Entries) /\ drained \in [1 .. Len(log) -> Nat] /\ cursor \in Seqs
      /\ Len(log) \in Nat /\ CheckLimit \in Nat
  BY BoundsAssumption DEF TypeOK
<1>1. /\ log' = log
      /\ \A t \in Threads : cursor'[t] = IF t \in reach THEN LatestInbound(t) ELSE cursor[t]
      /\ \A i \in 1 .. Len(log) : drained'[i] = drained[i] + (IF i \in listed THEN 1 ELSE 0)
  BY <1>0 DEF CheckMessages
<1>2. SUFFICES ASSUME NEW t \in Threads
               PROVE  /\ cursor'[t] <= Len(log)
                      /\ \A i \in Notifying(t) :
                            /\ drained'[i] > 0 => i <= cursor'[t]
                            /\ drained'[i] <= 1
                            /\ i <= cursor'[t] /\ drained'[i] = 0 =>
                                  Cardinality({j \in Notifying(t) : j < i /\ drained'[j] > 0})
                                     >= CheckLimit
  <2>1. \A t \in Threads : Notifying(t)' = Notifying(t)
    BY <1>1 DEF Notifying, Inbound
  <2>2. QED
    BY <1>1, <2>1 DEF ListInv, ListedOnceOrCut
<1>3. /\ Notifying(t) \subseteq 1 .. Len(log) /\ IsFiniteSet(Notifying(t))
      /\ LatestInbound(t) \in Nat /\ LatestInbound(t) <= Len(log)
      /\ \A i \in Notifying(t) : i <= LatestInbound(t)
      /\ cursor[t] \in Nat /\ cursor[t] <= Len(log)
  BY <1>0, NotifyingIn DEF ListInv, Seqs
<1>4. \A i \in Notifying(t) : i \in listed <=> t \in reach /\ i \in Listed(t)
  <2>1. \A u \in Threads : \A i \in Listed(u) : log[i].thread = u
    BY DEF Listed, Unread, Notifying, Inbound
  <2>2. \A i \in Notifying(t) : log[i].thread = t
    BY DEF Notifying, Inbound
  <2>3. QED
    BY <2>1, <2>2
<1>5. \A i \in Notifying(t) : i \in Listed(t) => i > cursor[t]
  BY DEF Listed, Unread
<1>6. \A i \in Notifying(t) :
        /\ i \in 1 .. Len(log) /\ drained[i] \in Nat
        /\ drained[i] > 0 => i <= cursor[t]
        /\ drained[i] <= 1
        /\ i <= cursor[t] /\ drained[i] = 0 =>
              Cardinality(ListedBefore(t, i)) >= CheckLimit
  BY <1>0, <1>3 DEF ListInv, ListedOnceOrCut, ListedBefore
<1> HIDE DEF reach, listed
<1>7. CASE t \notin reach
  <2>1. cursor'[t] = cursor[t] /\ \A i \in Notifying(t) : drained'[i] = drained[i]
    BY <1>1, <1>4, <1>6, <1>7
  <2>2. \A i \in Notifying(t) :
           {j \in Notifying(t) : j < i /\ drained'[j] > 0} = ListedBefore(t, i)
    BY <2>1 DEF ListedBefore
  <2>3. QED
    BY <1>3, <1>6, <2>1, <2>2
<1>8. CASE t \in reach
  <2>1. cursor'[t] = LatestInbound(t)
        /\ \A i \in Notifying(t) : drained'[i] = drained[i] + (IF i \in Listed(t) THEN 1 ELSE 0)
    BY <1>1, <1>4, <1>6, <1>8
  <2>2. \A i \in Notifying(t) : drained'[i] <= 1
    BY <1>3, <1>5, <1>6, <2>1
  <2>3. ASSUME NEW i \in Notifying(t), drained'[i] = 0
        PROVE  Cardinality({j \in Notifying(t) : j < i /\ drained'[j] > 0}) >= CheckLimit
    <3> DEFINE now == {j \in Notifying(t) : j < i /\ drained'[j] > 0}
    <3>0. drained[i] = 0 /\ i \notin Listed(t) /\ i \in Nat
      BY <1>6, <2>1, <2>3
    <3>1. IsFiniteSet(now)
      BY <1>3, FS_Subset
    <3>2. ASSUME NEW S, S \subseteq now, Cardinality(S) >= CheckLimit
          PROVE  Cardinality(now) >= CheckLimit
      <4>1. Cardinality(S) <= Cardinality(now) /\ IsFiniteSet(S)
        <5> HIDE DEF now
        <5>1. S \in SUBSET now
          BY <3>2
        <5>2. QED
          BY <3>1, <5>1, FS_Subset
      <4>2. Cardinality(S) \in Nat /\ Cardinality(now) \in Nat
        BY <3>1, <4>1, FS_CardinalityType
      <4>3. QED
        BY <1>0, <3>2, <4>1, <4>2
    <3>3. CASE i <= cursor[t]
      <4>1. Cardinality(ListedBefore(t, i)) >= CheckLimit
        BY <1>6, <3>0, <3>3
      <4>2. ListedBefore(t, i) \subseteq now
        <5>1. \A j \in Notifying(t) : drained[j] > 0 => drained'[j] > 0
          BY <1>6, <2>1
        <5>2. QED
          BY <5>1 DEF ListedBefore
      <4> HIDE DEF now
      <4>3. Cardinality(now) >= CheckLimit
        BY <3>2, <4>1, <4>2
      <4>4. QED
        BY <4>3 DEF now
    <3>4. CASE i > cursor[t]
      <4> DEFINE U == Unread(t)
                 first == {j \in U : j < i /\ Cardinality({k \in U : k < j}) < CheckLimit}
      <4>1. U \subseteq Nat /\ IsFiniteSet(U) /\ i \in U
        <5>1. U \subseteq Notifying(t) /\ i \in U
          BY <3>4 DEF Unread
        <5>2. QED
          BY <1>3, <5>1, FS_Subset
      <4>2. Cardinality({k \in U : k < i}) >= CheckLimit
        <5>1. ~ (Cardinality({k \in U : k < i}) < CheckLimit)
          BY <3>0, <4>1 DEF Listed
        <5>2. Cardinality({k \in U : k < i}) \in Nat
          BY <4>1, FS_Subset, FS_CardinalityType
        <5>3. QED
          BY <1>0, <5>1, <5>2
      <4>3. first \subseteq now
        BY <1>6, <2>1 DEF Listed, Unread
      <4>4. Cardinality(first) >= CheckLimit
        <5> HIDE DEF U
        <5>1. QED
          BY <1>0, <4>1, <4>2, CutIsFull
      <4> HIDE DEF first, now
      <4>5. Cardinality(now) >= CheckLimit
        BY <3>2, <4>3, <4>4
      <4>6. QED
        BY <4>5 DEF now
    <3>5. QED
      BY <1>3, <3>0, <3>3, <3>4
  <2>4. QED
    BY <1>3, <2>1, <2>2, <2>3
<1>9. QED
  BY <1>7, <1>8

LEMMA InitLists == Init => ListInv /\ ListedOnceOrCut
BY DEF Init, ListInv, ListedOnceOrCut, Notifying, Inbound, NoSeqs

LEMMA StepLists ==
  TypeOK /\ ListInv /\ ListedOnceOrCut /\ [Next]_vars => ListInv' /\ ListedOnceOrCut'
<1> SUFFICES ASSUME TypeOK, ListInv, ListedOnceOrCut, [Next]_vars
             PROVE  ListInv' /\ ListedOnceOrCut'
  OBVIOUS
<1> USE DEF vars, durable, memory, history
<1>1. ASSUME UNCHANGED <<log, drained, cursor>> PROVE ListInv' /\ ListedOnceOrCut'
  <2>1. \A t \in Threads : Notifying(t)' = Notifying(t)
    BY <1>1 DEF Notifying, Inbound
  <2>2. QED
    BY <1>1, <2>1 DEF ListInv, ListedOnceOrCut
<1>2. ASSUME NEW a \in Arrivals, RecordInbound(a) PROVE ListInv' /\ ListedOnceOrCut'
  <2> DEFINE e == [thread |-> a.thread, inbound |-> TRUE,
                   notifies |-> WakesAgent(a), readable |-> TRUE]
  <2>1. e \in Entries
    BY ArrivalsAssumption DEF Entries, WakesAgent
  <2>2. log' = Append(log, e) /\ drained' = Append(drained, 0) /\ cursor' = cursor
    BY <1>2 DEF RecordInbound
  <2> HIDE DEF e
  <2>3. QED
    BY <2>1, <2>2, ListsGrow
<1>w. ASSUME NEW t \in Threads, NEW answer, WrittenDown(t, answer), cursor' = cursor
      PROVE  ListInv' /\ ListedOnceOrCut'
  <2>1. \/ log' = log /\ drained' = drained
        \/ \E e \in Entries : log' = Append(log, e) /\ drained' = Append(drained, 0)
    BY <1>w, WritesOne DEF TypeOK
  <2>2. QED
    BY <1>1, <1>w, <2>1, ListsGrow
<1>3. ASSUME NEW c \in Cmds, NEW t \in Threads, Finalize(c, t)
      PROVE  ListInv' /\ ListedOnceOrCut'
  BY <1>3, <1>w DEF Finalize
<1>s. ASSUME NEW s \in strays, NEW r \in Results, StrayEnds(s, r)
      PROVE  ListInv' /\ ListedOnceOrCut'
  <2>1. s.thread \in Threads /\ cursor' = cursor
    BY <1>s DEF TypeOK, Strays, StrayEnds
  <2>2. QED
    BY <1>1, <1>s, <1>w, <2>1 DEF StrayEnds
<1>4. ASSUME Outside PROVE ListInv' /\ ListedOnceOrCut'
  BY <1>1, <1>2, <1>4, <1>s DEF Outside, ReviewContact, Restart
<1>5. ASSUME NEW c \in Cmds, Begin(c), ~ CheckMessages(c) PROVE UNCHANGED <<log, drained, cursor>>
  BY <1>5 DEF Begin, ReadMessages, UnfollowResolves, SendNew, SendDraft, SendStarts
<1>6. ASSUME NEW c \in Cmds, Proceed(c), ~ \E t \in Threads : Finalize(c, t)
      PROVE  UNCHANGED <<log, drained, cursor>>
  BY <1>6 DEF Proceed, Observe, Reply, StagePasses, StageHolds, TakeLock, LookPasses,
              LookHolds, Transmit, SendEnds, UnfollowSaves
<1>7. ASSUME NEW c \in Cmds, Fails(c) PROVE UNCHANGED <<log, drained, cursor>>
  BY <1>7, FailsMove
<1>8. QED
  BY <1>1, <1>3, <1>4, <1>5, <1>6, <1>7, ListsChecked DEF Next

(* A message is listed by one check at most, and one behind the cursor that *)
(* none has listed was cut off by a full listing of older ones, for every   *)
(* limit and however checks, arrivals and restarts interleave               *)
(* (check_messages, list_messages).                                         *)
THEOREM ListedOnce == Spec => []ListedOnceOrCut
<1>1. QED
  BY InitTypeOK, StepTypeOK, InitLists, StepLists, PTL DEF Spec

-----------------------------------------------------------------------------
(* One command at a time *)

(* The agent gives its next command when the last one has replied *)
OneAtATime == \A c, d \in Cmds : c = d

Sending == {"stage"} \cup Delivering

(* What replies have told the agent, or a hold's reply has left out         *)
Covered == Upto(told, hushed)

(* What the node has observed is covered, up to what the command that is    *)
(* about to reply has observed; a send that goes on was staged against the  *)
(* former.                                                                  *)
KnownTo(s, snap, known) ==
    /\ \A t \in Threads : snap[t] > known[t] =>
          /\ s.pc \in {"stage", "reply"} /\ snap[t] <= s.shown[t]
          /\ s.pc = "stage" => t \in s.held
    /\ s.pc = "stage" =>
          \A t \in s.targets \ (s.todo \cup s.held) : s.expected[t] <= known[t]
    /\ s.pc \in Delivering => \A t \in s.targets : s.expected[t] <= known[t]

KnownInv == \A c \in Cmds : KnownTo(cmd[c], snapshot, Covered)

(* Between its beginning and its end a send is the only one told anything   *)
KnewInv == \A c \in Cmds : cmd[c].pc \in Sending => cmd[c].knew = told

(* The last thread of a phase leads into the next one, any other stays in it *)
LEMMA OnwardCases ==
  ASSUME NEW s \in CmdState, NEW t \in Threads, NEW p \in Phases
  PROVE  LET n == Onward(s, t, p) IN
         /\ n \in CmdState
         /\ \/ s.todo = {t} /\ n.pc = p /\ n.todo = s.targets
            \/ s.todo # {t} /\ n.pc = s.pc /\ n.todo = s.todo \ {t}
         /\ n.targets = s.targets /\ n.draft = s.draft /\ n.held = s.held
         /\ n.expected = s.expected /\ n.answer = s.answer /\ n.knew = s.knew
         /\ n.shown = s.shown /\ n.basis = s.basis
<1>1. CASE s.todo = {t}
  <2>1. Onward(s, t, p) = [s EXCEPT !.todo = s.targets, !.pc = p]
    BY <1>1 DEF Onward
  <2>2. QED
    BY <1>1, <2>1, OnwardType DEF CmdState
<1>2. CASE s.todo # {t}
  <2>1. Onward(s, t, p) = [s EXCEPT !.todo = s.todo \ {t}]
    BY <1>2 DEF Onward
  <2>2. QED
    BY <1>2, <2>1, OnwardType DEF CmdState
<1>3. QED
  BY <1>1, <1>2

LEMMA StagedKnown ==
  ASSUME NEW s \in CmdState, NEW t \in s.todo, NEW snap \in Seqs, NEW known \in Seqs,
         s.targets \subseteq Threads, s.todo \subseteq s.targets, s.pc = "stage",
         KnownTo(s, snap, known), t \in s.held \/ s.expected[t] <= known[t]
  PROVE  KnownTo(Staged(s, t), snap, known)
<1> DEFINE next == IF s.held = {} THEN "locking" ELSE "reply"
           n == Onward(s, t, next)
<1>1. next \in Phases /\ t \in Threads
  BY DEF Phases
<1>2. /\ \/ s.todo = {t} /\ n.pc = next /\ n.todo = s.targets
         \/ s.todo # {t} /\ n.pc = s.pc /\ n.todo = s.todo \ {t}
      /\ n.targets = s.targets /\ n.held = s.held /\ n.expected = s.expected
      /\ n.knew = s.knew /\ n.shown = s.shown
  <2> HIDE DEF next
  <2> QED BY <1>1, OnwardCases
<1>3. n = Staged(s, t)
  BY DEF Staged
<1> HIDE DEF n
<1>4. KnownTo(n, snap, known)
  BY <1>2 DEF KnownTo, Sending, Delivering
<1>5. QED
  BY <1>3, <1>4

(* No step of a command but its beginning gives it threads and a draft *)
LEMMA CarriesOn ==
  ASSUME TypeOK, NEW c \in Cmds, Proceed(c), cmd'[c].pc \in Sending
  PROVE  /\ cmd[c].pc \in Sending /\ ~ SendEnds(c) /\ ~ Reply(c)
         /\ cmd'[c].targets = cmd[c].targets /\ cmd'[c].draft = cmd[c].draft
         /\ cmd'[c].knew = cmd[c].knew
<1>0. /\ log \in Seq(Entries) /\ cmd \in [Cmds -> CmdState] /\ cmd[c] \in CmdState
  BY DEF TypeOK
<1>a. \A t \in Threads : LatestNotifying(t) \in Nat
  BY <1>0, LatestTypes
<1>b. {"locking", "look", "transmit", "reply"} \subseteq Phases
  BY DEF Phases
<1> DEFINE Kept == /\ cmd[c].pc \in Sending
                   /\ cmd'[c].targets = cmd[c].targets /\ cmd'[c].draft = cmd[c].draft
                   /\ cmd'[c].knew = cmd[c].knew
<1>1. ASSUME Observe(c) \/ Reply(c) \/ SendEnds(c) \/ \E t \in Threads : UnfollowSaves(c, t)
      PROVE  FALSE
  <2>1. cmd'[c].pc \in {"reply", "idle"}
    BY <1>0, <1>1 DEF Observe, Reply, SendEnds, UnfollowSaves, CmdState, Idle
  <2>2. QED
    BY <2>1 DEF Sending, Delivering
<1>2. ASSUME NEW t \in Threads, StagePasses(c, t) PROVE Kept
  <2> DEFINE r == [cmd[c] EXCEPT !.expected = [@ EXCEPT ![t] = LatestNotifying(t)]]
             next == IF r.held = {} THEN "locking" ELSE "reply"
  <2>1. cmd[c].pc = "stage" /\ cmd'[c] = Onward(r, t, next)
    BY <1>0, <1>2 DEF StagePasses, Staged
  <2>2. r \in CmdState /\ r.targets = cmd[c].targets /\ r.draft = cmd[c].draft
        /\ r.knew = cmd[c].knew
    BY <1>0, <1>a, ExpectedType DEF CmdState
  <2>3. next \in Phases
    BY <1>b
  <2> HIDE DEF r, next
  <2>4. QED
    BY <2>1, <2>2, <2>3, OnwardCases DEF Sending
<1>3. ASSUME NEW t \in Threads, StageHolds(c, t) PROVE Kept
  <2> DEFINE r == Holding(cmd[c], t, LatestNotifying(t))
             next == IF r.held = {} THEN "locking" ELSE "reply"
  <2>1. cmd[c].pc = "stage" /\ cmd'[c] = Onward(r, t, next)
    BY <1>0, <1>3 DEF StageHolds, Staged
  <2>2. r \in CmdState /\ r.targets = cmd[c].targets /\ r.draft = cmd[c].draft
        /\ r.knew = cmd[c].knew
    BY <1>0, <1>a, HoldingType DEF CmdState, Holding
  <2>3. next \in Phases
    BY <1>b
  <2> HIDE DEF r, next
  <2>4. QED
    BY <2>1, <2>2, <2>3, OnwardCases DEF Sending
<1>4. ASSUME NEW t \in Threads, TakeLock(c, t) PROVE Kept
  <2>1. cmd[c].pc = "locking" /\ cmd'[c] = Onward(cmd[c], t, "look")
    BY <1>0, <1>4 DEF TakeLock
  <2>2. QED
    BY <1>0, <1>b, <2>1, OnwardCases DEF Sending, Delivering
<1>5. ASSUME NEW t \in Threads, LookPasses(c, t) PROVE Kept
  <2> DEFINE r == [cmd[c] EXCEPT !.basis = [@ EXCEPT ![t] = LatestNotifying(t)]]
  <2>1. cmd[c].pc = "look" /\ cmd'[c] = Onward(r, t, "transmit")
    BY <1>0, <1>5 DEF LookPasses
  <2>2. r \in CmdState /\ r.targets = cmd[c].targets /\ r.draft = cmd[c].draft
        /\ r.knew = cmd[c].knew
    BY <1>0, <1>a, BasisType DEF CmdState
  <2> HIDE DEF r
  <2>3. QED
    BY <1>b, <2>1, <2>2, OnwardCases DEF Sending, Delivering
<1>6. ASSUME NEW t \in Threads, LookHolds(c, t) PROVE FALSE
  <2>1. cmd'[c] = [Holding(cmd[c], t, LatestNotifying(t)) EXCEPT !.pc = "reply"]
    BY <1>0, <1>6 DEF LookHolds
  <2>2. cmd'[c].pc = "reply"
    BY <1>0, <2>1 DEF Holding, CmdState
  <2>3. QED
    BY <2>2 DEF Sending, Delivering
<1>7. ASSUME NEW t \in Threads, (\E r \in Results : Transmit(c, t, r)) \/ Finalize(c, t) PROVE Kept
  <2>1. cmd[c].pc = "transmit"
        /\ \/ \E r \in Results : cmd'[c] = [cmd[c] EXCEPT !.answer = [@ EXCEPT ![t] = r]]
           \/ cmd'[c] = [cmd[c] EXCEPT !.todo = @ \ {t}]
    BY <1>0, <1>7 DEF Transmit, Finalize
  <2>2. cmd'[c].targets = cmd[c].targets /\ cmd'[c].draft = cmd[c].draft /\ cmd'[c].knew = cmd[c].knew
    BY <1>0, <2>1 DEF CmdState
  <2>3. QED
    BY <2>1, <2>2 DEF Sending, Delivering
<1> HIDE DEF Kept
<1>8. Kept /\ ~ SendEnds(c) /\ ~ Reply(c)
  BY <1>1, <1>2, <1>3, <1>4, <1>5, <1>6, <1>7 DEF Proceed
<1>9. QED
  BY <1>8 DEF Kept

LEMMA InitKnown == Init => KnownInv
BY DEF Init, KnownInv, KnownTo, Covered, Upto, Sending, Delivering, Idle, NoSeqs

LEMMA StepKnown ==
  ASSUME OneAtATime, TypeOK, FreshnessInv, KnownInv, [Next]_vars
  PROVE  KnownInv'
<1> USE DEF vars, durable, memory, history
<1>0. /\ log \in Seq(Entries) /\ cmd \in [Cmds -> CmdState] /\ cmd' \in [Cmds -> CmdState]
      /\ snapshot \in Seqs /\ snapshot' \in Seqs /\ Covered \in Seqs /\ Covered' \in Seqs
      /\ told \in Seqs /\ hushed \in Seqs
  BY StepTypeOK, UptoType DEF TypeOK, Covered
<1>a. \A t \in Threads : /\ LatestNotifying(t) \in Nat /\ snapshot[t] \in Nat /\ Covered[t] \in Nat
  BY <1>0, LatestTypes DEF Seqs
<1>b. \A c \in Cmds : /\ KnownTo(cmd[c], snapshot, Covered) /\ SendInv(cmd[c], snapshot)
                      /\ cmd[c] \in CmdState /\ cmd[c].targets \subseteq Threads
                      /\ cmd[c].shown \in Seqs /\ cmd[c].expected \in Seqs
                      /\ cmd[c].basis \in Seqs
  BY <1>0 DEF KnownInv, FreshnessInv, CmdState
<1>1. ASSUME NEW c \in Cmds, KnownTo(cmd'[c], snapshot', Covered') PROVE KnownInv'
  BY <1>1 DEF KnownInv, OneAtATime
<1>2. ASSUME UNCHANGED <<snapshot, Covered, cmd>> PROVE KnownInv'
  BY <1>2 DEF KnownInv
<1>3. ASSUME Outside PROVE KnownInv'
  <2>1. CASE Restart
    <3>1. /\ \A c \in Cmds : cmd'[c] = Idle
          /\ \A t \in Threads : snapshot'[t] = 0
          /\ Covered' = Covered
      BY <2>1 DEF Restart, NoSeqs, Covered
    <3>2. \A t \in Threads : ~ (snapshot'[t] > Covered'[t])
      BY <1>a, <3>1
    <3>3. Idle.pc = "idle"
      BY DEF Idle
    <3>4. QED
      BY <3>1, <3>2, <3>3 DEF KnownInv, KnownTo, Sending, Delivering
  <2>2. CASE ~ Restart
    BY <1>2, <1>3, <2>2 DEF Outside, RecordInbound, ReviewContact, StrayEnds, Covered
  <2>3. QED
    BY <2>1, <2>2
<1>4. ASSUME NEW c \in Cmds, Begin(c) PROVE KnownInv'
  <2>1. /\ cmd[c].pc = "idle" /\ UNCHANGED <<snapshot, Covered>>
        /\ \/ cmd'[c].pc \in {"observe", "unfollow"}
           \/ cmd'[c].pc = "stage" /\ cmd'[c].todo = cmd'[c].targets
    <3> DEFINE Begun == /\ cmd[c].pc = "idle" /\ UNCHANGED <<snapshot, Covered>>
                        /\ \/ cmd'[c].pc \in {"observe", "unfollow"}
                           \/ cmd'[c].pc = "stage" /\ cmd'[c].todo = cmd'[c].targets
    <3>1. ASSUME CheckMessages(c) PROVE Begun
      BY <1>0, <3>1 DEF CheckMessages, Idle, Covered
    <3>2. ASSUME NEW t \in Threads, ReadMessages(c, t) PROVE Begun
      BY <1>0, <3>2 DEF ReadMessages, Idle, Covered
    <3>3. ASSUME NEW t \in Threads, UnfollowResolves(c, t) PROVE Begun
      BY <1>0, <3>3 DEF UnfollowResolves, Idle, Covered
    <3>4. ASSUME NEW k \in Keys, NEW d, SendStarts(c, k, d) PROVE Begun
      BY <1>0, <3>4 DEF SendStarts, Idle, Covered
    <3>5. ASSUME NEW k \in Keys, SendNew(c, k) \/ SendDraft(c, k) PROVE Begun
      <4> HIDE DEF Begun
      <4> QED BY <3>4, <3>5 DEF SendNew, SendDraft
    <3> HIDE DEF Begun
    <3>6. Begun
      BY <1>4, <3>1, <3>2, <3>3, <3>5 DEF Begin
    <3> QED BY <3>6 DEF Begun
  <2>2. \A t \in Threads : ~ (snapshot'[t] > Covered'[t])
    BY <1>b, <2>1 DEF KnownTo
  <2>3. KnownTo(cmd'[c], snapshot', Covered')
    BY <2>1, <2>2 DEF KnownTo, Sending, Delivering
  <2>4. QED
    BY <1>1, <2>3
<1>5. ASSUME NEW c \in Cmds, Observe(c) PROVE KnownInv'
  <2>1. cmd[c].pc = "observe" /\ cmd'[c] = [cmd[c] EXCEPT !.pc = "reply"] /\ Covered' = Covered
    BY <1>0, <1>5 DEF Observe, Covered
  <2>2. cmd'[c].pc = "reply" /\ cmd'[c].shown = cmd[c].shown
    BY <1>b, <2>1 DEF CmdState
  <2>3. \A t \in Threads : snapshot'[t] > Covered[t] => snapshot'[t] <= cmd[c].shown[t]
    <3>1. \A t \in Threads : ~ (snapshot[t] > Covered[t]) /\ cmd[c].shown[t] \in Nat
      BY <1>b, <2>1 DEF KnownTo, Seqs
    <3>2. \A t \in Threads : snapshot'[t] = snapshot[t] \/ snapshot'[t] = cmd[c].shown[t]
      BY <1>5 DEF Observe, Upto
    <3>3. QED
      BY <3>1, <3>2
  <2>4. KnownTo(cmd'[c], snapshot', Covered')
    BY <2>1, <2>2, <2>3 DEF KnownTo, Sending, Delivering
  <2>5. QED
    BY <1>1, <2>4
<1>6. ASSUME NEW c \in Cmds, Reply(c) PROVE KnownInv'
  <2>1. cmd[c].pc = "reply" /\ cmd'[c].pc = "idle" /\ snapshot' = snapshot
    BY <1>0, <1>6 DEF Reply, Idle
  <2>2. \A t \in Threads : ~ (snapshot[t] > Covered'[t])
    <3>1. SUFFICES ASSUME NEW t \in Threads PROVE snapshot[t] <= Covered'[t]
      BY <1>0, <1>a DEF Seqs
    <3>2. cmd[c].shown[t] \in Nat /\ (snapshot[t] > Covered[t] => snapshot[t] <= cmd[c].shown[t])
      BY <1>b DEF KnownTo, Seqs
    <3>3. Covered[t] <= Covered'[t] /\ cmd[c].shown[t] <= Covered'[t] /\ Covered'[t] \in Nat
      <4>1. told[t] \in Nat /\ hushed[t] \in Nat /\ cmd[c].shown[t] \in Nat
        BY <1>0, <1>b DEF Seqs
      <4>2. /\ told' = Upto(told, Within(cmd[c].shown, Threads \ cmd[c].mute))
            /\ hushed' = Upto(hushed, Within(cmd[c].shown, cmd[c].mute))
        BY <1>6 DEF Reply
      <4>3. QED
        BY <4>1, <4>2 DEF Covered, Upto, Within
    <3>4. QED
      BY <1>a, <3>2, <3>3
  <2>3. KnownTo(cmd'[c], snapshot', Covered')
    BY <2>1, <2>2 DEF KnownTo, Sending, Delivering
  <2>4. QED
    BY <1>1, <2>3
<1>7. ASSUME NEW c \in Cmds, NEW t \in Threads, StagePasses(c, t) PROVE KnownInv'
  <2> DEFINE r == [cmd[c] EXCEPT !.expected = [@ EXCEPT ![t] = LatestNotifying(t)]]
  <2>1. cmd[c].pc = "stage" /\ t \in cmd[c].todo /\ LatestNotifying(t) <= snapshot[t]
        /\ cmd'[c] = Staged(r, t) /\ UNCHANGED <<snapshot, Covered>>
    BY <1>0, <1>7 DEF StagePasses, Fresh, Covered
  <2>2. r \in CmdState
    BY <1>a, <1>b, ExpectedType
  <2>3. /\ r.pc = "stage" /\ r.todo = cmd[c].todo /\ r.targets = cmd[c].targets
        /\ r.held = cmd[c].held /\ r.shown = cmd[c].shown
        /\ r.expected = [cmd[c].expected EXCEPT ![t] = LatestNotifying(t)]
    BY <1>b, <2>1 DEF CmdState
  <2>4. \A u \in Threads : u # t => r.expected[u] = cmd[c].expected[u]
    BY <1>b, <2>3 DEF Seqs
  <2>5. r.expected[t] = LatestNotifying(t)
    BY <1>b, <2>3 DEF Seqs
  <2>6. cmd[c].todo \subseteq cmd[c].targets
    BY <1>b DEF SendInv
  <2> HIDE DEF r
  <2>7. t \in r.held \/ r.expected[t] <= Covered[t]
    <3>1. snapshot[t] > Covered[t] => t \in cmd[c].held
      BY <1>b, <2>1 DEF KnownTo
    <3>2. QED
      BY <1>a, <2>1, <2>3, <2>5, <3>1
  <2>8. KnownTo(r, snapshot, Covered)
    <3>1. KnownTo(cmd[c], snapshot, Covered)
      BY <1>b
    <3>2. \A u \in r.targets \ (r.todo \cup r.held) : r.expected[u] <= Covered[u]
      BY <1>b, <2>1, <2>3, <2>4, <3>1 DEF KnownTo
    <3>3. QED
      BY <2>1, <2>3, <3>1, <3>2 DEF KnownTo, Sending, Delivering
  <2>9. KnownTo(Staged(r, t), snapshot, Covered)
    BY <1>0, <1>b, <2>1, <2>2, <2>3, <2>6, <2>7, <2>8, StagedKnown
  <2>10. QED
    BY <1>1, <2>1, <2>9
<1>8. ASSUME NEW c \in Cmds, NEW t \in Threads, StageHolds(c, t) PROVE KnownInv'
  <2> DEFINE r == Holding(cmd[c], t, LatestNotifying(t))
  <2>1. cmd[c].pc = "stage" /\ t \in cmd[c].todo /\ Covered' = Covered
        /\ cmd'[c] = Staged(r, t)
        /\ snapshot' = [snapshot EXCEPT ![t] = LatestNotifying(t)]
    BY <1>0, <1>8 DEF StageHolds, Covered
  <2>2. r \in CmdState
    BY <1>a, <1>b, HoldingType
  <2>3. /\ r.pc = "stage" /\ r.todo = cmd[c].todo /\ r.targets = cmd[c].targets
        /\ r.held = cmd[c].held \cup {t}
        /\ r.expected = cmd[c].expected
        /\ r.shown = [cmd[c].shown EXCEPT ![t] = LatestNotifying(t)]
    BY <1>b, <2>1 DEF CmdState, Holding
  <2>4. \A u \in Threads : u # t => r.shown[u] = cmd[c].shown[u] /\ snapshot'[u] = snapshot[u]
    BY <1>0, <1>b, <2>1, <2>3 DEF Seqs
  <2>5. r.shown[t] = LatestNotifying(t) /\ snapshot'[t] = LatestNotifying(t)
    BY <1>0, <1>b, <2>1, <2>3 DEF Seqs
  <2>6. cmd[c].todo \subseteq cmd[c].targets
    BY <1>b DEF SendInv
  <2> HIDE DEF r
  <2>7. KnownTo(r, snapshot', Covered)
    <3>1. KnownTo(cmd[c], snapshot, Covered)
      BY <1>b
    <3>2. ASSUME NEW u \in Threads, snapshot'[u] > Covered[u]
          PROVE  snapshot'[u] <= r.shown[u] /\ u \in r.held
      <4>1. CASE u = t
        BY <1>a, <2>3, <2>5, <4>1
      <4>2. CASE u # t
        BY <2>1, <2>3, <2>4, <3>1, <3>2, <4>2 DEF KnownTo
      <4>3. QED
        BY <4>1, <4>2
    <3>3. \A u \in r.targets \ (r.todo \cup r.held) : r.expected[u] <= Covered[u]
      BY <2>1, <2>3, <3>1 DEF KnownTo
    <3>4. QED
      BY <2>1, <2>3, <3>1, <3>2, <3>3 DEF KnownTo, Sending, Delivering
  <2>8. KnownTo(Staged(r, t), snapshot', Covered)
    BY <1>0, <1>b, <2>1, <2>2, <2>3, <2>6, <2>7, StagedKnown
  <2>9. QED
    BY <1>1, <2>1, <2>8
<1>9. ASSUME NEW c \in Cmds, cmd[c].pc \in Delivering, cmd'[c].pc \in Delivering,
             UNCHANGED <<snapshot, Covered>>, cmd'[c].targets = cmd[c].targets,
             cmd'[c].expected = cmd[c].expected
      PROVE  KnownInv'
  <2>1. KnownTo(cmd[c], snapshot, Covered)
    BY <1>b
  <2>2. KnownTo(cmd'[c], snapshot', Covered')
    BY <1>9, <2>1 DEF KnownTo, Sending, Delivering
  <2>3. QED
    BY <1>1, <2>2
<1>10. ASSUME NEW c \in Cmds, NEW t \in Threads, TakeLock(c, t) PROVE KnownInv'
  <2>1. cmd[c].pc = "locking" /\ cmd'[c] = Onward(cmd[c], t, "look") /\ UNCHANGED <<snapshot, Covered>>
    BY <1>0, <1>10 DEF TakeLock, Covered
  <2>2. "look" \in Phases
    BY DEF Phases
  <2>3. /\ cmd'[c].pc \in {"look", "locking"} /\ cmd'[c].targets = cmd[c].targets
        /\ cmd'[c].expected = cmd[c].expected
    BY <1>b, <2>1, <2>2, OnwardCases
  <2>4. QED
    BY <1>9, <2>1, <2>3 DEF Delivering
<1>11. ASSUME NEW c \in Cmds, NEW t \in Threads, LookPasses(c, t) PROVE KnownInv'
  <2> DEFINE r == [cmd[c] EXCEPT !.basis = [@ EXCEPT ![t] = LatestNotifying(t)]]
  <2>1. cmd[c].pc = "look" /\ cmd'[c] = Onward(r, t, "transmit") /\ UNCHANGED <<snapshot, Covered>>
    BY <1>0, <1>11 DEF LookPasses, Covered
  <2>2. "transmit" \in Phases /\ r \in CmdState
    BY <1>a, <1>b, BasisType DEF Phases
  <2>3. /\ r.pc = cmd[c].pc /\ r.targets = cmd[c].targets
        /\ r.expected = cmd[c].expected
    BY <1>b DEF CmdState
  <2> HIDE DEF r
  <2>4. /\ cmd'[c].pc \in {"look", "transmit"} /\ cmd'[c].targets = r.targets
        /\ cmd'[c].expected = r.expected
    BY <2>1, <2>2, <2>3, OnwardCases
  <2>5. QED
    BY <1>9, <2>1, <2>3, <2>4 DEF Delivering
<1>12. ASSUME NEW c \in Cmds, NEW t \in Threads, LookHolds(c, t) PROVE KnownInv'
  <2>1. cmd[c].pc = "look" /\ Covered' = Covered
        /\ cmd'[c] = [Holding(cmd[c], t, LatestNotifying(t)) EXCEPT !.pc = "reply"]
    BY <1>0, <1>12 DEF LookHolds, Covered
  <2>2. cmd'[c].pc = "reply" /\ cmd'[c].shown = [cmd[c].shown EXCEPT ![t] = LatestNotifying(t)]
    BY <1>b, <2>1 DEF CmdState, Holding
  <2>3. cmd'[c].shown[t] = LatestNotifying(t)
    BY <1>b, <2>2 DEF Seqs
  <2>4. \A u \in Threads : ~ (snapshot[u] > Covered[u])
    BY <1>b, <2>1 DEF KnownTo
  <2>5. \A u \in Threads : snapshot'[u] > Covered[u] =>
           u = t /\ snapshot'[u] = LatestNotifying(t)
    BY <1>0, <1>12, <2>4 DEF LookHolds, Seqs
  <2>6. \A u \in Threads : snapshot'[u] > Covered[u] => snapshot'[u] <= cmd'[c].shown[u]
    BY <1>a, <2>3, <2>5
  <2>7. KnownTo(cmd'[c], snapshot', Covered')
    BY <2>1, <2>2, <2>6 DEF KnownTo, Sending, Delivering
  <2>8. QED
    BY <1>1, <2>7
<1>13. ASSUME NEW c \in Cmds, NEW t \in Threads, NEW r \in Results, Transmit(c, t, r)
       PROVE  KnownInv'
  <2>1. cmd[c].pc = "transmit" /\ UNCHANGED <<snapshot, Covered>>
        /\ cmd'[c] = [cmd[c] EXCEPT !.answer = [@ EXCEPT ![t] = r]]
    BY <1>0, <1>13 DEF Transmit, Covered
  <2>2. /\ cmd'[c].pc = "transmit" /\ cmd'[c].targets = cmd[c].targets
        /\ cmd'[c].expected = cmd[c].expected
    BY <1>b, <2>1 DEF CmdState
  <2>3. QED
    BY <1>9, <2>1, <2>2 DEF Delivering
<1>14. ASSUME NEW c \in Cmds, NEW t \in Threads, Finalize(c, t) PROVE KnownInv'
  <2>1. cmd[c].pc = "transmit" /\ UNCHANGED <<snapshot, Covered>>
        /\ cmd'[c] = [cmd[c] EXCEPT !.todo = @ \ {t}]
    BY <1>0, <1>14 DEF Finalize, Covered
  <2>2. /\ cmd'[c].pc = "transmit" /\ cmd'[c].targets = cmd[c].targets
        /\ cmd'[c].expected = cmd[c].expected
    BY <1>b, <2>1 DEF CmdState
  <2>3. QED
    BY <1>9, <2>1, <2>2 DEF Delivering
<1>15. ASSUME NEW c \in Cmds, SendEnds(c) \/ \E t \in Threads : UnfollowSaves(c, t)
       PROVE  KnownInv'
  <2>1. cmd[c].pc \in {"transmit", "unfollow"} /\ UNCHANGED <<snapshot, Covered>>
        /\ cmd'[c] = [cmd[c] EXCEPT !.pc = "reply"]
    BY <1>0, <1>15 DEF SendEnds, UnfollowSaves, Covered
  <2>2. cmd'[c].pc = "reply"
    BY <1>b, <2>1 DEF CmdState
  <2>3. \A u \in Threads : ~ (snapshot[u] > Covered[u])
    BY <1>b, <2>1 DEF KnownTo
  <2>4. KnownTo(cmd'[c], snapshot', Covered')
    BY <2>1, <2>2, <2>3 DEF KnownTo, Sending, Delivering
  <2>5. QED
    BY <1>1, <2>4
<1>16. ASSUME NEW c \in Cmds, Fails(c) PROVE KnownInv'
  <2>1. UNCHANGED <<snapshot, Covered>>
    BY <1>16, FailsMove DEF Covered
  <2>2. \A t \in Threads : snapshot[t] > Covered[t] => snapshot[t] <= cmd[c].shown[t]
    BY <1>b DEF KnownTo
  <2>3. KnownTo(cmd'[c], snapshot', Covered')
    BY <1>16, <2>1, <2>2, FailsMove DEF KnownTo, Sending, Delivering
  <2>4. QED
    BY <1>1, <2>3
<1>17. CASE UNCHANGED vars
  BY <1>2, <1>17 DEF Covered
<1>18. QED
  BY <1>3, <1>4, <1>5, <1>6, <1>7, <1>8, <1>10, <1>11, <1>12, <1>13, <1>14, <1>15, <1>16, <1>17
     DEF Next, Proceed

LEMMA InitKnew == Init => KnewInv
BY DEF Init, KnewInv, Sending, Delivering, Idle

LEMMA StepKnew ==
  ASSUME OneAtATime, TypeOK, KnewInv, [Next]_vars
  PROVE  KnewInv'
<1> USE DEF vars, durable, memory, history
<1>0. cmd \in [Cmds -> CmdState]
  BY DEF TypeOK
<1>1. SUFFICES ASSUME NEW c \in Cmds, cmd'[c].pc \in Sending PROVE cmd'[c].knew = told'
  BY DEF KnewInv
<1>2. ASSUME UNCHANGED <<told, cmd>> PROVE cmd'[c].knew = told'
  BY <1>1, <1>2 DEF KnewInv
<1>3. CASE Outside
  <2>1. CASE Restart
    <3>1. cmd'[c].pc = "idle"
      BY <2>1 DEF Restart, Idle
    <3>2. QED
      BY <1>1, <3>1 DEF Sending, Delivering
  <2>2. CASE ~ Restart
    BY <1>2, <1>3, <2>2 DEF Outside, RecordInbound, ReviewContact, StrayEnds
  <2>3. QED
    BY <2>1, <2>2
<1>4. CASE Begin(c)
  <2>1. ASSUME NEW k \in Keys, NEW d, SendStarts(c, k, d) PROVE cmd'[c].knew = told'
    BY <1>0, <2>1 DEF SendStarts, Idle
  <2>2. ASSUME CheckMessages(c) PROVE FALSE
    BY <1>0, <1>1, <2>2 DEF CheckMessages, Idle, Sending, Delivering
  <2>3. ASSUME NEW t \in Threads, ReadMessages(c, t) PROVE FALSE
    BY <1>0, <1>1, <2>3 DEF ReadMessages, Idle, Sending, Delivering
  <2>4. ASSUME NEW t \in Threads, UnfollowResolves(c, t) PROVE FALSE
    BY <1>0, <1>1, <2>4 DEF UnfollowResolves, Idle, Sending, Delivering
  <2>5. QED
    BY <1>4, <2>1, <2>2, <2>3, <2>4 DEF Begin, SendNew, SendDraft
<1>5. CASE Proceed(c)
  <2>1. cmd[c].pc \in Sending /\ cmd'[c].knew = cmd[c].knew /\ ~ Reply(c)
    BY <1>1, <1>5, CarriesOn
  <2>2. told' = told
    BY <1>5, <2>1 DEF Proceed, Observe, StagePasses, StageHolds, TakeLock, LookPasses,
                      LookHolds, Transmit, Finalize, SendEnds, UnfollowSaves
  <2>3. QED
    BY <2>1, <2>2 DEF KnewInv
<1>6. CASE Fails(c)
  BY <1>1, <1>6, FailsMove DEF Sending, Delivering
<1>7. \A d \in Cmds : d = c
  BY DEF OneAtATime
<1>8. QED
  BY <1>2, <1>3, <1>4, <1>5, <1>6, <1>7 DEF Next

LEMMA KnownImplies ==
  ASSUME TypeOK, FreshnessInv, KnownInv, KnewInv
  PROVE  NothingArrivedWhileWriting
<1>1. SUFFICES ASSUME NEW c \in Cmds, cmd[c].pc = "transmit", NEW t \in cmd[c].targets
               PROVE  cmd[c].basis[t] <= cmd[c].knew[t] \/ cmd[c].basis[t] <= hushed[t]
  BY DEF NothingArrivedWhileWriting
<1>2. cmd[c] \in CmdState /\ SendInv(cmd[c], snapshot) /\ KnownTo(cmd[c], snapshot, Covered)
  BY DEF TypeOK, FreshnessInv, KnownInv
<1>3. cmd[c].basis[t] <= cmd[c].expected[t]
  BY <1>1, <1>2 DEF SendInv
<1>4. cmd[c].expected[t] <= Covered[t] /\ cmd[c].knew = told
  BY <1>1, <1>2 DEF KnownTo, KnewInv, Sending, Delivering
<1>5. /\ cmd[c].basis[t] \in Nat /\ cmd[c].expected[t] \in Nat
      /\ told[t] \in Nat /\ hushed[t] \in Nat /\ t \in Threads
  BY <1>1, <1>2 DEF CmdState, Seqs, TypeOK
<1>6. Covered[t] = told[t] \/ Covered[t] = hushed[t]
  BY <1>5 DEF Covered, Upto
<1>7. QED
  BY <1>3, <1>4, <1>5, <1>6

(* An agent that gives one command at a time sends only into conversations  *)
(* it knew: a reply returned before it gave the command covers everything   *)
(* the last look found in them (_stage_draft), but for what a hold observed *)
(* and its reply left out.                                                  *)
THEOREM KnownWhenSent ==
  ASSUME OneAtATime
  PROVE  Spec => []NothingArrivedWhileWriting
<1>1. TypeOK /\ FreshnessInv /\ LockInv /\ KnownInv /\ [Next]_vars => KnownInv'
  BY StepKnown
<1>2. TypeOK /\ KnewInv /\ [Next]_vars => KnewInv'
  BY StepKnew
<1>3. TypeOK /\ FreshnessInv /\ KnownInv /\ KnewInv => NothingArrivedWhileWriting
  BY KnownImplies
<1>4. QED
  BY <1>1, <1>2, <1>3, InitTypeOK, StepTypeOK, InitFreshness, StepFreshness, InitKnown, InitKnew,
     PTL DEF Spec

(* A draft waits under one set of threads at most, and is gone once it is   *)
(* settled, unless it could not be written down; a send on its way carries  *)
(* the one that waits under its threads.                                    *)
Carries(s) == s.pc \in Sending =>
    s.targets \in Keys /\ s.draft # NoDraft /\ s.draft = drafts[s.targets]

Gone == settled \ unrecorded

DraftInv ==
    /\ settled \subseteq 1 .. sends
    /\ \A k \in Keys : drafts[k] <= sends /\ drafts[k] \notin Gone
    /\ \A k, l \in Keys : drafts[k] = drafts[l] /\ drafts[k] # NoDraft => k = l
    /\ \A c \in Cmds : Carries(cmd[c])

LEMMA InitDrafts == Init => DraftInv
<1>1. ASSUME NEW c \in Cmds, Init PROVE cmd[c].pc = "idle"
  BY <1>1 DEF Init, Idle
<1>2. QED
  BY <1>1 DEF Init, DraftInv, Gone, Carries, Sending, Delivering, NoDraft

(* A step that leaves drafts alone and only carries on keeps all of it *)
LEMMA DraftsStay ==
  ASSUME OneAtATime, TypeOK, DraftInv, drafts' = drafts,
         settled' \subseteq 1 .. sends', Gone' \subseteq Gone,
         sends' \in Nat, sends' >= sends,
         \A c \in Cmds : cmd'[c].pc \in Sending =>
            \/ /\ cmd[c].pc \in Sending
               /\ cmd'[c].targets = cmd[c].targets /\ cmd'[c].draft = cmd[c].draft
            \/ /\ cmd'[c].targets \in Keys /\ cmd'[c].draft # NoDraft
               /\ cmd'[c].draft = drafts[cmd'[c].targets]
  PROVE  DraftInv'
<1>0. sends \in Nat /\ drafts \in [Keys -> Nat]
  BY DEF TypeOK
<1>1. settled' \subseteq 1 .. sends'
  OBVIOUS
<1>2. \A k \in Keys : drafts'[k] <= sends' /\ drafts'[k] \notin Gone'
  BY <1>0 DEF DraftInv
<1>3. \A c \in Cmds : Carries(cmd[c])'
  BY DEF DraftInv, Carries
<1>4. \A k, l \in Keys : drafts'[k] = drafts'[l] /\ drafts'[k] # NoDraft => k = l
  BY DEF DraftInv
<1>5. QED
  BY <1>1, <1>2, <1>3, <1>4 DEF DraftInv

LEMMA StepDraftInv ==
  ASSUME OneAtATime, TypeOK, DraftInv, [Next]_vars
  PROVE  DraftInv'
<1> USE DEF vars, durable, memory, history
<1>0. /\ cmd \in [Cmds -> CmdState] /\ sends \in Nat /\ drafts \in [Keys -> Nat]
      /\ settled \subseteq 1 .. sends
      /\ \A k \in Keys : drafts[k] \in Nat /\ drafts[k] <= sends /\ drafts[k] \notin Gone
      /\ \A k, l \in Keys : drafts[k] = drafts[l] /\ drafts[k] # NoDraft => k = l
  BY DEF TypeOK, DraftInv
<1>1. ASSUME UNCHANGED <<drafts, settled, unrecorded, sends, cmd>> PROVE DraftInv'
  BY <1>1 DEF DraftInv, Carries, Gone
<1>2. ASSUME Restart PROVE DraftInv'
  <2>1. /\ \A c \in Cmds : cmd'[c] = Idle
        /\ \A k \in Keys : drafts'[k] = NoDraft
        /\ UNCHANGED <<settled, unrecorded, sends>>
    BY <1>2 DEF Restart
  <2>2. Idle.pc = "idle"
    BY DEF Idle
  <2>3. \A c \in Cmds : Carries(cmd[c])'
    BY <2>1, <2>2 DEF Carries, Sending, Delivering
  <2>4. \A k \in Keys : drafts'[k] <= sends' /\ drafts'[k] \notin Gone'
    BY <1>0, <2>1 DEF NoDraft, Gone
  <2>5. settled' \subseteq 1 .. sends'
    BY <1>0, <2>1
  <2>6. \A k, l \in Keys : drafts'[k] = drafts'[l] /\ drafts'[k] # NoDraft => k = l
    BY <2>1
  <2>7. QED
    BY <2>1, <2>3, <2>4, <2>5, <2>6 DEF DraftInv
<1>3. ASSUME Outside PROVE DraftInv'
  BY <1>1, <1>2, <1>3 DEF Outside, RecordInbound, ReviewContact, StrayEnds
<1>4. ASSUME NEW c \in Cmds, NEW d \in Cmds PROVE c = d
  BY DEF OneAtATime
<1>5. ASSUME NEW c \in Cmds, cmd'[c].pc \notin Sending, UNCHANGED <<drafts, settled, unrecorded, sends>>
      PROVE  DraftInv'
  BY <1>0, <1>4, <1>5, DraftsStay DEF Gone
<1>6. ASSUME NEW c \in Cmds, NEW k \in Keys, SendNew(c, k) PROVE DraftInv'
  <2>1. /\ cmd'[c].pc = "stage" /\ cmd'[c].targets = k /\ cmd'[c].draft = sends + 1
        /\ drafts' = [drafts EXCEPT ![k] = sends + 1]
        /\ sends' = sends + 1 /\ settled' = settled /\ Gone' = Gone
    BY <1>0, <1>6 DEF SendNew, SendStarts, Idle, Gone
  <2>2. drafts'[k] = sends + 1 /\ \A l \in Keys : l # k => drafts'[l] = drafts[l]
    BY <1>0, <2>1
  <2>3. \A d \in Cmds : Carries(cmd[d])'
    BY <1>0, <1>4, <2>1, <2>2 DEF Carries, NoDraft
  <2>4. settled' \subseteq 1 .. sends'
    BY <1>0, <2>1
  <2>5. sends + 1 \notin Gone
    BY <1>0 DEF Gone
  <2>6. \A l \in Keys : drafts'[l] <= sends' /\ drafts'[l] \notin Gone'
    BY <1>0, <2>1, <2>2, <2>5
  <2>7. \A l, m \in Keys : drafts'[l] = drafts'[m] /\ drafts'[l] # NoDraft => l = m
    <3>1. \A l \in Keys : l # k => drafts'[l] # sends + 1
      BY <1>0, <2>2
    <3>2. QED
      BY <1>0, <2>2, <3>1
  <2>8. QED
    BY <2>3, <2>4, <2>6, <2>7 DEF DraftInv
<1>7. ASSUME NEW c \in Cmds, NEW k \in Keys, SendDraft(c, k) PROVE DraftInv'
  <2>1. /\ cmd'[c].pc = "stage" /\ cmd'[c].targets = k /\ cmd'[c].draft = drafts[k]
        /\ drafts[k] # NoDraft /\ drafts' = drafts
        /\ sends' = sends + 1 /\ settled' = settled /\ Gone' = Gone
    BY <1>0, <1>7 DEF SendDraft, SendStarts, Idle, Gone
  <2>2. sends' \in Nat /\ sends' >= sends
    BY <1>0, <2>1
  <2>3. QED
    BY <1>0, <1>4, <2>1, <2>2, DraftsStay
<1>8. ASSUME NEW c \in Cmds, Begin(c) PROVE DraftInv'
  <2>1. CASE CheckMessages(c)
    <3>1. cmd'[c].pc = "observe" /\ UNCHANGED <<drafts, settled, unrecorded, sends>>
      BY <1>0, <2>1 DEF CheckMessages, Idle
    <3>2. QED
      BY <1>5, <3>1 DEF Sending, Delivering
  <2>2. ASSUME NEW t \in Threads, ReadMessages(c, t) \/ UnfollowResolves(c, t) PROVE DraftInv'
    <3>1. cmd'[c].pc \in {"observe", "unfollow"} /\ UNCHANGED <<drafts, settled, unrecorded, sends>>
      <4>1. ReadMessages(c, t) =>
              cmd'[c].pc = "observe" /\ UNCHANGED <<drafts, settled, unrecorded, sends>>
        BY <1>0 DEF ReadMessages, Idle
      <4>2. UnfollowResolves(c, t) =>
              cmd'[c].pc = "unfollow" /\ UNCHANGED <<drafts, settled, unrecorded, sends>>
        BY <1>0 DEF UnfollowResolves, Idle
      <4>3. QED
        BY <2>2, <4>1, <4>2
    <3>2. QED
      BY <1>5, <3>1 DEF Sending, Delivering
  <2>3. QED
    BY <1>6, <1>7, <1>8, <2>1, <2>2 DEF Begin
<1>9. ASSUME NEW c \in Cmds, SendEnds(c) PROVE DraftInv'
  <2> DEFINE k == cmd[c].targets
  <2>1. /\ cmd[c].pc = "transmit" /\ cmd'[c] = [cmd[c] EXCEPT !.pc = "reply"]
        /\ drafts' = DraftsAfter(cmd[c]) /\ sends' = sends /\ unrecorded' = unrecorded
        /\ settled' = IF TookAll(cmd[c]) THEN settled \cup {cmd[c].draft} ELSE settled
    BY <1>0, <1>9 DEF SendEnds
  <2>2. cmd'[c].pc = "reply"
    BY <1>0, <2>1 DEF CmdState
  <2>3. k \in Keys /\ cmd[c].draft # NoDraft /\ cmd[c].draft = drafts[k]
    BY <2>1 DEF DraftInv, Carries, Sending, Delivering
  <2>4. CASE ~ TookAll(cmd[c])
    BY <1>5, <2>1, <2>2, <2>4 DEF DraftsAfter, Sending, Delivering
  <2>5. CASE TookAll(cmd[c])
    <3>1. drafts' = [drafts EXCEPT ![k] = NoDraft] /\ settled' = settled \cup {drafts[k]}
      BY <2>1, <2>3, <2>5 DEF DraftsAfter
    <3> HIDE DEF k
    <3>2. drafts'[k] = NoDraft /\ \A l \in Keys : l # k => drafts'[l] = drafts[l]
      BY <1>0, <2>3, <3>1
    <3>3. drafts[k] \in 1 .. sends
      BY <1>0, <2>3 DEF NoDraft
    <3>4. settled' \subseteq 1 .. sends'
      BY <1>0, <2>1, <3>1, <3>3
    <3>5. \A l \in Keys : drafts'[l] <= sends' /\ drafts'[l] \notin Gone'
      <4>1. NoDraft <= sends' /\ NoDraft \notin Gone'
        BY <1>0, <2>1, <3>4 DEF NoDraft, Gone
      <4>2. \A l \in Keys : l # k => drafts[l] # drafts[k]
        BY <1>0, <2>3
      <4>3. QED
        BY <1>0, <2>1, <3>1, <3>2, <4>1, <4>2 DEF Gone
    <3>6. \A l, m \in Keys : drafts'[l] = drafts'[m] /\ drafts'[l] # NoDraft => l = m
      BY <1>0, <3>2
    <3>7. \A d \in Cmds : Carries(cmd[d])'
      BY <1>4, <2>2 DEF Carries, Sending, Delivering
    <3>8. QED
      BY <3>4, <3>5, <3>6, <3>7 DEF DraftInv
  <2>6. QED
    BY <2>4, <2>5
<1>10. ASSUME NEW c \in Cmds, Proceed(c), ~ SendEnds(c) PROVE DraftInv'
  <2>1. UNCHANGED <<drafts, settled, unrecorded, sends>>
    BY <1>10 DEF Proceed, Observe, Reply, StagePasses, StageHolds, TakeLock, LookPasses,
                 LookHolds, Transmit, Finalize, UnfollowSaves
  <2>2. \A d \in Cmds : cmd'[d].pc \in Sending =>
           /\ cmd[d].pc \in Sending
           /\ cmd'[d].targets = cmd[d].targets /\ cmd'[d].draft = cmd[d].draft
    BY <1>4, <1>10, CarriesOn
  <2>3. QED
    BY <1>0, <2>1, <2>2, DraftsStay DEF Gone
<1>11. ASSUME NEW c \in Cmds, Fails(c) PROVE DraftInv'
  <2>1. /\ cmd[c].pc \in Sending /\ cmd'[c].pc \notin Sending
        /\ UNCHANGED <<drafts, sends>>
    BY <1>11, FailsMove DEF Sending, Delivering
  <2>2. cmd[c].draft \in 1 .. sends
    <3>1. cmd[c].draft = drafts[cmd[c].targets] /\ cmd[c].targets \in Keys /\ cmd[c].draft # NoDraft
      BY <2>1 DEF DraftInv, Carries
    <3>2. QED
      BY <1>0, <3>1 DEF NoDraft
  <2>3. \/ UNCHANGED <<settled, unrecorded>>
        \/ /\ settled' \subseteq settled \cup {cmd[c].draft}
           /\ unrecorded' = unrecorded \cup {cmd[c].draft}
    BY <1>11 DEF Fails, LookFails, FinalizeFails
  <2>4. settled' \subseteq 1 .. sends' /\ Gone' \subseteq Gone
    BY <1>0, <2>1, <2>2, <2>3 DEF Gone
  <2>5. QED
    BY <1>0, <1>4, <2>1, <2>4, DraftsStay
<1>12. QED
  BY <1>1, <1>3, <1>8, <1>9, <1>10, <1>11 DEF Next

(* An answer is a channel's, given to a send on its way *)
LEMMA AnswersAreGiven ==
  ASSUME TypeOK, [Next]_vars, NEW c \in Cmds, NEW t \in Threads,
         cmd[c].answer[t] = "none", cmd'[c].answer[t] # "none"
  PROVE  cmd[c].pc = "transmit"
<1> USE DEF vars, durable, memory, history
<1>0. /\ log \in Seq(Entries) /\ cmd \in [Cmds -> CmdState] /\ cmd[c] \in CmdState
  BY DEF TypeOK
<1>a. \A u \in Threads : LatestNotifying(u) \in Nat
  BY <1>0, LatestTypes
<1>b. {"locking", "look", "transmit", "reply"} \subseteq Phases
  BY DEF Phases
<1>1. Idle.answer[t] = "none"
  BY DEF Idle
<1>2. CASE UNCHANGED cmd
  BY <1>2
<1>3. CASE Outside
  BY <1>0, <1>1, <1>3 DEF Outside, RecordInbound, ReviewContact, Restart, StrayEnds
<1>4. ASSUME NEW d \in Cmds, d # c, Begin(d) \/ Proceed(d) \/ Fails(d) PROVE cmd'[c] = cmd[c]
  <2>1. ASSUME NEW s, cmd' = [cmd EXCEPT ![d] = s] PROVE cmd'[c] = cmd[c]
    BY <1>0, <1>4, <2>1
  <2>2. ASSUME Begin(d) PROVE cmd'[c] = cmd[c]
    BY <2>1, <2>2 DEF Begin, CheckMessages, ReadMessages, UnfollowResolves, SendNew,
                      SendDraft, SendStarts
  <2>3. ASSUME Proceed(d) PROVE cmd'[c] = cmd[c]
    BY <1>0, <1>4, <2>3 DEF Proceed, Observe, Reply, StagePasses, StageHolds, TakeLock,
       LookPasses, LookHolds, Transmit, Finalize, SendEnds, UnfollowSaves
  <2>4. QED
    BY <1>0, <1>4, <2>2, <2>3, FailsMove
<1>5. ASSUME Begin(c) PROVE cmd'[c].answer[t] = "none"
  <2>1. ASSUME NEW k \in Keys, NEW d, SendStarts(c, k, d) PROVE cmd'[c].answer[t] = "none"
    BY <1>0, <2>1 DEF SendStarts, Idle
  <2>2. ASSUME CheckMessages(c) PROVE cmd'[c].answer[t] = "none"
    BY <1>0, <2>2 DEF CheckMessages, Idle
  <2>3. ASSUME NEW u \in Threads, ReadMessages(c, u) \/ UnfollowResolves(c, u)
        PROVE  cmd'[c].answer[t] = "none"
    <3>1. CASE ReadMessages(c, u)
      BY <1>0, <3>1 DEF ReadMessages, Idle
    <3>2. CASE UnfollowResolves(c, u)
      BY <1>0, <3>2 DEF UnfollowResolves, Idle
    <3>3. QED
      BY <2>3, <3>1, <3>2
  <2>4. QED
    BY <1>5, <2>1, <2>2, <2>3 DEF Begin, SendNew, SendDraft
<1>6. ASSUME Proceed(c) PROVE cmd[c].pc = "transmit" \/ cmd'[c].answer[t] = "none"
  <2>1. ASSUME NEW u \in Threads, StagePasses(c, u) PROVE cmd'[c].answer = cmd[c].answer
    <3> DEFINE r == [cmd[c] EXCEPT !.expected = [@ EXCEPT ![u] = LatestNotifying(u)]]
               next == IF r.held = {} THEN "locking" ELSE "reply"
    <3>1. cmd'[c] = Onward(r, u, next)
      BY <1>0, <2>1 DEF StagePasses, Staged
    <3>2. r \in CmdState /\ r.answer = cmd[c].answer /\ next \in Phases
      BY <1>0, <1>a, <1>b, ExpectedType DEF CmdState
    <3> HIDE DEF r, next
    <3>3. QED
      BY <3>1, <3>2, OnwardCases
  <2>2. ASSUME NEW u \in Threads, StageHolds(c, u) PROVE cmd'[c].answer = cmd[c].answer
    <3> DEFINE r == Holding(cmd[c], u, LatestNotifying(u))
               next == IF r.held = {} THEN "locking" ELSE "reply"
    <3>1. cmd'[c] = Onward(r, u, next)
      BY <1>0, <2>2 DEF StageHolds, Staged
    <3>2. r \in CmdState /\ r.answer = cmd[c].answer /\ next \in Phases
      BY <1>0, <1>a, <1>b, HoldingType DEF CmdState, Holding
    <3> HIDE DEF r, next
    <3>3. QED
      BY <3>1, <3>2, OnwardCases
  <2>3. ASSUME NEW u \in Threads, TakeLock(c, u) PROVE cmd'[c].answer = cmd[c].answer
    <3>1. cmd'[c] = Onward(cmd[c], u, "look")
      BY <1>0, <2>3 DEF TakeLock
    <3>2. QED
      BY <1>0, <1>b, <3>1, OnwardCases
  <2>4. ASSUME NEW u \in Threads, LookPasses(c, u) PROVE cmd'[c].answer = cmd[c].answer
    <3> DEFINE r == [cmd[c] EXCEPT !.basis = [@ EXCEPT ![u] = LatestNotifying(u)]]
    <3>1. cmd'[c] = Onward(r, u, "transmit")
      BY <1>0, <2>4 DEF LookPasses
    <3>2. r \in CmdState /\ r.answer = cmd[c].answer
      BY <1>0, <1>a, BasisType DEF CmdState
    <3> HIDE DEF r
    <3>3. QED
      BY <1>b, <3>1, <3>2, OnwardCases
  <2>5. ASSUME NEW u \in Threads, LookHolds(c, u) PROVE cmd'[c].answer = cmd[c].answer
    BY <1>0, <2>5 DEF LookHolds, Holding, CmdState
  <2>6. ASSUME Observe(c) \/ SendEnds(c) \/ \E u \in Threads : UnfollowSaves(c, u)
        PROVE  cmd'[c].answer = cmd[c].answer
    BY <1>0, <2>6 DEF Observe, SendEnds, UnfollowSaves, CmdState
  <2>7. ASSUME Reply(c) PROVE cmd'[c].answer[t] = "none"
    BY <1>0, <1>1, <2>7 DEF Reply
  <2>8. ASSUME NEW u \in Threads, (\E r \in Results : Transmit(c, u, r)) \/ Finalize(c, u)
        PROVE  cmd[c].pc = "transmit"
    BY <2>8 DEF Transmit, Finalize
  <2>9. QED
    BY <1>6, <2>1, <2>2, <2>3, <2>4, <2>5, <2>6, <2>7, <2>8 DEF Proceed
<1>7. ASSUME Fails(c) PROVE cmd'[c].answer[t] = "none"
  BY <1>7, FailsMove
<1>8. QED
  BY <1>2, <1>3, <1>4, <1>5, <1>6, <1>7 DEF Next

(* When the agent gives one command at a time, a draft that every channel   *)
(* took is not sent again, whatever holds, failed deliveries and restarts   *)
(* came before (_send forgets it, l. 841), unless what became of it could   *)
(* not be written down (l. 701), which keeps the draft.                     *)
THEOREM SettledStays ==
  ASSUME OneAtATime
  PROVE  Spec => SettledDraftNotResent
<1>1. TypeOK /\ DraftInv /\ [Next]_vars => DraftInv'
  BY StepDraftInv
<1>2. TypeOK /\ DraftInv /\ [Next]_vars =>
         [\A c \in Cmds : \A t \in Threads :
             cmd[c].answer[t] = "none" /\ cmd'[c].answer[t] # "none" =>
                cmd[c].draft \notin settled \ unrecorded]_vars
  <2>1. SUFFICES ASSUME TypeOK, DraftInv, [Next]_vars, NEW c \in Cmds, NEW t \in Threads,
                        cmd[c].answer[t] = "none", cmd'[c].answer[t] # "none"
                 PROVE  cmd[c].draft \notin settled \ unrecorded
    OBVIOUS
  <2>2. cmd[c].pc = "transmit"
    BY <2>1, AnswersAreGiven
  <2>3. QED
    BY <2>1, <2>2 DEF DraftInv, Carries, Gone, Sending, Delivering
<1>3. QED
  BY <1>1, <1>2, InitTypeOK, StepTypeOK, InitDrafts, PTL DEF Spec, SettledDraftNotResent
=============================================================================

------------------------- MODULE TurnFailoverProofs -------------------------
(***************************************************************************)
(* Proofs about TurnFailover, for any number of actors, runtimes and turns: *)
(* HolderIsRight, AnnouncedOnce and AtRestBetweenTurns.  The pool is asked  *)
(* for the runtime that holds an actor's conversation when a turn fails,    *)
(* perhaps after its session is gone; the inductive invariant says in which *)
(* states of the turn's task there is a session, that the runtimes that had *)
(* the turn are among those tried, and what the conversation has heard.     *)
(***************************************************************************)
EXTENDS TurnFailover, FiniteSetTheorems, SequenceTheorems, WellFoundedInduction, TLAPS

SessionRec == [rt : Runtimes \cup {NoRuntime}, thread : BOOLEAN,
               live : BOOLEAN, stale : BOOLEAN]
Tries == 0 .. 1
AgentStates == {"idle", "working", "recovering", "failed"}
TaskRec ==
    [pc : {"off", "take", "job", "ensure", "open", "run", "again", "stream",
           "settle", "report"},
     tried : SUBSET Runtimes, try : Tries, result : Terminal \cup {"none"},
     heard : Nat, cut : BOOLEAN, had : Seq(Runtimes), loose : BOOLEAN]

(* The states of a turn's task in which its actor has a session *)
WithSession == {"job", "ensure", "open", "run", "again", "stream", "settle"}

(* What holds of an actor: t is its task, s its session, h its holder.  A   *)
(* turn that looks for a runtime is new, or was handed over without its     *)
(* session by a runtime it had, and has one left to try.                    *)
Shape(t, s, h) ==
    /\ s = NoSession \/ (s.rt \in Runtimes /\ h = s.rt)
    /\ t.pc \in WithSession => s.rt \in Runtimes /\ Len(t.had) < Cardinality(t.tried)
    /\ t.pc = "report" => h \in Runtimes
    /\ t.pc = "settle" => t.result # "none"
    /\ t.pc = "take" => t.tried = {} \/ (s = NoSession /\ t.tried # Runtimes)
    /\ Len(t.had) <= Cardinality(t.tried)

IInv == TypeOK /\ \A a \in Actors : Shape(task[a], session[a], holder[a])

-----------------------------------------------------------------------------
(* The pool *)

(* A set of numbers that is not empty has a least one.                      *)
LEMMA LeastIn ==
    ASSUME NEW S \in SUBSET Nat, S # {}
    PROVE  Least(S) \in S
<1>1. PICK m \in S : \A i \in S : <<i, m>> \notin OpToRel(<, Nat)
  BY NatLessThanWellFounded, WFMin
<1>2. ASSUME NEW i \in S PROVE m <= i
  <2>1. <<i, m>> \notin OpToRel(<, Nat)
    BY <1>1
  <2>2. ~ (i < m)
    BY <2>1 DEF OpToRel
  <2> QED BY <2>2
<1> QED BY <1>2 DEF Least

(* select() answers with a runtime that the turn has not tried, as long as  *)
(* there is one, whatever is banned.                                        *)
LEMMA SelectUntried ==
    ASSUME bans \in Seq(Runtimes), NEW tried \in SUBSET Runtimes, tried # Runtimes
    PROVE  Select(tried) \in Runtimes \ tried
<1> DEFINE candidates == Runtimes \ tried
           free == candidates \ Banned
           places == {i \in DOMAIN bans : bans[i] \in candidates}
<1>1. candidates # {} /\ candidates \subseteq Nat
  <2>1. Runtimes \subseteq Nat
    BY BoundsAssumption DEF Runtimes
  <2> QED BY <2>1
<1>2. CASE free # {}
  <2>1. Least(free) \in free
    BY <1>1, <1>2, LeastIn
  <2> QED BY <1>2, <2>1 DEF Select, SelectOf
<1>3. CASE free = {}
  <2>1. PICK r \in candidates : r \in Banned
    BY <1>1, <1>3
  <2>2. places # {}
    BY <2>1 DEF Banned
  <2>3. places \subseteq Nat
    BY LenProperties
  <2>4. Least(places) \in places
    BY <2>2, <2>3, LeastIn
  <2>5. bans[Least(places)] \in candidates
    BY <2>4
  <2> QED BY <1>3, <2>5 DEF Select, SelectOf
<1> QED BY <1>2, <1>3

(* A ban leaves the list where it stood.                                    *)
LEMMA WithoutType ==
    ASSUME bans \in Seq(Runtimes), NEW r
    PROVE  Without(r) \in Seq(Runtimes)
<1> DEFINE I == {i \in 1 .. Len(bans) : bans[i] = r}
           k == Least(I)
<1>1. CASE I = {}
  BY <1>1 DEF Without, RemoveFirst
<1>2. CASE I # {}
  <2>1. Len(bans) \in Nat
    BY LenProperties
  <2>2. k \in I
    <3>1. I \in SUBSET Nat
      BY <2>1
    <3> HIDE DEF I
    <3> QED BY <1>2, <3>1, LeastIn
  <2>3. k \in 1 .. Len(bans)
    BY <2>2
  <2>4. Without(r) = SubSeq(bans, 1, k - 1) \o SubSeq(bans, k + 1, Len(bans))
    BY <1>2 DEF Without, RemoveFirst, RemoveAt, SelectInSeq, Min, Least
  <2> HIDE DEF k, I
  <2>5. SubSeq(bans, 1, k - 1) \in Seq(Runtimes)
    BY <2>1, <2>3, ElementOfSeq, SubSeqProperties
  <2>6. SubSeq(bans, k + 1, Len(bans)) \in Seq(Runtimes)
    BY <2>1, <2>3, ElementOfSeq, SubSeqProperties
  <2> QED BY <2>4, <2>5, <2>6, ConcatProperties
<1> QED BY <1>1, <1>2

LEMMA RecordType ==
    ASSUME bans \in Seq(Runtimes), NEW r \in Runtimes
    PROVE  RecordFailure(r) \in Seq(Runtimes) /\ RecordSuccess(r) \in Seq(Runtimes)
BY WithoutType DEF RecordFailure, RecordSuccess

-----------------------------------------------------------------------------
(* Runtimes' answers and how a turn goes on *)

LEMMA RuntimesFinite ==
    /\ IsFiniteSet(Runtimes) /\ Cardinality(Runtimes) = LastRuntime + 1
    /\ 0 \in Runtimes /\ NoRuntime \notin Runtimes
<1>1. LastRuntime \in Nat
  BY BoundsAssumption
<1>2. IsFiniteSet(0 .. LastRuntime) /\ Cardinality(0 .. LastRuntime) = LastRuntime + 1
  BY <1>1, FS_Interval
<1> QED BY <1>1, <1>2 DEF Runtimes, NoRuntime

(* A turn tries each runtime once, so it has had no more than there are.    *)
LEMMA TriedCount ==
    ASSUME NEW tried \in SUBSET Runtimes
    PROVE  /\ Cardinality(tried) \in Nat /\ Cardinality(tried) <= LastRuntime + 1
           /\ \A r \in Runtimes \ tried : Cardinality(tried \cup {r}) = Cardinality(tried) + 1
BY RuntimesFinite, FS_Subset, FS_CardinalityType, FS_AddElement

(* Whatever start_session or reconcile_session answers, the session stays   *)
(* with its runtime.                                                        *)
LEMMA EnsuredKeepsRuntime ==
    ASSUME NEW a \in Actors, session[a] \in SessionRec, agent[a] \in AgentStates,
           NEW answer \in Ensured(a)
    PROVE  /\ answer.session \in SessionRec /\ answer.session.rt = session[a].rt
           /\ answer.agent \in AgentStates
<1> DEFINE s == session[a]
           Fits(x) == /\ x.session \in SessionRec /\ x.session.rt = s.rt
                      /\ x.agent \in AgentStates
<1>1. ASSUME NEW live \in BOOLEAN, NEW state \in AgentStates
      PROVE  /\ Fits(Answer(s, live, state))
             /\ Fits(Answer([s EXCEPT !.thread = TRUE], live, state))
  BY <1>1 DEF Answer, SessionRec
<1>2. \A x \in Unsure(s) : Fits(x)
  BY <1>1 DEF Unsure, AgentStates
<1>3. \A x \in Start(s) \cup Reconcile(s) : Fits(x)
  BY <1>1, <1>2 DEF Start, Reconcile, AgentStates
<1> QED BY <1>3 DEF Ensured

(* A session that is discarded leaves nothing of itself, and an answer that *)
(* changes nothing is the session and the agent as they are.                *)
LEMMA DiscardedIs ==
    ASSUME NEW a \in Actors
    PROVE  /\ Discarded(a).session = NoSession /\ Discarded(a).agent = "idle"
           /\ NoSession \in SessionRec /\ "idle" \in AgentStates
           /\ \A s \in SessionRec, g \in AgentStates :
                Answer(s, s.live, g).session = s /\ Answer(s, s.live, g).agent = g
BY DEF Discarded, Answer, NoSession, SessionRec, AgentStates

(* An actor that moves to a task, a session, a holder and a view of the     *)
(* agent that fit together leaves the invariant as it is.                   *)
LEMMA Moves ==
    ASSUME IInv, NEW a \in Actors, NEW t \in TaskRec, NEW s \in SessionRec,
           NEW h \in Runtimes \cup {NoRuntime}, NEW g \in AgentStates,
           task' = [task EXCEPT ![a] = t], session' = [session EXCEPT ![a] = s],
           holder' = [holder EXCEPT ![a] = h], agent' = [agent EXCEPT ![a] = g],
           bans' \in Seq(Runtimes), turns' \in 0 .. MaxTurns, upsets' \in 0 .. MaxUpsets,
           Shape(t, s, h)
    PROVE  IInv'
<1>1. TypeOK'
  <2>1. task' \in [Actors -> TaskRec] /\ session' \in [Actors -> SessionRec]
    BY DEF IInv, TypeOK, TaskRec, Tries, SessionRec
  <2>2. holder' \in [Actors -> Runtimes \cup {NoRuntime}] /\ agent' \in [Actors -> AgentStates]
    BY DEF IInv, TypeOK, AgentStates
  <2> QED BY <2>1, <2>2 DEF TypeOK, TaskRec, Tries, SessionRec, AgentStates
<1>2. ASSUME NEW b \in Actors PROVE Shape(task'[b], session'[b], holder'[b])
  <2>1. CASE b = a
    BY <2>1 DEF IInv, TypeOK
  <2>2. CASE b # a
    <3>1. task'[b] = task[b] /\ session'[b] = session[b] /\ holder'[b] = holder[b]
      BY <2>2 DEF IInv, TypeOK
    <3> QED BY <3>1 DEF IInv
  <2> QED BY <2>1, <2>2
<1> QED BY <1>1, <1>2 DEF IInv, Shape

(* What an actor is, one at a time.                                         *)
LEMMA OneActor ==
    ASSUME IInv, NEW a \in Actors
    PROVE  /\ task[a] \in TaskRec /\ session[a] \in SessionRec /\ agent[a] \in AgentStates
           /\ holder[a] \in Runtimes \cup {NoRuntime}
           /\ Shape(task[a], session[a], holder[a])
           /\ bans \in Seq(Runtimes) /\ turns \in 0 .. MaxTurns /\ upsets \in 0 .. MaxUpsets
           /\ session = [session EXCEPT ![a] = session[a]]
           /\ holder = [holder EXCEPT ![a] = holder[a]]
           /\ agent = [agent EXCEPT ![a] = agent[a]]
           /\ task = [task EXCEPT ![a] = task[a]]
BY DEF IInv, TypeOK, TaskRec, Tries, SessionRec, AgentStates

(* _conclude: the turn goes to a runtime it has not tried and leaves its    *)
(* session behind, or it is over and its holder is known.                   *)
LEMMA ConcludesKeeps ==
    ASSUME IInv, NEW a \in Actors, task[a].pc \in WithSession,
           NEW t \in TaskRec, t.tried = task[a].tried, t.had = task[a].had,
           NEW kept, kept.session \in SessionRec, kept.agent \in AgentStates,
           kept.session = NoSession \/ kept.session.rt = session[a].rt,
           NEW result \in Terminal, Concludes(a, t, kept, result),
           holder' = holder, turns' = turns, upsets' = upsets
    PROVE  IInv'
<1> DEFINE had == [t EXCEPT !.had = Append(@, holder[a])]
<1>1. /\ session[a].rt \in Runtimes /\ holder[a] = session[a].rt
      /\ Len(t.had) < Cardinality(t.tried)
  <2>1. Shape(task[a], session[a], holder[a])
    BY OneActor
  <2>2. session[a].rt \in Runtimes /\ Len(t.had) < Cardinality(t.tried)
    BY <2>1 DEF Shape
  <2>3. session[a] # NoSession
    BY <2>2, RuntimesFinite DEF NoSession
  <2> QED BY <2>1, <2>2, <2>3 DEF Shape
<1>2. /\ had \in TaskRec /\ had.tried = t.tried /\ Len(had.had) = Len(t.had) + 1
  <2>1. t.had \in Seq(Runtimes)
    BY DEF TaskRec
  <2>2. Append(t.had, holder[a]) \in Seq(Runtimes) /\ Len(Append(t.had, holder[a])) = Len(t.had) + 1
    BY <1>1, <2>1
  <2>3. had = [t EXCEPT !.had = Append(t.had, holder[a])]
    OBVIOUS
  <2> QED BY <2>2, <2>3 DEF TaskRec
<1>3. Len(t.had) \in Nat /\ Cardinality(t.tried) \in Nat
  BY TriedCount, LenProperties DEF TaskRec
<1>4. Len(had.had) <= Cardinality(had.tried)
  BY <1>1, <1>2, <1>3
<1>5. holder' = [holder EXCEPT ![a] = holder[a]]
  BY DEF IInv, TypeOK
<1> HIDE DEF had
<1>6. CASE HandsOver(t, result)
  <2> DEFINE u == [had EXCEPT !.pc = "take", !.result = "none", !.loose = @ \/ kept.session.live]
  <2>1. u \in TaskRec
    BY <1>2 DEF TaskRec, SessionRec
  <2>2. /\ task' = [task EXCEPT ![a] = u]
        /\ session' = [session EXCEPT ![a] = NoSession] /\ agent' = [agent EXCEPT ![a] = "idle"]
        /\ bans' = RecordFailure(holder[a])
    BY <1>6, DiscardedIs DEF Concludes, Becomes, Goes, had
  <2>3. bans' \in Seq(Runtimes)
    BY <1>1, <2>2, RecordType, OneActor
  <2>4. Shape(u, NoSession, holder[a])
    <3>1. u.pc = "take" /\ u.tried = had.tried /\ u.had = had.had
      BY <1>2 DEF TaskRec
    <3>2. u.tried # Runtimes
      BY <1>2, <1>6, <3>1 DEF HandsOver, RetryAvailable
    <3> QED BY <1>4, <3>1, <3>2 DEF Shape, WithSession
  <2>5. NoSession \in SessionRec /\ "idle" \in AgentStates
    BY DiscardedIs
  <2> HIDE DEF u
  <2> QED BY <1>5, <2>1, <2>2, <2>3, <2>4, <2>5, Moves, OneActor
<1>7. CASE ~ HandsOver(t, result)
  <2> DEFINE u == [had EXCEPT !.pc = "report", !.result = result]
  <2>1. u \in TaskRec
    BY <1>2 DEF TaskRec
  <2>2. /\ task' = [task EXCEPT ![a] = u] /\ bans' = bans
        /\ session' = [session EXCEPT ![a] = kept.session]
        /\ agent' = [agent EXCEPT ![a] = kept.agent]
    BY <1>7 DEF Concludes, Becomes, Goes, had
  <2>3. Shape(u, kept.session, holder[a])
    <3>1. u.pc = "report" /\ u.tried = had.tried /\ u.had = had.had
      BY <1>2 DEF TaskRec
    <3> QED BY <1>1, <1>4, <3>1 DEF Shape, WithSession
  <2>4. /\ holder[a] \in Runtimes \cup {NoRuntime}
        /\ bans' \in Seq(Runtimes) /\ turns' \in 0 .. MaxTurns /\ upsets' \in 0 .. MaxUpsets
    BY <2>2, OneActor
  <2> HIDE DEF u
  <2> QED BY <1>5, <2>1, <2>2, <2>3, <2>4, Moves
<1> QED BY <1>6, <1>7

(* A turn that has a session goes on with it, or with one of the same       *)
(* runtime.                                                                 *)
LEMMA GoesOn ==
    ASSUME IInv, NEW a \in Actors, task[a].pc \in WithSession,
           NEW t \in TaskRec, t.pc \in WithSession, t.tried = task[a].tried, t.had = task[a].had,
           t.pc = "settle" => t.result # "none",
           NEW s \in SessionRec, s.rt = session[a].rt, NEW g \in AgentStates,
           Goes(a, t), session' = [session EXCEPT ![a] = s], agent' = [agent EXCEPT ![a] = g],
           holder' = holder, bans' = bans, turns' = turns, upsets' \in 0 .. MaxUpsets
    PROVE  IInv'
<1>1. Shape(task[a], session[a], holder[a])
  BY OneActor
<1>2. session[a].rt \in Runtimes /\ session[a] # NoSession
  BY <1>1, RuntimesFinite DEF Shape, NoSession
<1>3. Shape(t, s, holder[a])
  BY <1>1, <1>2 DEF Shape, WithSession
<1> QED BY <1>3, Moves, OneActor DEF Goes

(* _create_runtime_session, for a turn that goes on with it.                *)
LEMMA CreatesKeeps ==
    ASSUME IInv, NEW a \in Actors, NEW r \in Runtimes, Creates(a, r),
           NEW t \in TaskRec, t.pc \in WithSession \ {"settle"}, Len(t.had) < Cardinality(t.tried),
           Goes(a, t), NEW g \in AgentStates, agent' = [agent EXCEPT ![a] = g],
           bans' = bans, turns' = turns, upsets' = upsets
    PROVE  IInv'
<1>1. Fresh(r) \in SessionRec /\ Fresh(r).rt = r
  BY DEF Fresh, SessionRec
<1>2. Len(t.had) \in Nat /\ Cardinality(t.tried) \in Nat
  BY TriedCount, LenProperties DEF TaskRec
<1>3. Shape(t, Fresh(r), r)
  BY <1>1, <1>2 DEF Shape, WithSession
<1> QED BY <1>1, <1>3, Moves, OneActor DEF Creates, Bound, Goes

LEMMA TwoTries == 0 \in Tries /\ 1 \in Tries
BY DEF Tries

LEMMA NoTaskFits ==
    /\ NoTask \in TaskRec /\ NoSession \in SessionRec
    /\ \A s, h : s = NoSession \/ (s.rt \in Runtimes /\ h = s.rt) => Shape(NoTask, s, h)
<1>1. NoTask \in TaskRec /\ NoSession \in SessionRec
  BY EmptySeq, TwoTries DEF NoTask, TaskRec, NoSession, SessionRec
<1>2. Len(NoTask.had) = 0 /\ Cardinality(NoTask.tried) = 0 /\ NoTask.pc = "off"
  BY FS_EmptySet, EmptySeq DEF NoTask
<1> QED BY <1>1, <1>2 DEF Shape, WithSession

(* The turn finds its session.                                              *)
LEMMA EstablishesKeeps ==
    ASSUME IInv, NEW a \in Actors, Establishes(a)
    PROVE  IInv'
<1> DEFINE t == task[a]
<1>1. /\ t \in TaskRec /\ session[a] \in SessionRec /\ agent[a] \in AgentStates
      /\ Shape(t, session[a], holder[a]) /\ bans \in Seq(Runtimes)
  BY OneActor
<1>2. Len(t.had) \in Nat /\ Cardinality(t.tried) \in Nat
  BY <1>1, TriedCount, LenProperties DEF TaskRec
<1>3. CASE TakeSession(a)
  <2> DEFINE r == Select(t.tried)
             s == IF session[a] = NoSession THEN Fresh(r) ELSE session[a]
             pc == IF s.stale THEN "job" ELSE "ensure"
             tried == t.tried \cup {s.rt}
             u == [t EXCEPT !.pc = pc, !.try = 0, !.tried = tried, !.loose = FALSE]
  <2>1. t.pc = "take" /\ Goes(a, u) /\ UNCHANGED <<bans, agent, turns, upsets>>
    BY <1>3 DEF TakeSession
  <2>2. t.tried = {} \/ (session[a] = NoSession /\ t.tried # Runtimes)
    BY <1>1, <2>1 DEF Shape
  <2>3. t.tried # Runtimes /\ t.tried \in SUBSET Runtimes
    BY <1>1, <2>2, RuntimesFinite DEF TaskRec
  <2>4. r \in Runtimes \ t.tried
    BY <1>1, <2>3, SelectUntried
  <2>5. s.rt \in Runtimes \ t.tried
    BY <1>1, <2>2, <2>4 DEF Shape, Fresh
  <2>6. /\ u \in TaskRec /\ u.pc \in WithSession \ {"settle"}
        /\ u.had = t.had /\ u.tried = t.tried \cup {s.rt}
    <3>1. pc \in {"job", "ensure"} /\ tried \in SUBSET Runtimes
      BY <2>3, <2>5
    <3> HIDE DEF pc, tried
    <3>2. /\ u \in TaskRec /\ u.pc = pc /\ u.had = t.had /\ u.tried = tried
      BY <1>1, <3>1, TwoTries DEF TaskRec
    <3> QED BY <3>1, <3>2 DEF WithSession, tried
  <2>7. Len(u.had) < Cardinality(u.tried)
    BY <1>1, <1>2, <2>3, <2>5, <2>6, TriedCount DEF Shape
  <2>8. CASE session[a] = NoSession
    <3>1. Creates(a, r)
      BY <1>3, <2>8 DEF TakeSession
    <3> HIDE DEF u, r
    <3> QED BY <1>1, <2>1, <2>4, <2>6, <2>7, <3>1, CreatesKeeps, OneActor
  <2>9. CASE session[a] # NoSession
    <3>1. UNCHANGED <<session, holder>> /\ s = session[a]
      BY <1>3, <2>9 DEF TakeSession
    <3> HIDE DEF u
    <3>2. Len(u.had) \in Nat /\ Cardinality(u.tried) \in Nat
      BY <2>6, TriedCount, LenProperties DEF TaskRec
    <3>3. u.pc # "report" /\ u.pc # "take" /\ u.pc # "settle"
      BY <2>6 DEF WithSession
    <3>4. session[a].rt \in Runtimes /\ holder[a] = session[a].rt
      BY <1>1, <2>9 DEF Shape
    <3>5. Shape(u, session[a], holder[a])
      BY <2>7, <3>2, <3>3, <3>4 DEF Shape
    <3> QED BY <1>1, <2>1, <2>6, <3>1, <3>5, Moves, OneActor DEF Goes
  <2> QED BY <2>8, <2>9
<1>4. ASSUME t.pc \in {"job", "ensure", "open"}
      PROVE  t.pc \in WithSession /\ Len(t.had) < Cardinality(t.tried)
  BY <1>1, <1>4 DEF Shape, WithSession
<1>5. Select({}) \in Runtimes
  BY <1>1, SelectUntried, RuntimesFinite
<1>6. CASE StaleReplaced(a)
  <2> DEFINE u == [t EXCEPT !.pc = "ensure"]
  <2>1. u \in TaskRec /\ u.pc \in WithSession \ {"settle"} /\ u.had = t.had /\ u.tried = t.tried
    BY <1>1 DEF TaskRec, WithSession
  <2>2. /\ t.pc = "job" /\ Goes(a, u) /\ Creates(a, Select({}))
        /\ agent' = [agent EXCEPT ![a] = "idle"] /\ UNCHANGED <<bans, turns, upsets>>
    BY <1>6, DiscardedIs DEF StaleReplaced, Replaced
  <2> HIDE DEF u
  <2> QED BY <1>4, <1>5, <2>1, <2>2, CreatesKeeps, DiscardedIs
<1>7. CASE StaleKept(a)
  <2> DEFINE u == [t EXCEPT !.pc = "ensure"]
  <2>1. u \in TaskRec /\ u.pc \in WithSession \ {"settle"} /\ u.had = t.had /\ u.tried = t.tried
    BY <1>1 DEF TaskRec, WithSession
  <2>2. t.pc = "job" /\ Goes(a, u) /\ UNCHANGED <<bans, holder, session, agent, turns, upsets>>
    BY <1>7 DEF StaleKept
  <2> HIDE DEF u
  <2> QED BY <1>1, <1>4, <2>1, <2>2, GoesOn, OneActor
<1>8. CASE Ensure(a)
  <2> DEFINE u == [t EXCEPT !.pc = "open", !.loose = FALSE]
  <2>1. u \in TaskRec /\ u.pc \in WithSession \ {"settle"} /\ u.had = t.had /\ u.tried = t.tried
    BY <1>1 DEF TaskRec, WithSession
  <2>2. t.pc = "ensure" /\ Goes(a, u) /\ UNCHANGED <<bans, holder, turns, upsets>>
    BY <1>8 DEF Ensure
  <2>3. PICK answer \in Ensured(a) :
            /\ session' = [session EXCEPT ![a] = answer.session]
            /\ agent' = [agent EXCEPT ![a] = answer.agent]
    BY <1>8 DEF Ensure, Becomes
  <2>4. answer.session \in SessionRec /\ answer.session.rt = session[a].rt /\ answer.agent \in AgentStates
    BY <1>1, EnsuredKeepsRuntime
  <2> HIDE DEF u
  <2> QED BY <1>4, <2>1, <2>2, <2>3, <2>4, GoesOn, OneActor
<1>9. CASE EnsureAgain(a)
  <2>1. PICK answer \in Ensured(a) :
            Goes(a, [t EXCEPT !.try = 1 - t.try, !.loose = LetGo(answer.session, answer.agent)])
    BY <1>9 DEF EnsureAgain
  <2> DEFINE u == [t EXCEPT !.try = 1 - t.try, !.loose = LetGo(answer.session, answer.agent)]
  <2>2. answer.session \in SessionRec /\ answer.agent \in AgentStates
    BY <1>1, EnsuredKeepsRuntime
  <2>3. LetGo(answer.session, answer.agent) \in BOOLEAN
    BY <2>2 DEF LetGo, SessionRec
  <2>4. u \in TaskRec /\ u.pc = t.pc /\ u.had = t.had /\ u.tried = t.tried
    <3>1. ASSUME NEW loose \in BOOLEAN
          PROVE  [t EXCEPT !.try = 1 - t.try, !.loose = loose] \in TaskRec
      <4>1. 1 - t.try \in Tries
        BY <1>1 DEF TaskRec, Tries
      <4> DEFINE try == 1 - t.try
      <4> HIDE DEF try
      <4>2. [t EXCEPT !.try = try, !.loose = loose] \in TaskRec
        BY <1>1, <4>1 DEF TaskRec, try
      <4> QED BY <4>2 DEF try
    <3>2. u \in TaskRec
      BY <2>3, <3>1
    <3> QED BY <1>1, <3>2 DEF TaskRec
  <2>5. /\ t.pc = "ensure" /\ Creates(a, Select({}))
        /\ agent' = [agent EXCEPT ![a] = "idle"] /\ UNCHANGED <<bans, turns, upsets>>
    BY <1>9, DiscardedIs DEF EnsureAgain, Replaced
  <2>6. Goes(a, u)
    BY <2>1
  <2> HIDE DEF u
  <2> QED BY <1>4, <1>5, <2>4, <2>5, <2>6, CreatesKeeps, DiscardedIs
<1>10. CASE OpenTurn(a)
  <2> DEFINE u == [t EXCEPT !.pc = "run", !.try = 0]
  <2>1. u \in TaskRec /\ u.pc \in WithSession \ {"settle"} /\ u.had = t.had /\ u.tried = t.tried
    BY <1>1, TwoTries DEF TaskRec, WithSession
  <2>2. t.pc = "open" /\ Goes(a, u) /\ UNCHANGED <<bans, holder, session, agent, turns, upsets>>
    BY <1>10 DEF OpenTurn
  <2> HIDE DEF u
  <2> QED BY <1>1, <1>4, <2>1, <2>2, GoesOn, OneActor
<1>11. CASE SaveFails(a)
  <2>1. NoTask \in TaskRec /\ NoSession \in SessionRec /\ Shape(NoTask, NoSession, holder[a])
    BY NoTaskFits
  <2>2. /\ task' = [task EXCEPT ![a] = NoTask] /\ session' = [session EXCEPT ![a] = NoSession]
        /\ agent' = [agent EXCEPT ![a] = "idle"] /\ UNCHANGED <<bans, holder, turns, upsets>>
    BY <1>11, DiscardedIs DEF SaveFails, Becomes, Goes
  <2> QED BY <2>1, <2>2, Moves, OneActor, DiscardedIs
<1> QED
  BY <1>3, <1>6, <1>7, <1>8, <1>9, <1>10, <1>11 DEF Establishes

(* _fail_turn *)
LEMMA FailTurnKeeps ==
    ASSUME IInv, NEW a \in Actors, task[a].pc = "run",
           NEW result \in Retryable, FailTurn(a, result)
    PROVE  IInv'
<1> DEFINE t == task[a]
           heard == t.heard + Announced(t, result)
           loose == LetGo(session[a], AgentAfter(result))
           told == [t EXCEPT !.heard = heard, !.loose = loose]
<1>1. t \in TaskRec /\ session[a] \in SessionRec
  BY OneActor
<1>2. heard \in Nat /\ loose \in BOOLEAN
  BY <1>1 DEF Announced, LetGo, TaskRec, SessionRec
<1>3. ASSUME NEW n \in Nat, NEW b \in BOOLEAN
      PROVE  /\ [t EXCEPT !.heard = n, !.loose = b] \in TaskRec
             /\ [t EXCEPT !.heard = n, !.loose = b].tried = t.tried
             /\ [t EXCEPT !.heard = n, !.loose = b].had = t.had
  BY <1>1 DEF TaskRec
<1>4. told \in TaskRec /\ told.tried = t.tried /\ told.had = t.had
  BY <1>2, <1>3
<1>5. Concludes(a, told, Discarded(a), result) /\ UNCHANGED <<holder, turns, upsets>>
  BY DEF FailTurn
<1>6. /\ Discarded(a).session = NoSession /\ Discarded(a).session \in SessionRec
      /\ Discarded(a).agent \in AgentStates /\ result \in Terminal
  BY DiscardedIs DEF Retryable, Terminal
<1>7. task[a].pc \in WithSession
  BY DEF WithSession
<1> HIDE DEF told
<1> QED BY <1>4, <1>5, <1>6, <1>7, ConcludesKeeps

(* The turn on its runtime, until it is over or handed over.                *)
LEMMA RunsKeeps ==
    ASSUME IInv, NEW a \in Actors, Runs(a)
    PROVE  IInv'
<1> DEFINE t == task[a]
           Goings(u) == /\ u \in TaskRec /\ u.pc \in WithSession /\ u.had = t.had /\ u.tried = t.tried
                        /\ u.pc = "settle" => u.result # "none"
<1>1. /\ t \in TaskRec /\ session[a] \in SessionRec /\ agent[a] \in AgentStates
      /\ Shape(t, session[a], holder[a]) /\ bans \in Seq(Runtimes)
  BY OneActor
<1>2. ASSUME t.pc \in {"run", "again", "stream", "settle"} PROVE t.pc \in WithSession
  BY <1>2 DEF WithSession
<1>3. CASE NotAtRest(a)
  <2>1. PICK result \in Retryable : FailTurn(a, result)
    BY <1>3 DEF NotAtRest, Retryable
  <2> QED BY <1>3, <2>1, FailTurnKeeps DEF NotAtRest
<1>4. CASE UnavailableAgain(a)
  BY <1>4, FailTurnKeeps DEF UnavailableAgain, Retryable
<1>5. CASE Unavailable(a)
  <2> DEFINE u == [t EXCEPT !.pc = "again", !.try = 1]
  <2>1. Goings(u)
    BY <1>1, TwoTries DEF TaskRec, WithSession
  <2>2. /\ t.pc = "run" /\ Goes(a, u) /\ agent' = [agent EXCEPT ![a] = "recovering"]
        /\ UNCHANGED <<bans, holder, session, turns, upsets>>
    BY <1>5 DEF Unavailable
  <2>3. "recovering" \in AgentStates
    BY DEF AgentStates
  <2> HIDE DEF u
  <2> QED BY <1>1, <1>2, <2>1, <2>2, <2>3, GoesOn, OneActor
<1>6. CASE Again(a)
  <2> DEFINE u == [t EXCEPT !.pc = "run"]
  <2>1. Goings(u)
    BY <1>1 DEF TaskRec, WithSession
  <2>2. t.pc = "again" /\ Goes(a, u) /\ UNCHANGED <<bans, holder, turns, upsets>>
    BY <1>6 DEF Again
  <2>3. PICK answer \in Ensured(a) :
            /\ session' = [session EXCEPT ![a] = answer.session]
            /\ agent' = [agent EXCEPT ![a] = answer.agent]
    BY <1>6 DEF Again, Becomes
  <2>4. answer.session \in SessionRec /\ answer.session.rt = session[a].rt /\ answer.agent \in AgentStates
    BY <1>1, EnsuredKeepsRuntime
  <2> HIDE DEF u
  <2> QED BY <1>2, <2>1, <2>2, <2>3, <2>4, GoesOn, OneActor
<1>7. CASE Streams(a)
  <2> DEFINE u == [t EXCEPT !.pc = "stream"]
  <2>1. Goings(u)
    BY <1>1 DEF TaskRec, WithSession
  <2>2. /\ t.pc = "run" /\ Goes(a, u) /\ agent' = [agent EXCEPT ![a] = "working"]
        /\ UNCHANGED <<bans, holder, session, turns, upsets>>
    BY <1>7 DEF Streams
  <2>3. "working" \in AgentStates
    BY DEF AgentStates
  <2> HIDE DEF u
  <2> QED BY <1>1, <1>2, <2>1, <2>2, <2>3, GoesOn, OneActor
<1>8. ASSUME NEW live \in BOOLEAN, NEW result \in Terminal
      PROVE  /\ [session[a] EXCEPT !.live = live] \in SessionRec
             /\ [session[a] EXCEPT !.live = live].rt = session[a].rt
             /\ AgentAfter(result) \in AgentStates
  BY <1>1 DEF SessionRec, AgentAfter, AgentStates
<1>9. ASSUME NEW result \in Terminal
      PROVE  /\ t.heard + AnnouncedEvent(t, result) \in Nat /\ t.heard + Announced(t, result) \in Nat
             /\ t.heard + 1 \in Nat
  BY <1>1 DEF AnnouncedEvent, Announced, TaskRec
<1>10. CASE TurnEvent(a)
  <2>1. PICK result \in Terminal, live \in BOOLEAN :
            /\ session' = [session EXCEPT ![a].live = live]
            /\ agent' = [agent EXCEPT ![a] = AgentAfter(result)]
            /\ Goes(a, [t EXCEPT !.pc = "settle", !.result = result,
                                 !.heard = @ + AnnouncedEvent(t, result)])
    BY <1>10 DEF TurnEvent
  <2> DEFINE heard == t.heard + AnnouncedEvent(t, result)
             u == [t EXCEPT !.pc = "settle", !.result = result, !.heard = heard]
             s == [session[a] EXCEPT !.live = live]
  <2>2. heard \in Nat
    BY <1>9
  <2>3. Goes(a, u)
    BY <2>1
  <2> HIDE DEF heard
  <2>4. Goings(u)
    BY <1>1, <2>2 DEF TaskRec, WithSession, Terminal
  <2>5. t.pc = "stream" /\ UNCHANGED <<bans, holder, turns, upsets>>
    BY <1>10 DEF TurnEvent
  <2>6. session' = [session EXCEPT ![a] = s]
    BY <2>1
  <2>7. s \in SessionRec /\ s.rt = session[a].rt
    BY <1>8
  <2> HIDE DEF u, s
  <2> QED BY <1>2, <1>8, <2>1, <2>3, <2>4, <2>5, <2>6, <2>7, GoesOn, OneActor
<1>11. CASE StreamCut(a)
  <2>1. PICK result \in Retryable, live \in BOOLEAN :
            /\ session' = [session EXCEPT ![a].live = live]
            /\ agent' = [agent EXCEPT ![a] = AgentAfter(result)]
            /\ Goes(a, [t EXCEPT !.pc = "settle", !.result = result,
                                 !.heard = @ + Announced(t, result),
                                 !.cut = @ \/ result = "unknown"])
    BY <1>11 DEF StreamCut
  <2> DEFINE heard == t.heard + Announced(t, result)
             cut == t.cut \/ result = "unknown"
             u == [t EXCEPT !.pc = "settle", !.result = result, !.heard = heard, !.cut = cut]
             s == [session[a] EXCEPT !.live = live]
  <2>2. result \in Terminal
    BY DEF Retryable, Terminal
  <2>3. heard \in Nat /\ cut \in BOOLEAN
    BY <1>1, <1>9, <2>2 DEF TaskRec
  <2>4. Goes(a, u)
    BY <2>1
  <2> HIDE DEF heard, cut
  <2>5. Goings(u)
    BY <1>1, <2>2, <2>3 DEF TaskRec, WithSession, Terminal
  <2>6. t.pc = "stream" /\ UNCHANGED <<bans, holder, turns, upsets>>
    BY <1>11 DEF StreamCut
  <2>7. session' = [session EXCEPT ![a] = s]
    BY <2>1
  <2>8. s \in SessionRec /\ s.rt = session[a].rt
    BY <1>8, <2>2
  <2> HIDE DEF u, s
  <2> QED BY <1>2, <1>8, <2>1, <2>2, <2>4, <2>5, <2>6, <2>7, <2>8, GoesOn, OneActor
<1>12. CASE Resumes(a)
  <2> DEFINE u == [t EXCEPT !.pc = "stream", !.result = "none"]
             s == [session[a] EXCEPT !.live = TRUE]
  <2>1. Goings(u)
    BY <1>1 DEF TaskRec, WithSession
  <2>2. /\ t.pc = "settle" /\ Goes(a, u) /\ session' = [session EXCEPT ![a] = s]
        /\ agent' = [agent EXCEPT ![a] = "working"] /\ UNCHANGED <<bans, holder, turns>>
    BY <1>12 DEF Resumes
  <2>3. upsets' \in 0 .. MaxUpsets
    BY <1>12, OneActor, BoundsAssumption DEF Resumes, Upset
  <2>4. s \in SessionRec /\ s.rt = session[a].rt /\ "working" \in AgentStates
    BY <1>1 DEF SessionRec, AgentStates
  <2> HIDE DEF u, s
  <2> QED BY <1>2, <2>1, <2>2, <2>3, <2>4, GoesOn
<1>13. ASSUME NEW n \in Nat
       PROVE  /\ [t EXCEPT !.heard = n] \in TaskRec
              /\ [t EXCEPT !.heard = n].tried = t.tried /\ [t EXCEPT !.heard = n].had = t.had
  BY <1>1 DEF TaskRec
<1>14. ASSUME t.pc = "settle"
       PROVE  /\ t.result \in Terminal /\ t.pc \in WithSession /\ Told(t, t.result) \in TaskRec
              /\ Told(t, t.result).tried = t.tried /\ Told(t, t.result).had = t.had
  <2>0. t.result \in Terminal
    BY <1>1, <1>14 DEF Shape, TaskRec
  <2>1. t.heard \in Nat /\ t.heard + 1 \in Nat
    BY <1>1, <1>9, <2>0 DEF TaskRec
  <2>2. PICK n \in Nat : Told(t, t.result) = [t EXCEPT !.heard = n]
    BY <2>1 DEF Told
  <2> QED BY <1>2, <1>13, <1>14, <2>0, <2>2
<1>15. CASE Settles(a)
  <2>1. PICK answer \in Ensured(a) :
            Concludes(a, Told(t, t.result), Recovered(a, answer), t.result)
    BY <1>15 DEF Settles
  <2>2. t.pc = "settle" /\ UNCHANGED <<holder, turns, upsets>>
    BY <1>15 DEF Settles
  <2>3. answer.session \in SessionRec /\ answer.session.rt = session[a].rt /\ answer.agent \in AgentStates
    BY <1>1, EnsuredKeepsRuntime
  <2> DEFINE kept == Recovered(a, answer)
  <2>4. /\ kept.session \in SessionRec /\ kept.agent \in AgentStates
        /\ kept.session = NoSession \/ kept.session.rt = session[a].rt
    BY <2>3, DiscardedIs DEF Recovered
  <2> QED BY <1>14, <2>1, <2>2, <2>3, <2>4, ConcludesKeeps
<1>16. CASE Concluded(a)
  <2> DEFINE kept == Answer(session[a], session[a].live, agent[a])
  <2>1. /\ t.pc = "settle" /\ Concludes(a, Told(t, t.result), kept, t.result)
        /\ UNCHANGED <<holder, turns, upsets>>
    BY <1>16 DEF Concluded
  <2>2. kept.session = session[a] /\ kept.agent = agent[a]
    BY <1>1, DiscardedIs
  <2> QED BY <1>1, <1>14, <2>1, <2>2, ConcludesKeeps
<1>17. CASE Report(a)
  <2>1. t.pc = "report" /\ Goes(a, NoTask) /\ UNCHANGED <<holder, session, agent, turns, upsets>>
        /\ bans' = Recorded(a, t.result)
    BY <1>17 DEF Report
  <2>2. holder[a] \in Runtimes
    BY <1>1, <2>1 DEF Shape
  <2>3. bans' \in Seq(Runtimes)
    BY <1>1, <2>1, <2>2, RecordType DEF Recorded
  <2>4. NoTask \in TaskRec /\ Shape(NoTask, session[a], holder[a])
    BY <1>1, NoTaskFits DEF Shape
  <2> QED BY <1>1, <2>1, <2>3, <2>4, Moves, OneActor DEF Goes
<1> QED
  BY <1>3, <1>4, <1>5, <1>6, <1>7, <1>10, <1>11, <1>12, <1>15, <1>16, <1>17 DEF Runs

(* Between the turns, and beside them.                                      *)
LEMMA BesideKeeps ==
    ASSUME IInv, NEW a \in Actors,
           Begin(a) \/ ContextExpires(a) \/ ProcessDies(a) \/ IdleStop(a) \/ BanLapses
    PROVE  IInv'
<1> DEFINE t == task[a]
<1>1. /\ t \in TaskRec /\ session[a] \in SessionRec /\ agent[a] \in AgentStates
      /\ Shape(t, session[a], holder[a]) /\ bans \in Seq(Runtimes)
      /\ turns \in 0 .. MaxTurns /\ upsets \in 0 .. MaxUpsets
  BY OneActor
<1>2. ASSUME Upset PROVE upsets' \in 0 .. MaxUpsets
  BY <1>1, <1>2, BoundsAssumption DEF Upset
<1>3. CASE Begin(a)
  <2> DEFINE u == [NoTask EXCEPT !.pc = "take"]
  <2>1. u \in TaskRec /\ u.tried = {} /\ u.had = <<>> /\ u.pc = "take"
    BY NoTaskFits DEF TaskRec, NoTask
  <2>2. Shape(u, session[a], holder[a])
    <3> HIDE DEF u
    <3>1. Len(u.had) = 0 /\ Cardinality(u.tried) = 0
      BY <2>1, FS_EmptySet, EmptySeq
    <3> QED BY <1>1, <2>1, <3>1 DEF Shape, WithSession
  <2>3. turns' \in 0 .. MaxTurns
    BY <1>1, <1>3, BoundsAssumption DEF Begin
  <2>4. task' = [task EXCEPT ![a] = u] /\ UNCHANGED <<bans, holder, session, agent, upsets>>
    BY <1>3 DEF Begin, Goes
  <2> HIDE DEF u
  <2> QED BY <1>1, <2>1, <2>2, <2>3, <2>4, Moves, OneActor
<1>4. CASE ProcessDies(a)
  <2> DEFINE s == [session[a] EXCEPT !.live = FALSE]
  <2>1. s \in SessionRec /\ s.rt = session[a].rt
    BY <1>1 DEF SessionRec
  <2>2. session' = [session EXCEPT ![a] = s] /\ UNCHANGED <<bans, holder, agent, task, turns>>
    BY <1>4 DEF ProcessDies
  <2>3. session[a] # NoSession
    BY <1>4 DEF ProcessDies, NoSession
  <2> HIDE DEF s
  <2>4. Shape(t, s, holder[a])
    BY <1>1, <2>1, <2>3 DEF Shape
  <2>5. upsets' \in 0 .. MaxUpsets
    BY <1>2, <1>4 DEF ProcessDies
  <2> QED BY <1>1, <2>1, <2>2, <2>4, <2>5, Moves, OneActor
<1>5. CASE IdleStop(a)
  <2>1. /\ t.pc = "off" /\ session' = [session EXCEPT ![a] = NoSession]
        /\ agent' = [agent EXCEPT ![a] = "idle"]
        /\ UNCHANGED <<bans, holder, task, turns, upsets>>
    BY <1>5, DiscardedIs DEF IdleStop, Becomes
  <2>2. Shape(t, NoSession, holder[a])
    BY <1>1, <2>1 DEF Shape, WithSession
  <2> QED BY <1>1, <2>1, <2>2, Moves, OneActor, DiscardedIs
<1>6. CASE ContextExpires(a)
  <2> DEFINE Out(b) == [session[b] EXCEPT !.stale = TRUE]
  <2>1. /\ session' = [b \in Actors |-> IF session[b].rt = session[a].rt THEN Out(b) ELSE session[b]]
        /\ upsets' \in 0 .. MaxUpsets /\ UNCHANGED <<bans, holder, agent, task, turns>>
    BY <1>2, <1>6 DEF ContextExpires
  <2>2. session[a].rt \in Runtimes
    BY <1>1, <1>6 DEF ContextExpires, Shape, NoSession
  <2>3. ASSUME NEW b \in Actors
        PROVE  /\ session'[b] \in SessionRec
               /\ session'[b] # session[b] => /\ session'[b].rt = session[b].rt
                                             /\ session[b].rt \in Runtimes
    <3>1. session[b] \in SessionRec
      BY OneActor
    <3>2. Out(b) \in SessionRec /\ Out(b).rt = session[b].rt
      BY <3>1 DEF SessionRec
    <3> HIDE DEF Out
    <3> QED BY <2>1, <2>2, <3>1, <3>2
  <2> HIDE DEF Out
  <2>4. session' \in [Actors -> SessionRec]
    BY <2>1, <2>3
  <2>5. TypeOK'
    BY <2>1, <2>4 DEF IInv, TypeOK, SessionRec
  <2>6. ASSUME NEW b \in Actors PROVE Shape(task'[b], session'[b], holder'[b])
    <3>1. Shape(task[b], session[b], holder[b]) /\ task'[b] = task[b] /\ holder'[b] = holder[b]
      BY <2>1, OneActor
    <3>2. session[b].rt \in Runtimes => session[b] # NoSession
      BY RuntimesFinite DEF NoSession
    <3>3. CASE session'[b] = session[b]
      BY <3>1, <3>3
    <3>4. CASE session'[b] # session[b]
      BY <2>3, <3>1, <3>2, <3>4 DEF Shape
    <3> QED BY <3>3, <3>4
  <2> QED BY <2>5, <2>6 DEF IInv, Shape
<1>7. CASE BanLapses
  <2>1. bans # <<>> /\ bans' = Tail(bans) /\ upsets' \in 0 .. MaxUpsets
        /\ UNCHANGED <<holder, session, agent, task, turns>>
    BY <1>2, <1>7 DEF BanLapses
  <2>2. bans' \in Seq(Runtimes)
    BY <1>1, <2>1, HeadTailProperties
  <2> QED BY <1>1, <2>1, <2>2, Moves, OneActor
<1> QED BY <1>3, <1>4, <1>5, <1>6, <1>7

-----------------------------------------------------------------------------
(* The invariant, and what follows from it *)

(* A node that has just started has no task and no session.                 *)
LEMMA InvInit == Init => IInv
<1> SUFFICES ASSUME Init PROVE IInv
  OBVIOUS
<1>1. TypeOK
  <2>1. bans \in Seq(Runtimes)
    BY EmptySeq DEF Init
  <2>2. session \in [Actors -> SessionRec] /\ task \in [Actors -> TaskRec]
    BY NoTaskFits DEF Init
  <2> QED BY <2>1, <2>2, BoundsAssumption DEF Init, TypeOK, SessionRec, TaskRec, Tries
<1>2. ASSUME NEW a \in Actors PROVE Shape(task[a], session[a], holder[a])
  <2>1. task[a] = NoTask /\ session[a] = NoSession
    BY DEF Init
  <2> QED BY <2>1, NoTaskFits
<1> QED BY <1>1, <1>2 DEF IInv

(* Every step of a turn, of the pool and of a process keeps it.             *)
LEMMA InvStep == IInv /\ [Next]_vars => IInv'
<1> SUFFICES ASSUME IInv, [Next]_vars PROVE IInv'
  OBVIOUS
<1>1. CASE UNCHANGED vars
  BY <1>1 DEF vars, IInv, TypeOK, Shape
<1>2. ASSUME BanLapses, NEW a \in Actors PROVE IInv'
  BY <1>2, BesideKeeps
<1>3. ASSUME BanLapses, Actors = {} PROVE IInv'
  BY <1>3, HeadTailProperties, BoundsAssumption DEF BanLapses, Upset, IInv, TypeOK
<1>4. ASSUME NEW a \in Actors,
             Begin(a) \/ ContextExpires(a) \/ ProcessDies(a) \/ IdleStop(a)
      PROVE  IInv'
  BY <1>4, BesideKeeps
<1> QED
  BY <1>1, <1>2, <1>3, <1>4, EstablishesKeeps, RunsKeeps DEF Next

(* Who holds a conversation is who has its session, and a turn is handed on *)
(* once for each runtime at the most: the pool blames the runtime that had  *)
(* the turn.                                                                *)
THEOREM HolderRight == Spec => []HolderIsRight
<1>1. IInv => HolderIsRight
  <2> SUFFICES ASSUME IInv PROVE HolderIsRight
    OBVIOUS
  <2>1. TypeOK
    BY DEF IInv
  <2>2. ASSUME NEW a \in Actors
        PROVE  /\ Len(task[a].had) <= LastRuntime + 1
               /\ session[a] # NoSession => holder[a] = session[a].rt
    <3>1. task[a] \in TaskRec /\ Shape(task[a], session[a], holder[a])
      BY OneActor
    <3>2. /\ Cardinality(task[a].tried) \in Nat /\ Cardinality(task[a].tried) <= LastRuntime + 1
          /\ Len(task[a].had) \in Nat
      BY <3>1, TriedCount, LenProperties DEF TaskRec
    <3> QED BY <3>1, <3>2, BoundsAssumption DEF Shape
  <2> QED BY <2>1, <2>2 DEF HolderIsRight
<1> QED BY InvInit, InvStep, <1>1, PTL DEF Spec

-----------------------------------------------------------------------------
(* What the conversation hears, and what is left between turns *)

(* The agent is at work while a turn streams and only then, and at rest for *)
(* an actor without a turn or whose turn looks for its session; a session   *)
(* that answers is one whose thread the provider confirmed, and one that    *)
(* failed has no process.                                                   *)
Rests(t, s, g) ==
    /\ t.pc = "stream" <=> g = "working"
    /\ t.pc \in {"off", "take", "job", "ensure", "report"} => g = "idle"
    /\ t.pc \in {"off", "take", "report"} /\ s # NoSession => s.thread
    /\ t.pc \in {"open", "run"} => (g = "idle" => s.thread) /\ (g = "failed" => ~ s.live)
    /\ t.pc = "again" => g = "recovering"
    /\ t.pc \in {"stream", "settle"} => s.thread
    /\ t.pc = "settle" => g = AgentAfter(t.result)
    /\ t.loose => t.pc = "take" /\ t.had # <<>>

(* Nothing is heard of a turn before it is settled, and nothing of one that *)
(* another runtime may have.                                                *)
Hears(t) ==
    /\ t.pc \notin {"settle", "report"} /\ ~ t.cut => t.heard = 0
    /\ t.pc = "settle" => t.heard >= AnnouncedEvent(t, t.result)
    /\ t.pc = "settle" /\ ~ t.cut => t.heard = AnnouncedEvent(t, t.result)
    /\ t.pc = "report" => t.heard >= 1 /\ (~ t.cut => t.heard = 1)

Fares(a) == Rests(task[a], session[a], agent[a]) /\ Hears(task[a])
FInv == IInv /\ \A a \in Actors : Fares(a)

LEMMA FaresMoves ==
    ASSUME FInv, IInv', NEW a \in Actors, NEW t, NEW s, NEW g, Rests(t, s, g), Hears(t),
           task' = [task EXCEPT ![a] = t], session' = [session EXCEPT ![a] = s],
           agent' = [agent EXCEPT ![a] = g]
    PROVE  FInv'
<1>1. ASSUME NEW b \in Actors PROVE Fares(b)'
  <2>1. CASE b = a
    BY <2>1 DEF FInv, IInv, TypeOK, Fares, Rests, Hears
  <2>2. CASE b # a
    <3>1. task'[b] = task[b] /\ session'[b] = session[b] /\ agent'[b] = agent[b]
      BY <2>2 DEF FInv, IInv, TypeOK
    <3> QED BY <3>1 DEF FInv, Fares, Rests, Hears
  <2> QED BY <2>1, <2>2
<1> QED BY <1>1 DEF FInv

(* A session that comes back idle has its thread, and one that failed no    *)
(* process.                                                                 *)
LEMMA EnsuredFares ==
    ASSUME NEW a \in Actors, session[a] \in SessionRec, agent[a] \in AgentStates,
           agent[a] # "working", session[a].thread => agent[a] \in {"idle", "recovering"},
           NEW answer \in Ensured(a)
    PROVE  /\ answer.agent # "working"
           /\ answer.agent = "idle" => answer.session.thread
           /\ answer.agent = "failed" => ~ answer.session.live
<1> DEFINE s == session[a]
           Fits(x) == /\ x.agent # "working" /\ (x.agent = "idle" => x.session.thread)
                      /\ (x.agent = "failed" => ~ x.session.live)
<1>1. ASSUME NEW x \in SessionRec, NEW live \in BOOLEAN
      PROVE  /\ Fits(Answer(x, live, "recovering")) /\ Fits(Answer(x, FALSE, "failed"))
             /\ x.thread => Fits(Answer(x, TRUE, "idle"))
             /\ Fits(Answer([x EXCEPT !.thread = TRUE], TRUE, "idle"))
  BY <1>1 DEF Answer, SessionRec
<1>2. \A x \in Start(s) \cup Reconcile(s) : Fits(x)
  BY <1>1 DEF Start, Reconcile, Unsure
<1> QED BY <1>2 DEF Ensured

(* _conclude, given what the conversation has heard.                        *)
LEMMA ConcludesFares ==
    ASSUME FInv, IInv', NEW a \in Actors,
           NEW t \in TaskRec, NEW kept, kept.agent = "idle",
           kept.session = NoSession \/ kept.session.thread,
           NEW result \in Terminal, Concludes(a, t, kept, result), holder[a] \in Runtimes,
           ~ HandsOver(t, result) => ~ t.loose /\ t.heard >= 1 /\ (~ t.cut => t.heard = 1),
           HandsOver(t, result) /\ ~ t.cut => t.heard = 0
    PROVE  FInv'
<1> DEFINE log == Append(t.had, holder[a])
<1>1. log \in Seq(Runtimes) /\ log # <<>>
  BY DEF TaskRec
<1>2. CASE HandsOver(t, result)
  <2> DEFINE loose == t.loose \/ kept.session.live
             u == [t EXCEPT !.had = log, !.pc = "take", !.result = "none", !.loose = loose]
  <2>1. /\ task' = [task EXCEPT ![a] = u] /\ session' = [session EXCEPT ![a] = NoSession]
        /\ agent' = [agent EXCEPT ![a] = "idle"]
    BY <1>2, DiscardedIs DEF Concludes, Becomes, Goes, TaskRec
  <2> HIDE DEF log, loose
  <2>2. u.pc = "take" /\ u.had = log /\ u.heard = t.heard /\ u.cut = t.cut
    BY DEF TaskRec
  <2> HIDE DEF u
  <2>3. Rests(u, NoSession, "idle") /\ Hears(u)
    BY <1>1, <1>2, <2>2 DEF Rests, Hears
  <2> QED BY <2>1, <2>3, FaresMoves
<1>3. CASE ~ HandsOver(t, result)
  <2> DEFINE u == [t EXCEPT !.had = log, !.pc = "report", !.result = result]
  <2>1. /\ task' = [task EXCEPT ![a] = u] /\ session' = [session EXCEPT ![a] = kept.session]
        /\ agent' = [agent EXCEPT ![a] = kept.agent]
    BY <1>3 DEF Concludes, Becomes, Goes, TaskRec
  <2> HIDE DEF log
  <2>2. u.pc = "report" /\ u.loose = t.loose /\ u.heard = t.heard /\ u.cut = t.cut
    BY DEF TaskRec
  <2> HIDE DEF u
  <2>3. Rests(u, kept.session, kept.agent) /\ Hears(u)
    BY <1>3, <2>2 DEF Rests, Hears
  <2> QED BY <2>1, <2>3, FaresMoves
<1> QED BY <1>2, <1>3

(* The turn finds its session.                                              *)
LEMMA EstablishesFares ==
    ASSUME FInv, IInv', NEW a \in Actors, Establishes(a)
    PROVE  FInv'
<1> DEFINE t == task[a]
           Quiet(u) == u.heard = t.heard /\ u.cut = t.cut
<1>1. /\ IInv /\ t \in TaskRec /\ session[a] \in SessionRec /\ agent[a] \in AgentStates
      /\ Rests(t, session[a], agent[a]) /\ Hears(t)
  BY OneActor DEF FInv, Fares
<1>2. /\ session = [session EXCEPT ![a] = session[a]] /\ agent = [agent EXCEPT ![a] = agent[a]]
  BY <1>1, OneActor
<1>3. CASE TakeSession(a)
  <2> DEFINE r == Select(t.tried)
             s == IF session[a] = NoSession THEN Fresh(r) ELSE session[a]
             pc == IF s.stale THEN "job" ELSE "ensure"
             tried == t.tried \cup {s.rt}
             u == [t EXCEPT !.pc = pc, !.try = 0, !.tried = tried, !.loose = FALSE]
  <2>1. t.pc = "take" /\ Goes(a, u) /\ agent' = agent
    BY <1>3 DEF TakeSession
  <2>2. session' = [session EXCEPT ![a] = s]
    BY <1>2, <1>3 DEF TakeSession, Creates
  <2>3. agent[a] = "idle"
    BY <1>1, <2>1 DEF Rests
  <2>4. pc \in {"job", "ensure"}
    OBVIOUS
  <2> HIDE DEF tried, pc
  <2>5. u.pc = pc /\ Quiet(u) /\ u.loose = FALSE
    BY <1>1 DEF TaskRec
  <2> HIDE DEF u, s
  <2>6. Rests(u, s, agent[a]) /\ Hears(u)
    BY <1>1, <2>1, <2>3, <2>4, <2>5 DEF Rests, Hears
  <2> QED BY <1>2, <2>1, <2>2, <2>6, FaresMoves DEF Goes
<1>4. CASE StaleReplaced(a)
  <2> DEFINE u == [t EXCEPT !.pc = "ensure"]
             s == Fresh(Select({}))
  <2>1. /\ t.pc = "job" /\ Goes(a, u) /\ agent' = [agent EXCEPT ![a] = "idle"]
        /\ session' = [session EXCEPT ![a] = s]
    BY <1>4, DiscardedIs DEF StaleReplaced, Replaced, Creates
  <2>2. u.pc = "ensure" /\ Quiet(u) /\ u.loose = t.loose /\ u.had = t.had
    BY <1>1 DEF TaskRec
  <2> HIDE DEF u, s
  <2>3. Rests(u, s, "idle") /\ Hears(u)
    BY <1>1, <2>1, <2>2 DEF Rests, Hears
  <2> QED BY <1>2, <2>1, <2>3, FaresMoves DEF Goes
<1>5. CASE StaleKept(a)
  <2> DEFINE u == [t EXCEPT !.pc = "ensure"]
  <2>1. t.pc = "job" /\ Goes(a, u) /\ agent' = agent /\ session' = session
    BY <1>5 DEF StaleKept
  <2>2. u.pc = "ensure" /\ Quiet(u) /\ u.loose = t.loose /\ u.had = t.had
    BY <1>1 DEF TaskRec
  <2> HIDE DEF u
  <2>3. Rests(u, session[a], agent[a]) /\ Hears(u)
    BY <1>1, <2>1, <2>2 DEF Rests, Hears
  <2> QED BY <1>2, <2>1, <2>3, FaresMoves DEF Goes
<1>6. ASSUME t.pc = "ensure", NEW answer \in Ensured(a)
      PROVE  /\ answer.agent # "working"
             /\ answer.agent = "idle" => answer.session.thread
             /\ answer.agent = "failed" => ~ answer.session.live
  BY <1>1, <1>6, EnsuredFares DEF Rests
<1>7. CASE Ensure(a)
  <2> DEFINE u == [t EXCEPT !.pc = "open", !.loose = FALSE]
  <2>1. t.pc = "ensure" /\ Goes(a, u)
    BY <1>7 DEF Ensure
  <2>2. PICK answer \in Ensured(a) :
            /\ session' = [session EXCEPT ![a] = answer.session]
            /\ agent' = [agent EXCEPT ![a] = answer.agent]
    BY <1>7 DEF Ensure, Becomes
  <2>3. u.pc = "open" /\ Quiet(u) /\ u.loose = FALSE
    BY <1>1 DEF TaskRec
  <2> HIDE DEF u
  <2>4. Rests(u, answer.session, answer.agent) /\ Hears(u)
    BY <1>1, <1>6, <2>1, <2>3 DEF Rests, Hears
  <2> QED BY <2>1, <2>2, <2>4, FaresMoves DEF Goes
<1>8. CASE EnsureAgain(a)
  <2>1. PICK answer \in Ensured(a) :
            /\ answer.agent # "idle"
            /\ Goes(a, [t EXCEPT !.try = 1 - @, !.loose = LetGo(answer.session, answer.agent)])
    BY <1>8 DEF EnsureAgain
  <2> DEFINE loose == LetGo(answer.session, answer.agent)
             u == [t EXCEPT !.try = 1 - @, !.loose = loose]
             s == Fresh(Select({}))
  <2>2. /\ t.pc = "ensure" /\ session' = [session EXCEPT ![a] = s]
        /\ agent' = [agent EXCEPT ![a] = "idle"]
    BY <1>8, DiscardedIs DEF EnsureAgain, Replaced, Creates
  <2>3. answer.agent \in {"recovering", "failed"}
    BY <1>1, <1>6, <2>1, <2>2, EnsuredKeepsRuntime DEF AgentStates
  <2>4. loose = FALSE
    BY <1>6, <2>2, <2>3 DEF LetGo
  <2>5. Goes(a, u)
    BY <2>1
  <2> HIDE DEF loose
  <2>6. u.pc = t.pc /\ Quiet(u) /\ u.loose = FALSE
    BY <1>1, <2>4 DEF TaskRec
  <2> HIDE DEF u, s
  <2>7. Rests(u, s, "idle") /\ Hears(u)
    BY <1>1, <2>2, <2>6 DEF Rests, Hears
  <2> QED BY <2>2, <2>5, <2>7, FaresMoves DEF Goes
<1>9. CASE OpenTurn(a)
  <2> DEFINE u == [t EXCEPT !.pc = "run", !.try = 0]
  <2>1. t.pc = "open" /\ Goes(a, u) /\ agent' = agent /\ session' = session
    BY <1>9 DEF OpenTurn
  <2>2. u.pc = "run" /\ Quiet(u) /\ u.loose = t.loose /\ u.had = t.had
    BY <1>1 DEF TaskRec
  <2> HIDE DEF u
  <2>3. Rests(u, session[a], agent[a]) /\ Hears(u)
    BY <1>1, <2>1, <2>2 DEF Rests, Hears
  <2> QED BY <1>2, <2>1, <2>3, FaresMoves DEF Goes
<1>10. CASE SaveFails(a)
  <2>1. /\ t.pc = "open" /\ task' = [task EXCEPT ![a] = NoTask]
        /\ session' = [session EXCEPT ![a] = NoSession] /\ agent' = [agent EXCEPT ![a] = "idle"]
    BY <1>10, DiscardedIs DEF SaveFails, Becomes, Goes
  <2>2. Rests(NoTask, NoSession, "idle") /\ Hears(NoTask)
    BY DEF Rests, Hears, NoTask
  <2> QED BY <2>1, <2>2, FaresMoves
<1> QED BY <1>3, <1>4, <1>5, <1>7, <1>8, <1>9, <1>10 DEF Establishes

(* _fail_turn: no process goes with the session but where the turn goes to  *)
(* another runtime.                                                         *)
LEMMA FailTurnFares ==
    ASSUME FInv, IInv', NEW a \in Actors, task[a].pc = "run",
           agent[a] \in {"idle", "recovering", "failed"}, agent[a] = "idle" => ~ session[a].live,
           NEW result \in Retryable, result = "unknown" <=> agent[a] = "recovering",
           FailTurn(a, result)
    PROVE  FInv'
<1> DEFINE t == task[a]
           heard == t.heard + Announced(t, result)
           loose == LetGo(session[a], AgentAfter(result))
           told == [t EXCEPT !.heard = heard, !.loose = loose]
<1>1. /\ IInv /\ t \in TaskRec /\ session[a] \in SessionRec
      /\ Rests(t, session[a], agent[a]) /\ Hears(t) /\ Shape(t, session[a], holder[a])
  BY OneActor DEF FInv, Fares
<1>2. holder[a] \in Runtimes
  BY <1>1, RuntimesFinite DEF Shape, WithSession, NoSession
<1>3. loose = FALSE
  BY <1>1 DEF LetGo, AgentAfter, Rests
<1>4. heard \in Nat /\ (t.cut \/ t.heard = 0)
  BY <1>1 DEF Announced, TaskRec, Hears
<1>5. Concludes(a, told, Discarded(a), result)
  BY DEF FailTurn
<1> HIDE DEF heard, loose
<1>6. /\ told \in TaskRec /\ told.heard = heard /\ told.loose = FALSE
      /\ told.cut = t.cut /\ told.tried = t.tried
  BY <1>1, <1>3, <1>4 DEF TaskRec
<1> HIDE DEF told
<1>7. Discarded(a).agent = "idle" /\ Discarded(a).session = NoSession /\ result \in Terminal
  BY DiscardedIs DEF Retryable, Terminal
<1>8. HandsOver(told, result) <=> RetryAvailable(t)
  BY <1>6 DEF HandsOver, RetryAvailable
<1>9. heard = t.heard + IF RetryAvailable(t) THEN 0 ELSE 1
  BY DEF heard, Announced
<1>10. t.heard \in Nat
  BY <1>1 DEF TaskRec
<1>11. ~ HandsOver(told, result) => told.heard >= 1 /\ (~ told.cut => told.heard = 1)
  BY <1>4, <1>6, <1>8, <1>9, <1>10
<1>12. HandsOver(told, result) /\ ~ told.cut => told.heard = 0
  BY <1>4, <1>6, <1>8, <1>9, <1>10
<1> QED BY <1>2, <1>5, <1>6, <1>7, <1>11, <1>12, ConcludesFares

(* The turn on its runtime.                                                 *)
LEMMA RunsFares ==
    ASSUME FInv, IInv', NEW a \in Actors, Runs(a)
    PROVE  FInv'
<1> DEFINE t == task[a]
           Quiet(u) == u.heard = t.heard /\ u.cut = t.cut /\ u.loose = t.loose /\ u.had = t.had
<1>1. /\ IInv /\ t \in TaskRec /\ session[a] \in SessionRec /\ agent[a] \in AgentStates
      /\ Rests(t, session[a], agent[a]) /\ Hears(t) /\ Shape(t, session[a], holder[a])
  BY OneActor DEF FInv, Fares
<1>2. /\ session = [session EXCEPT ![a] = session[a]] /\ agent = [agent EXCEPT ![a] = agent[a]]
  BY <1>1, OneActor
<1>3. t.pc \in WithSession => holder[a] \in Runtimes
  BY <1>1, RuntimesFinite DEF Shape, NoSession
<1>4. CASE NotAtRest(a)
  <2>1. agent[a] \in {"recovering", "failed"} /\ t.pc = "run"
    BY <1>1, <1>4 DEF NotAtRest, AgentStates, Rests
  <2>2. PICK result \in Retryable :
            FailTurn(a, result) /\ (result = "unknown" <=> agent[a] = "recovering")
    BY <1>4 DEF NotAtRest, Retryable
  <2> QED BY <2>1, <2>2, FailTurnFares
<1>5. CASE UnavailableAgain(a)
  BY <1>5, FailTurnFares DEF UnavailableAgain, Retryable
<1>6. CASE Unavailable(a)
  <2> DEFINE u == [t EXCEPT !.pc = "again", !.try = 1]
  <2>1. t.pc = "run" /\ Goes(a, u) /\ agent' = [agent EXCEPT ![a] = "recovering"] /\ session' = session
    BY <1>6 DEF Unavailable
  <2>2. u.pc = "again" /\ Quiet(u)
    BY <1>1 DEF TaskRec
  <2> HIDE DEF u
  <2>3. Rests(u, session[a], "recovering") /\ Hears(u)
    BY <1>1, <2>1, <2>2 DEF Rests, Hears
  <2> QED BY <1>2, <2>1, <2>3, FaresMoves DEF Goes
<1>7. ASSUME agent[a] = "recovering", NEW answer \in Ensured(a)
      PROVE  /\ answer.agent # "working"
             /\ answer.agent = "idle" => answer.session.thread
             /\ answer.agent = "failed" => ~ answer.session.live
  BY <1>1, <1>7, EnsuredFares
<1>8. CASE Again(a)
  <2> DEFINE u == [t EXCEPT !.pc = "run"]
  <2>1. t.pc = "again" /\ Goes(a, u)
    BY <1>8 DEF Again
  <2>2. PICK answer \in Ensured(a) :
            /\ session' = [session EXCEPT ![a] = answer.session]
            /\ agent' = [agent EXCEPT ![a] = answer.agent]
    BY <1>8 DEF Again, Becomes
  <2>3. u.pc = "run" /\ Quiet(u)
    BY <1>1 DEF TaskRec
  <2>4. agent[a] = "recovering"
    BY <1>1, <2>1 DEF Rests
  <2> HIDE DEF u
  <2>5. Rests(u, answer.session, answer.agent) /\ Hears(u)
    BY <1>1, <1>7, <2>1, <2>3, <2>4 DEF Rests, Hears
  <2> QED BY <2>1, <2>2, <2>5, FaresMoves DEF Goes
<1>9. CASE Streams(a)
  <2> DEFINE u == [t EXCEPT !.pc = "stream"]
  <2>1. /\ t.pc = "run" /\ agent[a] = "idle" /\ Goes(a, u)
        /\ agent' = [agent EXCEPT ![a] = "working"] /\ session' = session
    BY <1>9 DEF Streams
  <2>2. u.pc = "stream" /\ Quiet(u)
    BY <1>1 DEF TaskRec
  <2> HIDE DEF u
  <2>3. Rests(u, session[a], "working") /\ Hears(u)
    BY <1>1, <2>1, <2>2 DEF Rests, Hears
  <2> QED BY <1>2, <2>1, <2>3, FaresMoves DEF Goes
<1>10. ASSUME NEW live \in BOOLEAN
       PROVE  [session[a] EXCEPT !.live = live].thread = session[a].thread
  BY <1>1 DEF SessionRec
<1>11. \A result : AgentAfter(result) # "working"
  BY DEF AgentAfter
<1>12. t.heard \in Nat
  BY <1>1 DEF TaskRec
<1>13. CASE TurnEvent(a)
  <2>1. PICK result \in Terminal, live \in BOOLEAN :
            /\ session' = [session EXCEPT ![a].live = live]
            /\ agent' = [agent EXCEPT ![a] = AgentAfter(result)]
            /\ Goes(a, [t EXCEPT !.pc = "settle", !.result = result,
                                 !.heard = @ + AnnouncedEvent(t, result)])
    BY <1>13 DEF TurnEvent
  <2> DEFINE heard == t.heard + AnnouncedEvent(t, result)
             u == [t EXCEPT !.pc = "settle", !.result = result, !.heard = heard]
             s == [session[a] EXCEPT !.live = live]
  <2>2. t.pc = "stream" /\ Goes(a, u) /\ session' = [session EXCEPT ![a] = s]
    BY <1>13, <2>1 DEF TurnEvent
  <2> HIDE DEF heard
  <2>3. /\ u.pc = "settle" /\ u.result = result /\ u.heard = heard
        /\ u.cut = t.cut /\ u.loose = t.loose /\ u.tried = t.tried
    BY <1>1 DEF TaskRec
  <2>4. s.thread
    BY <1>1, <1>10, <2>2 DEF Rests
  <2> HIDE DEF u, s
  <2>5. AnnouncedEvent(u, result) = AnnouncedEvent(t, result) /\ AnnouncedEvent(t, result) \in Nat
    BY <2>3 DEF AnnouncedEvent, Announced, RetryAvailable
  <2>6. heard >= AnnouncedEvent(t, result) /\ (~ t.cut => heard = AnnouncedEvent(t, result))
    BY <1>1, <1>12, <2>2, <2>5 DEF heard, Hears
  <2>7. Rests(u, s, AgentAfter(result)) /\ Hears(u)
    BY <1>1, <1>11, <2>2, <2>3, <2>4, <2>5, <2>6 DEF Rests, Hears
  <2> QED BY <2>1, <2>2, <2>7, FaresMoves DEF Goes
<1>14. CASE StreamCut(a)
  <2>1. PICK result \in Retryable, live \in BOOLEAN :
            /\ session' = [session EXCEPT ![a].live = live]
            /\ agent' = [agent EXCEPT ![a] = AgentAfter(result)]
            /\ Goes(a, [t EXCEPT !.pc = "settle", !.result = result,
                                 !.heard = @ + Announced(t, result),
                                 !.cut = @ \/ result = "unknown"])
    BY <1>14 DEF StreamCut
  <2> DEFINE heard == t.heard + Announced(t, result)
             cut == t.cut \/ result = "unknown"
             u == [t EXCEPT !.pc = "settle", !.result = result, !.heard = heard, !.cut = cut]
             s == [session[a] EXCEPT !.live = live]
  <2>2. t.pc = "stream" /\ Goes(a, u) /\ session' = [session EXCEPT ![a] = s]
    BY <1>14, <2>1 DEF StreamCut
  <2> HIDE DEF heard, cut
  <2>3. /\ u.pc = "settle" /\ u.result = result /\ u.heard = heard
        /\ u.cut = cut /\ u.loose = t.loose /\ u.tried = t.tried
    BY <1>1 DEF TaskRec
  <2>4. s.thread
    BY <1>1, <1>10, <2>2 DEF Rests
  <2> HIDE DEF u, s
  <2>5. /\ AnnouncedEvent(u, result) = AnnouncedEvent(t, result)
        /\ AnnouncedEvent(t, result) \in Nat /\ Announced(t, result) \in Nat
        /\ Announced(t, result) >= AnnouncedEvent(t, result)
        /\ result # "unknown" => Announced(t, result) = AnnouncedEvent(t, result)
    BY <2>3 DEF AnnouncedEvent, Announced, RetryAvailable
  <2>6. heard >= AnnouncedEvent(t, result) /\ (~ cut => heard = AnnouncedEvent(t, result))
    BY <1>1, <1>12, <2>2, <2>5 DEF heard, cut, Hears
  <2>7. Rests(u, s, AgentAfter(result)) /\ Hears(u)
    BY <1>1, <1>11, <2>2, <2>3, <2>4, <2>5, <2>6 DEF Rests, Hears
  <2> QED BY <2>1, <2>2, <2>7, FaresMoves DEF Goes
<1>15. CASE Resumes(a)
  <2> DEFINE u == [t EXCEPT !.pc = "stream", !.result = "none"]
             s == [session[a] EXCEPT !.live = TRUE]
  <2>1. /\ t.pc = "settle" /\ agent[a] = "recovering" /\ session[a].thread
        /\ Goes(a, u) /\ session' = [session EXCEPT ![a] = s]
        /\ agent' = [agent EXCEPT ![a] = "working"]
    BY <1>15 DEF Resumes
  <2>2. u.pc = "stream" /\ Quiet(u) /\ s.thread
    BY <1>1, <1>10, <2>1 DEF TaskRec
  <2>3. t.result = "unknown"
    BY <1>1, <2>1 DEF Rests, AgentAfter
  <2> HIDE DEF u, s
  <2>4. Rests(u, s, "working") /\ Hears(u)
    BY <1>1, <2>1, <2>2, <2>3 DEF Rests, Hears, AnnouncedEvent
  <2> QED BY <2>1, <2>4, FaresMoves DEF Goes
<1>16. ASSUME t.pc = "settle"
       PROVE  LET u == Told(t, t.result) IN
              /\ t.result \in Terminal /\ u \in TaskRec /\ ~ u.loose
              /\ HandsOver(u, t.result) <=> HandsOver(t, t.result)
              /\ ~ HandsOver(u, t.result) => u.heard >= 1 /\ (~ u.cut => u.heard = 1)
              /\ HandsOver(u, t.result) /\ ~ u.cut => u.heard = 0
  <2> DEFINE r == t.result
             n == IF r = "unknown" /\ ~ HandsOver(t, r) THEN t.heard + 1 ELSE t.heard
             u == Told(t, r)
  <2>1. r \in Terminal /\ ~ t.loose
    BY <1>1, <1>16 DEF Shape, Rests, TaskRec
  <2>2. n \in Nat
    BY <1>12
  <2>3. u = [t EXCEPT !.heard = n]
    BY DEF Told
  <2> HIDE DEF n, u
  <2>4. u \in TaskRec /\ u.heard = n /\ u.cut = t.cut /\ u.loose = t.loose /\ u.tried = t.tried
    BY <1>1, <2>2, <2>3 DEF TaskRec
  <2>5. HandsOver(u, r) <=> HandsOver(t, r)
    BY <2>4 DEF HandsOver, RetryAvailable
  <2>6. t.heard >= AnnouncedEvent(t, r) /\ (~ t.cut => t.heard = AnnouncedEvent(t, r))
    BY <1>1, <1>16 DEF Hears
  <2>7. /\ HandsOver(t, r) => AnnouncedEvent(t, r) = 0
        /\ ~ HandsOver(t, r) /\ r # "unknown" => AnnouncedEvent(t, r) = 1
        /\ r = "unknown" => AnnouncedEvent(t, r) = 0
    BY DEF AnnouncedEvent, Announced, HandsOver
  <2>8. ~ HandsOver(t, r) => n >= 1 /\ (~ t.cut => n = 1)
    BY <1>12, <2>6, <2>7 DEF n
  <2>9. HandsOver(t, r) /\ ~ t.cut => n = 0
    BY <2>6, <2>7 DEF n
  <2> QED BY <2>1, <2>4, <2>5, <2>8, <2>9 DEF u
<1>17. ASSUME t.pc = "settle", NEW kept, kept.agent = "idle",
              kept.session = NoSession \/ kept.session.thread,
              Concludes(a, Told(t, t.result), kept, t.result)
       PROVE  FInv'
  <2>1. holder[a] \in Runtimes
    BY <1>3, <1>17 DEF WithSession
  <2> DEFINE u == Told(t, t.result)
  <2> HIDE DEF u
  <2> QED BY <1>16, <1>17, <2>1, ConcludesFares DEF u
<1>18. CASE Settles(a)
  <2>1. PICK answer \in Ensured(a) :
            Concludes(a, Told(t, t.result), Recovered(a, answer), t.result)
    BY <1>18 DEF Settles
  <2>2. t.pc = "settle" /\ agent[a] = "recovering"
    BY <1>18 DEF Settles
  <2> DEFINE kept == Recovered(a, answer)
  <2>3. kept.agent = "idle" /\ (kept.session = NoSession \/ kept.session.thread)
    BY <1>7, <2>2, DiscardedIs DEF Recovered
  <2> HIDE DEF kept
  <2> QED BY <1>17, <2>1, <2>2, <2>3 DEF kept
<1>19. CASE Concluded(a)
  <2> DEFINE kept == Answer(session[a], session[a].live, agent[a])
  <2>1. /\ t.pc = "settle" /\ agent[a] # "recovering"
        /\ Concludes(a, Told(t, t.result), kept, t.result)
    BY <1>19 DEF Concluded
  <2>2. kept.agent = "idle" /\ kept.session.thread
    BY <1>1, <2>1, DiscardedIs DEF Rests, AgentAfter
  <2> HIDE DEF kept
  <2> QED BY <1>17, <2>1, <2>2
<1>20. CASE Report(a)
  <2>1. t.pc = "report" /\ task' = [task EXCEPT ![a] = NoTask] /\ UNCHANGED <<session, agent>>
    BY <1>20 DEF Report, Goes
  <2>2. Rests(NoTask, session[a], agent[a]) /\ Hears(NoTask)
    BY <1>1, <2>1 DEF Rests, Hears, NoTask
  <2> QED BY <1>2, <2>1, <2>2, FaresMoves
<1> QED
  BY <1>4, <1>5, <1>6, <1>8, <1>9, <1>13, <1>14, <1>15, <1>18, <1>19, <1>20 DEF Runs

(* Between the turns, and beside them.                                      *)
LEMMA BesideFares ==
    ASSUME FInv, IInv', NEW a \in Actors,
           Begin(a) \/ ContextExpires(a) \/ ProcessDies(a) \/ IdleStop(a)
    PROVE  FInv'
<1> DEFINE t == task[a]
<1>1. /\ IInv /\ t \in TaskRec /\ session[a] \in SessionRec
      /\ Rests(t, session[a], agent[a]) /\ Hears(t)
  BY OneActor DEF FInv, Fares
<1>2. /\ session = [session EXCEPT ![a] = session[a]] /\ agent = [agent EXCEPT ![a] = agent[a]]
      /\ task = [task EXCEPT ![a] = task[a]]
  BY <1>1, OneActor
<1>3. CASE Begin(a)
  <2> DEFINE u == [NoTask EXCEPT !.pc = "take"]
  <2>1. t.pc = "off" /\ task' = [task EXCEPT ![a] = u] /\ UNCHANGED <<session, agent>>
    BY <1>3 DEF Begin, Goes
  <2>2. u.pc = "take" /\ u.heard = 0 /\ ~ u.loose
    BY DEF NoTask
  <2> HIDE DEF u
  <2>3. Rests(u, session[a], agent[a]) /\ Hears(u)
    BY <1>1, <2>1, <2>2 DEF Rests, Hears
  <2> QED BY <1>2, <2>1, <2>3, FaresMoves
<1>4. CASE ProcessDies(a)
  <2> DEFINE s == [session[a] EXCEPT !.live = FALSE]
  <2>1. session' = [session EXCEPT ![a] = s] /\ UNCHANGED <<agent, task>> /\ session[a] # NoSession
    BY <1>4 DEF ProcessDies, NoSession
  <2>2. s.thread = session[a].thread /\ ~ s.live
    BY <1>1 DEF SessionRec
  <2> HIDE DEF s
  <2>3. Rests(t, s, agent[a])
    BY <1>1, <2>1, <2>2 DEF Rests
  <2> QED BY <1>1, <1>2, <2>1, <2>3, FaresMoves
<1>5. CASE IdleStop(a)
  <2>1. /\ t.pc = "off" /\ session' = [session EXCEPT ![a] = NoSession] /\ task' = task
        /\ agent' = [agent EXCEPT ![a] = "idle"]
    BY <1>5, DiscardedIs DEF IdleStop, Becomes
  <2>2. Rests(t, NoSession, "idle")
    BY <1>1, <2>1 DEF Rests
  <2> QED BY <1>1, <1>2, <2>1, <2>2, FaresMoves
<1>6. CASE ContextExpires(a)
  <2>1. /\ session' = [b \in Actors |-> IF session[b].rt = session[a].rt
                                      THEN [session[b] EXCEPT !.stale = TRUE] ELSE session[b]]
        /\ UNCHANGED <<agent, task>> /\ session[a].live
    BY <1>6 DEF ContextExpires
  <2>2. session[a].rt \in Runtimes
    BY <1>1, <2>1, OneActor DEF Shape, NoSession
  <2>3. ASSUME NEW b \in Actors PROVE Fares(b)'
    <3>1. session[b] \in SessionRec /\ Rests(task[b], session[b], agent[b]) /\ Hears(task[b])
      BY <1>1, OneActor DEF FInv, Fares
    <3> DEFINE out == [session[b] EXCEPT !.stale = TRUE]
    <3>2. out.thread = session[b].thread /\ out.live = session[b].live
      BY <3>1 DEF SessionRec
    <3>3. session[b].rt \in Runtimes => session[b] # NoSession
      BY RuntimesFinite DEF NoSession
    <3>4. session'[b] = session[b] \/ (session'[b] = out /\ session[b] # NoSession)
      BY <2>1, <2>2, <3>3
    <3> HIDE DEF out
    <3>5. Rests(task[b], session'[b], agent[b])
      BY <3>1, <3>2, <3>4 DEF Rests
    <3>6. task'[b] = task[b] /\ agent'[b] = agent[b]
      BY <2>1
    <3> QED BY <3>1, <3>5, <3>6 DEF Fares, Rests, Hears
  <2> QED BY <2>3 DEF FInv
<1> QED BY <1>3, <1>4, <1>5, <1>6

-----------------------------------------------------------------------------
(* The same of what a conversation has heard and what is at rest.           *)
LEMMA FaresInit == Init => FInv
<1> SUFFICES ASSUME Init PROVE FInv
  OBVIOUS
<1>1. ASSUME NEW a \in Actors PROVE Fares(a)
  BY DEF Init, Fares, Rests, Hears, NoTask
<1> QED BY <1>1, InvInit DEF FInv

LEMMA FaresStep == FInv /\ [Next]_vars => FInv'
<1> SUFFICES ASSUME FInv, [Next]_vars PROVE FInv'
  OBVIOUS
<1>1. IInv'
  BY InvStep DEF FInv
<1>2. CASE UNCHANGED <<session, agent, task>>
  <2>1. ASSUME NEW a \in Actors PROVE Fares(a)'
    BY <1>2 DEF FInv, Fares, Rests, Hears
  <2> QED BY <1>1, <2>1 DEF FInv
<1>3. ASSUME NEW a \in Actors,
             Begin(a) \/ ContextExpires(a) \/ ProcessDies(a) \/ IdleStop(a)
      PROVE  FInv'
  BY <1>1, <1>3, BesideFares
<1> QED
  BY <1>1, <1>2, <1>3, EstablishesFares, RunsFares DEF Next, vars, BanLapses

(* A conversation hears how its turn ended once, however many runtimes had  *)
(* the turn (TurnCoordinator, _conclude, notify_terminal).                  *)
THEOREM HeardOnce == Spec => []AnnouncedOnce
<1>1. FInv => AnnouncedOnce
  <2> SUFFICES ASSUME FInv, NEW a \in Actors
               PROVE  /\ ~ task[a].cut => task[a].heard <= 1
                      /\ task[a].pc = "report" => task[a].heard >= 1
    BY DEF AnnouncedOnce
  <2>1. Hears(task[a])
    BY DEF FInv, Fares
  <2>2. AnnouncedEvent(task[a], task[a].result) \in 0 .. 1
    BY DEF AnnouncedEvent, Announced
  <2> QED BY <2>1, <2>2 DEF Hears
<1> QED BY FaresInit, FaresStep, <1>1, PTL DEF Spec

(* The agent is at rest for an actor between its turns and while one looks  *)
(* for its session, and no process is left without a session but one whose  *)
(* runtime lost its turn to another (_discard_runtime_session).             *)
THEOREM RestBetweenTurns == Spec => []AtRestBetweenTurns
<1>1. FInv => AtRestBetweenTurns
  BY DEF FInv, Fares, Rests, AtRestBetweenTurns
<1> QED BY FaresInit, FaresStep, <1>1, PTL DEF Spec
=============================================================================

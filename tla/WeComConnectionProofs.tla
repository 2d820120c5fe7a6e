----------------------- MODULE WeComConnectionProofs -----------------------
(***************************************************************************)
(* Proofs about WeComConnection, for any sends, approvals and messages:     *)
(* OneAtATime and OutcomeTrue.  The invariant says how many parts of a call *)
(* the provider has taken for each place the call may be in, and what its   *)
(* last frame may still do to that; and that a call stands in the line for  *)
(* the lock exactly while it works, in front of it once it has the lock.    *)
(***************************************************************************)
EXTENDS WeComConnection, SequenceTheorems, WellFoundedInduction, TLAPS

Requests == Visible \cup {"upload"}
Pcs == Working \cup {None, "decide", "over"}
Results == {None, "confirmed", "partial", "failed", "unknown", "cancelled",
            "approved", "rejected", "stopped"}
CallRec == [pc : Pcs, todo : Seq(Requests), sock : BOOLEAN, done : Nat, after : BOOLEAN,
            result : Results]
Unheard == 0 .. 2
ChanRec == [open : BOOLEAN, silent : BOOLEAN, ready : BOOLEAN, degraded : BOOLEAN,
            unheard : Unheard]
Nets == 0 .. StartTries
Auths == 0 .. AuthTries
RunRec == [pc : {"dial", "auth", "read", "fetch", "leave", "backoff", "end"},
           why : {None, "normal", "lost"}, net : Nets, auth : Auths,
           startup : {"waiting", "done", "failed"}]
Wires == {None, "there", "taken", "refused", "odd"}

NoDup(s) == \A i, j \in DOMAIN s : s[i] = s[j] => i = j
In(s) == {s[i] : i \in DOMAIN s}

LineInv ==
    /\ line \in Seq(Calls \cup {Stopper}) /\ NoDup(line)
    /\ \A c \in Calls :
        /\ call[c].pc \in Working <=> c \in In(line)
        /\ call[c].pc \in Working \ {"lock"} => Head(line) = c
    /\ Stopper \in In(line) <=> stop = "lock"

AskedInv ==
    \A c \in Calls :
        /\ call[c].pc \in Working \cup {"decide"} /\ c \in Approvals
              => c \in asked \/ verdict[c] # None
        /\ c \in asked => call[c].pc \in Working \cup {"decide"}

(* A call at `a` whose last frame is at `w` and that shows `t` parts.  Only  *)
(* an outcome that says nothing may have a frame under way that still counts *)
Tells(a, w, t) ==
    /\ a.pc \in {None, "lock", "stage"} => w = None /\ t = 0 /\ a.done = 0
    /\ a.pc = "write" => w = None /\ t = a.done /\ a.todo # <<>>
    /\ a.pc = "ack" => /\ w # None
                       /\ t = IF w \in {"taken", "odd"} /\ Head(a.todo) \in Visible
                              THEN a.done + 1 ELSE a.done
    /\ a.pc = "decide" => w = None
    /\ w # None => a.todo # <<>>
    /\ a.pc # "over" => a.result = None
    /\ a.result \in {"confirmed", "failed", "partial"} =>
            t = a.done /\ (w = "there" => Head(a.todo) \notin Visible)
    /\ a.result = "confirmed" => a.todo = <<>>
    /\ a.result = "failed" => a.done = 0
    /\ a.result = "partial" => a.done > 0 /\ a.todo # <<>>

RunInv(r) ==
    r.pc # "end" => /\ r.startup = "waiting" => r.net < StartTries
                    /\ r.auth < AuthTries

CallInv == \A c \in Calls : Tells(call[c], wire[c], took[c])

TypeInv ==
    /\ call \in [Calls -> CallRec]
    /\ wire \in [Calls -> Wires]
    /\ took \in [Calls -> Nat] /\ asked \subseteq Calls
    /\ verdict \in [Calls -> {None, "approved", "rejected", "stopped"}]
    /\ chan \in ChanRec /\ run \in RunRec /\ RunInv(run)
    /\ stop \in {None, "lock", "runner", "done"}
    /\ upsets \in 0 .. MaxUpsets

IInv == TypeInv /\ LineInv /\ AskedInv /\ CallInv

-----------------------------------------------------------------------------
(* The line for the lock *)

LEMMA Names ==
    /\ Stopper \notin Calls /\ Approvals \subseteq Calls /\ Sends \subseteq Calls
    /\ Working = {"lock", "stage", "write", "ack"} /\ None = "none"
BY BoundsAssumption DEF Stopper, Calls, Working, None

(* m is the line l without x; whoever else was in front still is.           *)
Drops(l, x, m) ==
    /\ m \in Seq(Calls \cup {Stopper}) /\ NoDup(m)
    /\ In(m) = In(l) \ {x}
    /\ \A c \in Calls \ {x} : c \in In(l) /\ Head(l) = c => Head(m) = c

LEMMA LeastIn ==
    ASSUME NEW S \in SUBSET Nat, S # {}, NEW m, m = CHOOSE x \in S : \A y \in S : x <= y
    PROVE  m \in S
<1>1. PICK k \in S : \A i \in S : <<i, k>> \notin OpToRel(<, Nat)
  BY NatLessThanWellFounded, WFMin
<1>2. ASSUME NEW i \in S PROVE k <= i
  <2>1. <<i, k>> \notin OpToRel(<, Nat)
    BY <1>1
  <2>2. ~ (i < k)
    BY <2>1 DEF OpToRel
  <2> QED BY <2>2
<1> QED BY <1>2

(* m is l without its place k.                                              *)
Skips(l, k, m) ==
    /\ m \in Seq(Calls \cup {Stopper}) /\ Len(m) = Len(l) - 1
    /\ \A i \in 1 .. Len(l) - 1 : (i < k /\ m[i] = l[i]) \/ (i >= k /\ m[i] = l[i + 1])

LEMMA SkipsAt ==
    ASSUME NEW l \in Seq(Calls \cup {Stopper}), NEW k \in 1 .. Len(l)
    PROVE  Skips(l, k, SubSeq(l, 1, k - 1) \o SubSeq(l, k + 1, Len(l)))
<1> DEFINE E == Calls \cup {Stopper}
           n == Len(l)
           before == SubSeq(l, 1, k - 1)
           behind == SubSeq(l, k + 1, n)
           m == before \o behind
<1>1. n \in Nat /\ k \in Nat /\ k \in 1 .. n
  BY LenProperties
<1> HIDE DEF E
<1>2. \A i \in 1 .. n : l[i] \in E
  BY DEF E
<1> HIDE DEF n
<1>3. before \in Seq(E) /\ behind \in Seq(E)
  BY <1>1, <1>2, SubSeqProperties
<1>4. Len(before) = k - 1 /\ \A i \in 1 .. k - 1 : before[i] = l[i]
  <2>1. Len(before) = IF 1 <= k - 1 THEN k - 1 - 1 + 1 ELSE 0
    BY <1>1, <1>2, SubSeqProperties
  <2>2. \A i \in 1 .. k - 1 - 1 + 1 : before[i] = l[1 + i - 1]
    BY <1>1, <1>2, SubSeqProperties
  <2> HIDE DEF before
  <2> QED BY <1>1, <2>1, <2>2
<1>5. Len(behind) = n - k /\ \A i \in 1 .. n - k : behind[i] = l[k + i]
  <2>1. Len(behind) = IF k + 1 <= n THEN n - (k + 1) + 1 ELSE 0
    BY <1>1, <1>2, SubSeqProperties
  <2>2. \A i \in 1 .. n - (k + 1) + 1 : behind[i] = l[k + 1 + i - 1]
    BY <1>1, <1>2, SubSeqProperties
  <2> HIDE DEF behind
  <2>3. Len(behind) = n - k
    BY <1>1, <2>1
  <2>4. \A i \in Int : k + 1 + i - 1 = k + i
    BY <1>1
  <2> QED BY <1>1, <2>2, <2>3, <2>4
<1> HIDE DEF before, behind
<1>6. /\ m \in Seq(E) /\ Len(m) = Len(before) + Len(behind)
      /\ \A i \in 1 .. Len(before) + Len(behind) :
            m[i] = IF i <= Len(before) THEN before[i] ELSE behind[i - Len(before)]
  BY <1>3, ConcatProperties
<1> HIDE DEF m
<1>7. Len(m) = n - 1
  BY <1>1, <1>4, <1>5, <1>6
<1>8. ASSUME NEW i \in 1 .. n - 1
      PROVE  (i < k /\ m[i] = l[i]) \/ (i >= k /\ m[i] = l[i + 1])
  <2>1. i \in 1 .. Len(before) + Len(behind)
    BY <1>1, <1>4, <1>5
  <2>2. CASE i < k
    <3>1. i <= Len(before) /\ i \in 1 .. k - 1
      BY <1>1, <1>4, <2>2
    <3>2. m[i] = before[i]
      BY <1>6, <2>1, <3>1
    <3> QED BY <1>4, <2>2, <3>1, <3>2
  <2>3. CASE i >= k
    <3>1. ~ i <= Len(before) /\ i - Len(before) \in 1 .. n - k /\ k + (i - Len(before)) = i + 1
      BY <1>1, <1>4, <2>3
    <3>2. m[i] = behind[i - Len(before)]
      BY <1>6, <2>1, <3>1
    <3> QED BY <1>5, <2>3, <3>1, <3>2
  <2> QED BY <1>1, <2>2, <2>3
<1>9. Skips(l, k, m)
  BY <1>6, <1>7, <1>8 DEF Skips, E, n
<1> QED BY <1>9 DEF m, before, behind, n

(* Taking one place out of a line.                                          *)
LEMMA DropsAt ==
    ASSUME NEW l \in Seq(Calls \cup {Stopper}), NoDup(l), NEW k \in 1 .. Len(l),
           NEW m, Skips(l, k, m)
    PROVE  Drops(l, l[k], m)
<1> DEFINE n == Len(l)
<1>1. n \in Nat /\ k \in Nat /\ DOMAIN l = 1 .. n
  BY LenProperties
<1>3. /\ m \in Seq(Calls \cup {Stopper}) /\ Len(m) = n - 1
      /\ \A i \in 1 .. n - 1 : (i < k /\ m[i] = l[i]) \/ (i >= k /\ m[i] = l[i + 1])
  BY DEF Skips
<1> HIDE DEF n
<1>4. DOMAIN m = 1 .. n - 1 /\ k \in 1 .. n
  BY <1>3, LenProperties DEF n
<1>5. NoDup(m)
  <2> SUFFICES ASSUME NEW i \in 1 .. n - 1, NEW j \in 1 .. n - 1, m[i] = m[j] PROVE i = j
    BY <1>4 DEF NoDup
  <2>1. /\ i \in 1 .. n /\ i + 1 \in 1 .. n /\ j \in 1 .. n /\ j + 1 \in 1 .. n
    BY <1>1
  <2>2. \A p, q \in 1 .. n : l[p] = l[q] => p = q
    BY <1>1 DEF NoDup
  <2> QED BY <1>1, <1>3, <2>1, <2>2
<1>6. In(m) = In(l) \ {l[k]}
  <2>1. ASSUME NEW i \in 1 .. n - 1 PROVE m[i] \in In(l) /\ m[i] # l[k]
    <3>1. PICK p \in 1 .. n : p # k /\ m[i] = l[p]
      <4>1. i \in 1 .. n /\ i + 1 \in 1 .. n
        BY <1>1
      <4> QED BY <1>1, <1>3, <4>1
    <3>2. l[p] # l[k]
      BY <1>1, <1>4, <3>1 DEF NoDup
    <3> QED BY <1>1, <3>1, <3>2 DEF In
  <2>2. ASSUME NEW p \in 1 .. n, l[p] # l[k] PROVE l[p] \in In(m)
    <3>1. p # k
      BY <2>2
    <3>2. CASE p < k
      <4>1. p \in 1 .. n - 1 /\ ~ p >= k
        BY <1>1, <1>4, <3>2
      <4> QED BY <1>3, <1>4, <4>1 DEF In
    <3>3. CASE p > k
      <4>1. p - 1 \in 1 .. n - 1 /\ ~ p - 1 < k /\ p - 1 + 1 = p
        BY <1>1, <1>4, <3>3
      <4> QED BY <1>3, <1>4, <4>1 DEF In
    <3> QED BY <1>1, <3>1, <3>2, <3>3
  <2> QED BY <1>1, <1>4, <2>1, <2>2 DEF In
<1>7. ASSUME NEW c \in Calls \ {l[k]}, c \in In(l), Head(l) = c PROVE Head(m) = c
  <2>1. Head(l) = l[1]
    BY <1>1
  <2>2. k # 1
    BY <1>7, <2>1
  <2>3. 1 \in 1 .. n - 1 /\ ~ 1 >= k
    BY <1>1, <1>4, <2>2
  <2>4. m[1] = l[1]
    BY <1>3, <2>3
  <2>5. Head(m) = m[1]
    BY <1>3
  <2> QED BY <1>7, <2>1, <2>4, <2>5
<1> QED BY <1>3, <1>5, <1>6, <1>7 DEF Drops

(* A caller leaves the line.                                                *)
LEMMA WithoutDrops ==
    ASSUME line \in Seq(Calls \cup {Stopper}), NoDup(line), NEW x
    PROVE  Drops(line, x, Without(x))
<1> DEFINE I == {i \in 1 .. Len(line) : line[i] = x}
<1>1. Len(line) \in Nat /\ DOMAIN line = 1 .. Len(line)
  BY LenProperties
<1>2. CASE I = {}
  <2>1. Without(x) = line
    BY <1>2 DEF Without, RemoveFirst
  <2>2. x \notin In(line)
    BY <1>1, <1>2 DEF In
  <2> QED BY <2>1, <2>2 DEF Drops
<1>3. CASE I # {}
  <2> DEFINE k == SelectInSeq(line, LAMBDA v : v = x)
  <2>1. k = CHOOSE i \in I : \A j \in I : i <= j
    BY <1>3 DEF SelectInSeq, Min
  <2>2. I \in SUBSET Nat
    BY <1>1
  <2> HIDE DEF k
  <2>3. k \in I
    <3> HIDE DEF I
    <3> QED BY <1>3, <2>1, <2>2, LeastIn
  <2>4. Without(x) = SubSeq(line, 1, k - 1) \o SubSeq(line, k + 1, Len(line))
    BY <1>3 DEF Without, RemoveFirst, RemoveAt, k
  <2>5. k \in 1 .. Len(line) /\ line[k] = x
    BY <2>3
  <2> HIDE DEF I
  <2> QED BY <2>4, <2>5, SkipsAt, DropsAt
<1> QED BY <1>2, <1>3

(* The first of the line leaves it.                                         *)
LEMMA TailDrops ==
    ASSUME line \in Seq(Calls \cup {Stopper}), NoDup(line), line # <<>>
    PROVE  Drops(line, Head(line), Tail(line)) /\ Head(line) \in In(line)
<1>1. Len(line) \in Nat \ {0} /\ 1 \in 1 .. Len(line) /\ DOMAIN line = 1 .. Len(line)
      /\ Head(line) = line[1]
  BY LenProperties, EmptySeq
<1>2. Tail(line) = SubSeq(line, 1, 1 - 1) \o SubSeq(line, 1 + 1, Len(line))
  BY <1>1
<1> QED BY <1>1, <1>2, SkipsAt, DropsAt DEF In

(* Somebody new comes to its end.                                           *)
LEMMA Joins ==
    ASSUME line \in Seq(Calls \cup {Stopper}), NoDup(line), NEW x \in Calls \cup {Stopper},
           x \notin In(line)
    PROVE  /\ Append(line, x) \in Seq(Calls \cup {Stopper}) /\ NoDup(Append(line, x))
           /\ In(Append(line, x)) = In(line) \cup {x}
           /\ \A c \in In(line) : Head(line) = c => Head(Append(line, x)) = c
<1> DEFINE m == Append(line, x)
           n == Len(line)
<1>1. n \in Nat /\ DOMAIN line = 1 .. n
  BY LenProperties
<1>2. /\ m \in Seq(Calls \cup {Stopper}) /\ Len(m) = n + 1 /\ m[n + 1] = x
      /\ \A i \in 1 .. n : m[i] = line[i]
  BY <1>1
<1>3. DOMAIN m = 1 .. n + 1
  BY <1>2, LenProperties
<1> HIDE DEF m
<1>4. NoDup(m)
  BY <1>1, <1>2, <1>3 DEF NoDup, In
<1>5. In(m) = In(line) \cup {x}
  BY <1>1, <1>2, <1>3 DEF In
<1>6. ASSUME NEW c \in In(line), Head(line) = c PROVE Head(m) = c
  <2>1. n >= 1 /\ Head(line) = line[1]
    BY <1>1 DEF In
  <2>2. m # <<>> /\ Head(m) = m[1]
    BY <1>1, <1>2, EmptySeq
  <2> QED BY <1>2, <1>6, <2>1, <2>2
<1> QED BY <1>2, <1>4, <1>5, <1>6 DEF m

-----------------------------------------------------------------------------
(* What a call comes to *)

LEMMA OverType ==
    ASSUME NEW a \in CallRec, NEW result \in Results
    PROVE  /\ Over(a, result) \in CallRec /\ Over(a, result).pc = "over"
           /\ Over(a, result).result = result /\ Over(a, result).done = a.done
           /\ Over(a, result).todo = a.todo
BY DEF Over, CallRec, Pcs

(* A call that ends without a further part has shown what was confirmed.    *)
LEMMA ClearTells ==
    ASSUME NEW a \in CallRec, NEW w \in Wires, NEW t \in Nat, t = a.done,
           w # None => a.todo # <<>>, w = "there" => Head(a.todo) \notin Visible,
           a.done > 0 => a.todo # <<>>
    PROVE  /\ ClearFailure(a) \in CallRec /\ ClearFailure(a).pc = "over"
           /\ Tells(ClearFailure(a), w, t)
<1> DEFINE result == IF a.done > 0 THEN "partial" ELSE "failed"
<1>1. result \in Results /\ a.done \in Nat
  BY DEF Results, CallRec
<1>2. ClearFailure(a) = Over(a, result)
  BY DEF ClearFailure
<1>3. /\ Over(a, result) \in CallRec /\ Over(a, result).pc = "over"
      /\ Over(a, result).result = result /\ Over(a, result).done = a.done
      /\ Over(a, result).todo = a.todo
  BY <1>1, OverType
<1>4. /\ result = "failed" => a.done = 0
      /\ result = "partial" => a.done > 0
      /\ result # "confirmed"
  BY <1>1
<1> HIDE DEF result
<1>5. Tells(Over(a, result), w, t)
  BY <1>3, <1>4 DEF Tells, None
<1> QED BY <1>2, <1>3, <1>5

(* An outcome nobody knows says nothing about a visible part.               *)
LEMMA UnknownTells ==
    ASSUME NEW a \in CallRec, NEW w \in Wires, NEW t \in Nat, a.todo # <<>>,
           Head(a.todo) \notin Visible => t = a.done
    PROVE  Unknown(a) \in CallRec /\ Unknown(a).pc = "over" /\ Tells(Unknown(a), w, t)
<1>1. CASE Head(a.todo) = "upload"
  <2>1. Head(a.todo) \notin Visible
    BY <1>1 DEF Visible
  <2>2. Unknown(a) = ClearFailure(a)
    BY <1>1 DEF Unknown
  <2> QED BY <2>1, <2>2, ClearTells
<1>2. CASE Head(a.todo) # "upload"
  <2>1. Unknown(a) = Over(a, "unknown") /\ "unknown" \in Results
    BY <1>2 DEF Unknown, Results
  <2> QED BY <2>1, OverType DEF Tells, None
<1> QED BY <1>1, <1>2

(* The next request of a call with nothing under way.                       *)
LEMMA OnwardTells ==
    ASSUME NEW a \in CallRec, a.result = None, NEW b \in Onward(a), NEW t \in Nat, t = a.done
    PROVE  b \in CallRec /\ b.pc \in {"write", "over"} /\ Tells(b, None, t)
<1> USE DEF None
<1>1. CASE a.todo = <<>>
  <2>1. b = Over(a, "confirmed") /\ "confirmed" \in Results
    BY <1>1 DEF Onward, Results
  <2> QED BY <1>1, <2>1, OverType DEF Tells
<1>2. CASE a.todo # <<>>
  <2>1. ASSUME NEW x, x = [a EXCEPT !.pc = "write"] \/ x = [a EXCEPT !.pc = "write", !.sock = TRUE]
        PROVE  x \in CallRec /\ x.pc = "write" /\ Tells(x, None, t)
    <3>1. /\ x \in CallRec /\ x.pc = "write" /\ x.result = a.result /\ x.done = a.done
          /\ x.todo = a.todo
      BY <2>1 DEF CallRec, Pcs, Working
    <3> QED BY <1>2, <3>1 DEF Tells
  <2>2. None \in Wires
    BY DEF Wires
  <2>3. \/ b = [a EXCEPT !.pc = "write"] \/ b = [a EXCEPT !.pc = "write", !.sock = TRUE]
        \/ b = Unknown(a) \/ b = ClearFailure(a)
    BY <1>2 DEF Onward
  <2> QED BY <1>2, <2>1, <2>2, <2>3, ClearTells, UnknownTells
<1> QED BY <1>1, <1>2

-----------------------------------------------------------------------------
(* Steps of a call *)

(* What the runner and stop do beside a call                                *)
Beside ==
    /\ chan' \in ChanRec /\ run' \in RunRec /\ RunInv(run)'
    /\ stop' \in {None, "lock", "runner", "done"} /\ (stop' = "lock" <=> stop = "lock")
    /\ upsets' \in 0 .. MaxUpsets

(* A call goes on to `a`, and stays in the line as long as it works.        *)
LEMMA Becoming ==
    ASSUME IInv, Beside, verdict' = verdict, NEW c \in Calls, NEW a \in CallRec,
           call' = [call EXCEPT ![c] = a],
           a.pc \in {"stage", "write", "ack", "decide", "over"},
           a.pc \in {"stage", "write", "ack"} =>
               call[c].pc \in Working /\ Head(line) = c /\ line' = line,
           a.pc \in {"decide", "over"} => Drops(line, c, line'),
           a.pc = "decide" => call[c].pc \in Working \cup {"decide"},
           asked' = IF a.pc = "over" THEN asked \ {c} ELSE asked,
           wire' \in [Calls -> Wires], took' \in [Calls -> Nat],
           \A d \in Calls \ {c} : wire'[d] = wire[d] /\ took'[d] = took[d],
           Tells(a, wire'[c], took'[c])
    PROVE  IInv'
<1>1. \A d \in Calls : call'[d] = IF d = c THEN a ELSE call[d]
  BY DEF IInv, TypeInv
<1>2. TypeInv'
  BY DEF IInv, TypeInv, Beside
<1>3. CallInv'
  BY <1>1 DEF IInv, CallInv
<1>4. AskedInv'
  BY <1>1, Names DEF IInv, AskedInv
<1>5. LineInv'
  <2>1. CASE a.pc \in {"stage", "write", "ack"}
    BY <1>1, <2>1, Names DEF IInv, LineInv, Beside
  <2>2. CASE a.pc \in {"decide", "over"}
    <3>1. line' \in Seq(Calls \cup {Stopper}) /\ NoDup(line') /\ In(line') = In(line) \ {c}
      BY <2>2 DEF Drops
    <3>2. Stopper \in In(line') <=> stop' = "lock"
      BY <3>1, Names DEF IInv, LineInv, Beside
    <3>3. ASSUME NEW d \in Calls
          PROVE  /\ call'[d].pc \in Working <=> d \in In(line')
                 /\ call'[d].pc \in Working \ {"lock"} => Head(line') = d
      <4>1. CASE d = c
        BY <1>1, <2>2, <3>1, <4>1, Names
      <4>2. CASE d # c
        BY <1>1, <2>2, <3>1, <4>2 DEF IInv, LineInv, Drops
      <4> QED BY <4>1, <4>2
    <3> QED BY <3>1, <3>2, <3>3 DEF LineInv
  <2> QED BY <2>1, <2>2
<1> QED BY <1>2, <1>3, <1>4, <1>5 DEF IInv

(* The same of Becomes.                                                     *)
LEMMA BecomesKeeps ==
    ASSUME IInv, Beside, verdict' = verdict, NEW c \in Calls, NEW a \in CallRec, Becomes(c, a),
           a.pc \in {"stage", "write", "ack", "decide", "over"},
           a.pc \in {"stage", "write", "ack"} => call[c].pc \in Working /\ Head(line) = c,
           a.pc = "decide" => call[c].pc \in Working \cup {"decide"},
           wire' \in [Calls -> Wires], took' \in [Calls -> Nat],
           \A d \in Calls \ {c} : wire'[d] = wire[d] /\ took'[d] = took[d],
           Tells(a, wire'[c], took'[c])
    PROVE  IInv'
<1>1. a.pc \in {"decide", "over"} => Drops(line, c, line')
  BY WithoutDrops DEF Becomes, IInv, LineInv
<1>2. a.pc \in {"stage", "write", "ack"} => line' = line
  BY DEF Becomes
<1> QED BY <1>1, <1>2, Becoming DEF Becomes

LEMMA BesideSame ==
    ASSUME IInv, UNCHANGED <<chan, run, stop>>, upsets' \in 0 .. MaxUpsets
    PROVE  Beside
BY DEF IInv, TypeInv, Beside, RunInv

(* What is known of one call.                                               *)
LEMMA OneCall ==
    ASSUME IInv, NEW c \in Calls
    PROVE  /\ call[c] \in CallRec /\ wire[c] \in Wires /\ took[c] \in Nat
           /\ Tells(call[c], wire[c], took[c])
           /\ wire \in [Calls -> Wires] /\ took \in [Calls -> Nat]
           /\ call[c].pc \in {"stage", "write", "ack"} => Head(line) = c
           /\ upsets \in 0 .. MaxUpsets /\ line \in Seq(Calls \cup {Stopper})
BY Names DEF IInv, TypeInv, LineInv, CallInv

LEMMA GotLockKeeps ==
    ASSUME IInv, NEW c \in Calls, GotLock(c)
    PROVE  IInv'
<1>1. /\ call[c].pc = "lock" /\ Head(line) = c
      /\ UNCHANGED <<wire, took, verdict, chan, run, stop, upsets>>
      /\ call[c] \in CallRec /\ call[c].result = None /\ wire[c] = None
      /\ took[c] = 0 /\ call[c].done = 0
  BY OneCall DEF GotLock, connecting, Tells
<1>2. Beside
  BY <1>1, OneCall, BesideSame
<1>3. PICK a : /\ Becomes(c, a)
               /\ a = [call[c] EXCEPT !.pc = "stage"] \/ a \in Onward(call[c])
  BY DEF GotLock
<1>4. CASE a = [call[c] EXCEPT !.pc = "stage"]
  <2>1. /\ a \in CallRec /\ a.pc = "stage" /\ a.result = None /\ a.done = 0
    BY <1>1, <1>4, Names DEF CallRec, Pcs
  <2>2. Tells(a, None, 0)
    BY <2>1 DEF Tells, None
  <2> QED BY <1>1, <1>2, <1>3, <2>1, <2>2, OneCall, BecomesKeeps, Names
<1>5. CASE a \in Onward(call[c])
  <2>1. a \in CallRec /\ a.pc \in {"write", "over"} /\ Tells(a, None, 0)
    BY <1>1, <1>5, OnwardTells
  <2> QED BY <1>1, <1>2, <1>3, <2>1, OneCall, BecomesKeeps, Names
<1> QED BY <1>3, <1>4, <1>5

(* Nothing has been shown of a call that gives up early.                    *)
LEMMA LockTimesOutKeeps ==
    ASSUME IInv, NEW c \in Calls, LockTimesOut(c) \/ Staged(c)
    PROVE  IInv'
<1>1. /\ call[c].pc \in {"lock", "stage"}
      /\ UNCHANGED <<wire, took, verdict, chan, run, stop, upsets>>
      /\ call[c] \in CallRec /\ call[c].result = None /\ wire[c] = None
      /\ took[c] = 0 /\ call[c].done = 0
      /\ None \in Wires
  BY OneCall DEF LockTimesOut, Staged, connecting, Tells, Wires
<1>2. Beside
  BY <1>1, OneCall, BesideSame
<1>3. CASE Becomes(c, ClearFailure(call[c]))
  <2>1. ClearFailure(call[c]) \in CallRec /\ ClearFailure(call[c]).pc = "over"
        /\ Tells(ClearFailure(call[c]), None, 0)
    BY <1>1, ClearTells DEF None
  <2> QED BY <1>1, <1>2, <1>3, <2>1, OneCall, BecomesKeeps
<1>4. CASE Staged(c) /\ ~ Becomes(c, ClearFailure(call[c]))
  <2>1. PICK a \in Onward(call[c]) : Becomes(c, a)
    BY <1>4 DEF Staged
  <2>2. a \in CallRec /\ a.pc \in {"write", "over"} /\ Tells(a, None, 0)
    BY <1>1, OnwardTells
  <2>3. Head(line) = c /\ call[c].pc \in Working
    BY <1>1, <1>4, OneCall, Names DEF Staged
  <2> QED BY <1>1, <1>2, <2>1, <2>2, <2>3, OneCall, BecomesKeeps
<1> QED BY <1>3, <1>4 DEF LockTimesOut

(* A frame reaches the socket, or the call ends in doubt of it.             *)
LEMMA WriteKeeps ==
    ASSUME IInv, NEW c \in Calls, Written(c) \/ WriteFails(c)
    PROVE  IInv'
<1>1. /\ call[c].pc = "write" /\ UNCHANGED <<took, verdict, chan, run, stop, upsets>>
      /\ call[c] \in CallRec /\ call[c].result = None /\ wire[c] = None
      /\ took[c] = call[c].done /\ call[c].todo # <<>> /\ Head(line) = c
  BY OneCall DEF Written, WriteFails, connecting, Tells
<1>2. Beside
  BY <1>1, OneCall, BesideSame
<1>3. CASE Written(c)
  <2> DEFINE a == [call[c] EXCEPT !.pc = "ack"]
  <2>1. /\ a \in CallRec /\ a.pc = "ack" /\ a.result = None /\ a.done = call[c].done
        /\ a.todo = call[c].todo
    BY <1>1, Names DEF CallRec, Pcs
  <2>2. call' = [call EXCEPT ![c] = a] /\ line' = line /\ asked' = asked
    BY <1>3 DEF Written
  <2> HIDE DEF a
  <2>3. /\ wire' \in [Calls -> Wires] /\ wire'[c] = "there"
        /\ \A d \in Calls \ {c} : wire'[d] = wire[d]
    BY <1>3, OneCall DEF Written, Wires
  <2>4. Tells(a, "there", took[c])
    BY <1>1, <2>1 DEF Tells, None
  <2> QED BY <1>1, <1>2, <2>1, <2>2, <2>3, <2>4, OneCall, Becoming, Names
<1>4. CASE WriteFails(c)
  <2> DEFINE a == Unknown(call[c])
  <2>1. wire' = wire \/ wire' = [wire EXCEPT ![c] = "there"]
    BY <1>4 DEF WriteFails
  <2>2. wire' \in [Calls -> Wires] /\ \A d \in Calls \ {c} : wire'[d] = wire[d]
    BY <2>1, OneCall DEF Wires
  <2>3. a \in CallRec /\ a.pc = "over" /\ Tells(a, wire'[c], took[c])
    BY <1>1, <2>2, OneCall, UnknownTells
  <2>4. Becomes(c, a)
    BY <1>4 DEF WriteFails
  <2> HIDE DEF a
  <2> QED BY <1>1, <1>2, <2>2, <2>3, <2>4, OneCall, BecomesKeeps
<1> QED BY <1>3, <1>4

(* The answer to a call's request, which the provider has taken or not.     *)
LEMMA AckedKeeps ==
    ASSUME IInv, NEW c \in Calls, Acked(c) \/ AckTimesOut(c)
    PROVE  IInv'
<1>1. /\ call[c].pc = "ack" /\ UNCHANGED <<took, verdict, chan, run, stop, upsets>>
      /\ call[c] \in CallRec /\ call[c].result = None /\ wire[c] # None
      /\ call[c].todo # <<>> /\ Head(line) = c /\ took[c] \in Nat
      /\ took[c] = IF wire[c] \in {"taken", "odd"} /\ Head(call[c].todo) \in Visible
                   THEN call[c].done + 1 ELSE call[c].done
  BY OneCall DEF Acked, AckTimesOut, connecting, Tells
<1>2. Beside
  BY <1>1, OneCall, BesideSame
<1>3. Head(call[c].todo) \notin Visible => took[c] = call[c].done
  BY <1>1
<1>4. CASE AckTimesOut(c)
  <2> DEFINE a == Unknown(call[c])
  <2>1. a \in CallRec /\ a.pc = "over" /\ Tells(a, wire[c], took[c])
    BY <1>1, <1>3, OneCall, UnknownTells
  <2>2. Becomes(c, a) /\ wire' = wire
    BY <1>4 DEF AckTimesOut
  <2> HIDE DEF a
  <2> QED BY <1>1, <1>2, <2>1, <2>2, OneCall, BecomesKeeps
<1>5. CASE Acked(c)
  <2>1. PICK b \in Acknowledged(call[c], wire[c]) : Becomes(c, b)
    BY <1>5 DEF Acked
  <2>2. /\ wire' \in [Calls -> Wires] /\ wire'[c] = None /\ None \in Wires
        /\ \A d \in Calls \ {c} : wire'[d] = wire[d]
    BY <1>5, OneCall DEF Acked, Wires, None
  <2>3. b \in CallRec /\ b.pc \in {"write", "over", "decide"} /\ Tells(b, None, took[c])
    <3>1. CASE wire[c] = "odd"
      <4>1. b = Unknown(call[c])
        BY <2>1, <3>1 DEF Acknowledged
      <4> QED BY <1>1, <1>3, <2>2, <4>1, UnknownTells
    <3>2. CASE wire[c] = "refused"
      <4>1. b = ClearFailure(call[c]) /\ took[c] = call[c].done
        BY <1>1, <2>1, <3>2 DEF Acknowledged
      <4> QED BY <1>1, <2>2, <4>1, ClearTells DEF None
    <3>3. CASE wire[c] = "taken" /\ call[c].todo = Card
      <4>1. b = [call[c] EXCEPT !.pc = "decide"]
        BY <2>1, <3>3 DEF Acknowledged
      <4>2. b \in CallRec /\ b.pc = "decide" /\ b.result = None
        BY <1>1, <4>1 DEF CallRec, Pcs
      <4> QED BY <4>2 DEF Tells, None
    <3>4. CASE wire[c] = "taken" /\ call[c].todo # Card
      <4> DEFINE done == IF Head(call[c].todo) \in Visible THEN call[c].done + 1 ELSE call[c].done
                 todo == Tail(call[c].todo)
                 a == [call[c] EXCEPT !.todo = todo, !.done = done]
      <4>1. b \in Onward(a)
        BY <2>1, <3>4 DEF Acknowledged
      <4>2. done \in Nat /\ todo \in Seq(Requests) /\ took[c] = done
        BY <1>1, <3>4, HeadTailProperties DEF CallRec
      <4> HIDE DEF done, todo
      <4>3. a \in CallRec /\ a.result = None /\ a.done = done
        BY <1>1, <4>2 DEF CallRec
      <4> HIDE DEF a
      <4> QED BY <1>1, <4>1, <4>2, <4>3, OnwardTells
    <3> QED BY <1>5, <3>1, <3>2, <3>3, <3>4 DEF Acked
  <2> QED BY <1>1, <1>2, <2>1, <2>2, <2>3, OneCall, BecomesKeeps, Names
<1> QED BY <1>4, <1>5

(* The caller cancels, or an approval has been decided.                     *)
LEMMA EndsKeeps ==
    ASSUME IInv, NEW c \in Calls, Cancelled(c) \/ Decided(c)
    PROVE  IInv'
<1>1. /\ call[c].pc \in {"lock", "stage", "write", "ack", "decide"}
      /\ UNCHANGED <<wire, took, verdict, chan, run, stop>> /\ upsets' \in 0 .. MaxUpsets
      /\ call[c] \in CallRec
      /\ wire[c] # None => call[c].todo # <<>>
  <2>1. upsets' \in 0 .. MaxUpsets
    <3>1. upsets \in 0 .. MaxUpsets /\ MaxUpsets \in Nat
      BY OneCall, BoundsAssumption
    <3>2. (upsets < MaxUpsets /\ upsets' = upsets + 1) \/ upsets' = upsets
      BY DEF Cancelled, Decided, Upset
    <3> QED BY <3>1, <3>2
  <2> QED BY <2>1, OneCall DEF Cancelled, Decided, connecting, Tells
<1>2. Beside
  BY <1>1, BesideSame
<1>3. PICK result \in {"cancelled", "approved", "rejected", "stopped"} :
          Becomes(c, Over(call[c], result))
  BY DEF Cancelled, Decided, IInv, TypeInv
<1> DEFINE a == Over(call[c], result)
<1>4. a \in CallRec /\ a.pc = "over" /\ a.result = result /\ a.todo = call[c].todo
  <2>1. result \in Results
    BY DEF Results
  <2> QED BY <1>1, <2>1, OverType
<1>5. Tells(a, wire[c], took[c])
  <2> HIDE DEF a
  <2>1. result \notin {"confirmed", "failed", "partial"} /\ a.result # "confirmed"
        /\ a.result # "failed" /\ a.result # "partial"
    BY <1>4
  <2> QED BY <1>1, <1>4, <2>1 DEF Tells, None
<1>6. Becomes(c, a)
  BY <1>3
<1> HIDE DEF a
<1> QED BY <1>1, <1>2, <1>4, <1>5, <1>6, OneCall, BecomesKeeps

(* The provider acts on a frame.                                            *)
LEMMA ProvidesKeeps ==
    ASSUME IInv, NEW c \in Calls, Provides(c)
    PROVE  IInv'
<1>1. PICK answer \in {"taken", "refused", "odd"} :
        /\ answer = "odd" => upsets < MaxUpsets
        /\ upsets' = IF answer = "odd" THEN upsets + 1 ELSE upsets
        /\ wire' = [wire EXCEPT ![c] = answer]
        /\ took' = IF answer # "refused" /\ Counts(c) THEN [took EXCEPT ![c] = took[c] + 1]
                   ELSE took
  BY DEF Provides
<1>2. /\ wire[c] = "there" /\ UNCHANGED <<line, call, asked, verdict, chan, run, stop>>
      /\ call[c].todo # <<>>
  BY OneCall DEF Provides, connecting, Tells, None
<1>3. upsets' \in 0 .. MaxUpsets
  <2>1. upsets \in 0 .. MaxUpsets /\ MaxUpsets \in Nat
    BY OneCall, BoundsAssumption
  <2> QED BY <1>1, <2>1
<1> DEFINE n == IF answer # "refused" /\ Counts(c) THEN took[c] + 1 ELSE took[c]
<1>4. /\ wire' \in [Calls -> Wires] /\ took' \in [Calls -> Nat] /\ n \in Nat
      /\ \A d \in Calls : /\ wire'[d] = IF d = c THEN answer ELSE wire[d]
                          /\ took'[d] = IF d = c THEN n ELSE took[d]
  <2>1. n \in Nat /\ answer \in Wires
    BY OneCall DEF Wires
  <2>2. took' = [took EXCEPT ![c] = n]
    <3>1. CASE answer # "refused" /\ Counts(c)
      BY <1>1, <3>1
    <3>2. CASE ~ (answer # "refused" /\ Counts(c))
      <4>1. took' = took /\ n = took[c]
        BY <1>1, <3>2
      <4> QED BY <4>1, OneCall
    <3> QED BY <3>1, <3>2
  <2> HIDE DEF n
  <2>3. wire \in [Calls -> Wires] /\ took \in [Calls -> Nat] /\ wire' = [wire EXCEPT ![c] = answer]
    BY <1>1, OneCall
  <2>4. wire' \in [Calls -> Wires] /\ \A d \in Calls : wire'[d] = IF d = c THEN answer ELSE wire[d]
    BY <2>1, <2>3
  <2>5. took' \in [Calls -> Nat] /\ \A d \in Calls : took'[d] = IF d = c THEN n ELSE took[d]
    BY <2>1, <2>2, <2>3
  <2> QED BY <2>1, <2>4, <2>5
<1> HIDE DEF n
<1>5. Tells(call[c], answer, n)
  <2>1. Tells(call[c], "there", took[c])
    BY <1>2, OneCall
  <2>2. Counts(c) <=> Head(call[c].todo) \in Visible
    BY DEF Counts
  <2> QED BY <1>1, <1>2, <2>1, <2>2 DEF Tells, None, n
<1>6. TypeInv'
  BY <1>2, <1>3, <1>4 DEF IInv, TypeInv, RunInv
<1>7. CallInv'
  <2> SUFFICES ASSUME NEW d \in Calls PROVE Tells(call[d], wire'[d], took'[d])
    BY <1>2 DEF CallInv
  <2>1. CASE d = c
    BY <1>4, <1>5, <2>1
  <2>2. CASE d # c
    <3>1. wire'[d] = wire[d] /\ took'[d] = took[d]
      BY <1>4, <2>2
    <3> QED BY <3>1 DEF IInv, CallInv
  <2> QED BY <2>1, <2>2
<1>8. LineInv' /\ AskedInv'
  BY <1>2 DEF IInv, LineInv, AskedInv
<1> QED BY <1>6, <1>7, <1>8 DEF IInv

(* A new call stands at the end of the line.                                *)
LEMMA NewKeeps ==
    ASSUME IInv, NEW c \in Calls, Send(c) \/ RequestApproval(c)
    PROVE  IInv'
<1>1. /\ call[c].pc = None /\ line' = Append(line, c) /\ call[c] \in CallRec
      /\ UNCHANGED <<wire, took, verdict, chan, run, stop, upsets>>
      /\ asked' = IF Send(c) THEN asked ELSE asked \cup {c}
      /\ Send(c) => c \in Sends
  BY OneCall, BoundsAssumption DEF Send, RequestApproval, connecting
<1>2. PICK a \in CallRec : /\ call' = [call EXCEPT ![c] = a] /\ a.pc = "lock"
                           /\ a.done = call[c].done /\ a.result = call[c].result
  <2>1. CASE Send(c)
    <3>1. PICK parts \in Messages : call' = [call EXCEPT ![c].pc = "lock", ![c].todo = parts]
      BY <2>1 DEF Send
    <3>2. parts \in Seq(Requests)
      BY BoundsAssumption DEF Requests, Visible
    <3> DEFINE a == [call[c] EXCEPT !.pc = "lock", !.todo = parts]
    <3>3. /\ a \in CallRec /\ a.pc = "lock" /\ a.done = call[c].done /\ a.result = call[c].result
      BY <1>1, <3>2, Names DEF CallRec, Pcs
    <3>4. call' = [call EXCEPT ![c] = a]
      BY <3>1 DEF IInv, TypeInv
    <3> QED BY <3>3, <3>4
  <2>2. CASE RequestApproval(c)
    <3> DEFINE a == [call[c] EXCEPT !.pc = "lock", !.todo = Card, !.sock = TRUE, !.after = Stopping]
    <3>1. Card \in Seq(Requests) /\ Stopping \in BOOLEAN
      BY DEF Card, Requests, Visible, Stopping
    <3>2. /\ a \in CallRec /\ a.pc = "lock" /\ a.done = call[c].done /\ a.result = call[c].result
      <4> HIDE DEF Stopping
      <4> QED BY <1>1, <3>1, Names DEF CallRec, Pcs
    <3>3. call' = [call EXCEPT ![c] = a]
      BY <2>2 DEF IInv, TypeInv, RequestApproval
    <3> QED BY <3>2, <3>3
  <2> QED BY <2>1, <2>2
<1>3. \A d \in Calls : call'[d] = IF d = c THEN a ELSE call[d]
  BY <1>2 DEF IInv, TypeInv
<1>4. Tells(a, wire[c], took[c])
  BY <1>1, <1>2, OneCall DEF Tells, None
<1>5. TypeInv'
  BY <1>1, <1>2 DEF IInv, TypeInv, RunInv
<1>6. CallInv'
  BY <1>1, <1>3, <1>4 DEF IInv, CallInv
<1>7. AskedInv'
  <2>1. c \in Approvals => ~ Send(c)
    BY <1>1, BoundsAssumption
  <2> QED BY <1>1, <1>2, <1>3, <2>1, Names DEF IInv, AskedInv
<1>8. LineInv'
  <2>1. c \notin In(line)
    BY <1>1, Names DEF IInv, LineInv
  <2>2. /\ line' \in Seq(Calls \cup {Stopper}) /\ NoDup(line') /\ In(line') = In(line) \cup {c}
        /\ \A d \in In(line) : Head(line) = d => Head(line') = d
    BY <1>1, <2>1, Joins DEF IInv, LineInv
  <2>3. Stopper \in In(line') <=> stop' = "lock"
    BY <1>1, <2>2, Names DEF IInv, LineInv
  <2>4. ASSUME NEW d \in Calls
        PROVE  /\ call'[d].pc \in Working <=> d \in In(line')
               /\ call'[d].pc \in Working \ {"lock"} => Head(line') = d
    <3>1. CASE d = c
      BY <1>2, <1>3, <2>2, <3>1, Names
    <3>2. CASE d # c
      <4>1. call'[d] = call[d] /\ (d \in In(line') <=> d \in In(line))
        BY <1>3, <2>2, <3>2
      <4>2. call[d].pc \in Working <=> d \in In(line)
        BY DEF IInv, LineInv
      <4>3. call[d].pc \in Working \ {"lock"} => Head(line) = d
        BY DEF IInv, LineInv
      <4> QED BY <2>2, <4>1, <4>2, <4>3
    <3> QED BY <3>1, <3>2
  <2> QED BY <2>2, <2>3, <2>4 DEF LineInv
<1> QED BY <1>5, <1>6, <1>7, <1>8 DEF IInv

(* A press decides.                                                         *)
LEMMA PressKeeps ==
    ASSUME IInv, NEW c \in Calls, Press(c)
    PROVE  IInv'
<1>1. PICK v \in {"approved", "rejected"} : verdict' = [verdict EXCEPT ![c] = v]
  BY DEF Press
<1>2. UNCHANGED <<line, call, wire, took, asked, chan, run, stop, upsets>>
  BY DEF Press, connecting
<1>3. TypeInv'
  BY <1>1, <1>2 DEF IInv, TypeInv, RunInv
<1>4. AskedInv'
  BY <1>1, <1>2 DEF IInv, AskedInv, TypeInv, None
<1>5. LineInv' /\ CallInv'
  BY <1>2 DEF IInv, LineInv, CallInv
<1> QED BY <1>3, <1>4, <1>5 DEF IInv

-----------------------------------------------------------------------------
(* Steps of the runner *)

LEMMA UpsetIn ==
    ASSUME IInv, Upset \/ upsets' = upsets
    PROVE  upsets' \in 0 .. MaxUpsets
<1>1. upsets \in 0 .. MaxUpsets /\ MaxUpsets \in Nat
  BY BoundsAssumption DEF IInv, TypeInv
<1>2. (upsets < MaxUpsets /\ upsets' = upsets + 1) \/ upsets' = upsets
  BY DEF Upset
<1> QED BY <1>1, <1>2

(* A step beside the calls.                                                 *)
LEMMA CallsStay ==
    ASSUME IInv, UNCHANGED calling, Beside
    PROVE  IInv'
<1>1. UNCHANGED <<line, call, wire, took, asked, verdict>>
  BY DEF calling
<1>2. TypeInv'
  BY <1>1 DEF IInv, TypeInv, Beside
<1>3. LineInv'
  BY <1>1 DEF IInv, LineInv, Beside
<1>4. AskedInv' /\ CallInv'
  BY <1>1 DEF IInv, AskedInv, CallInv
<1> QED BY <1>2, <1>3, <1>4 DEF IInv

(* What _run makes of a failure stays within its counters.                  *)
LEMMA FailedRun ==
    ASSUME NEW r \in RunRec, RunInv(r), r.pc # "end"
    PROVE  Failed(r) \in RunRec /\ RunInv(Failed(r))
<1> DEFINE n == r.net + 1
           net == IF r.startup = "waiting" THEN n ELSE 0
<1>1. /\ r.net \in Nets
      /\ r.startup = "waiting" => r.net < StartTries
      /\ r.auth < AuthTries /\ r.auth \in Auths
  BY DEF RunRec, RunInv
<1>2. /\ StartTries \in Nat \ {0} /\ AuthTries \in Nat \ {0}
      /\ \A k : k \in Nets <=> k \in Nat /\ k <= StartTries
  BY BoundsAssumption DEF Nets
<1>3. net \in Nets /\ (r.startup = "waiting" => n \in Nets)
  BY <1>1, <1>2 DEF RunInv
<1>4. CASE r.startup = "waiting" /\ n >= StartTries
  <2>1. Failed(r) = [r EXCEPT !.pc = "end", !.net = n, !.startup = "failed"] /\ n \in Nets
    BY <1>3, <1>4 DEF Failed
  <2> HIDE DEF n
  <2> QED BY <2>1 DEF RunRec, RunInv
<1>5. CASE ~ (r.startup = "waiting" /\ n >= StartTries)
  <2>1. Failed(r) = [r EXCEPT !.pc = "backoff", !.net = net]
    BY <1>5 DEF Failed
  <2>2. r.startup = "waiting" => net < StartTries
    BY <1>1, <1>2, <1>5
  <2> HIDE DEF n, net
  <2>3. Failed(r) \in RunRec
    BY <1>3, <2>1 DEF RunRec
  <2>4. Failed(r).startup = r.startup /\ Failed(r).net = net /\ Failed(r).auth = r.auth
    BY <2>1 DEF RunRec
  <2> QED BY <1>1, <2>2, <2>3, <2>4 DEF RunInv
<1> QED BY <1>4, <1>5

LEMMA RefusedRun ==
    ASSUME NEW r \in RunRec, RunInv(r), r.pc # "end"
    PROVE  Refused(r) \in RunRec /\ RunInv(Refused(r))
<1> DEFINE n == r.auth + 1
<1>1. /\ r.startup = "waiting" => r.net < StartTries
      /\ r.auth < AuthTries /\ r.auth \in Auths /\ r.net \in Nets
  BY DEF RunRec, RunInv
<1>2. AuthTries \in Nat /\ \A k : k \in Auths <=> k \in Nat /\ k <= AuthTries
  BY BoundsAssumption DEF Auths
<1>3. n \in Auths
  BY <1>1, <1>2
<1>4. CASE r.startup = "waiting" \/ n >= AuthTries
  <2>1. Refused(r) = [r EXCEPT !.pc = "end", !.auth = n, !.startup = "failed"]
    BY <1>4 DEF Refused
  <2> HIDE DEF n
  <2> QED BY <1>3, <2>1 DEF RunRec, RunInv
<1>5. CASE ~ (r.startup = "waiting" \/ n >= AuthTries)
  <2>1. Refused(r) = [r EXCEPT !.pc = "backoff", !.auth = n] /\ n < AuthTries
    BY <1>2, <1>3, <1>5 DEF Refused
  <2> HIDE DEF n
  <2> QED BY <1>1, <1>3, <2>1 DEF RunRec, RunInv
<1> QED BY <1>4, <1>5

(* The runner, and what it knows, is where the channel may be.              *)
LEMMA RunnerBeside ==
    ASSUME IInv, NEW run1 \in RunRec, NEW chan1 \in ChanRec, run' = run1, chan' = chan1,
           RunInv(run1), stop' = stop, Upset \/ upsets' = upsets
    PROVE  Beside
BY UpsetIn DEF IInv, TypeInv, Beside, RunInv

LEMMA RunnerKnown ==
    ASSUME IInv
    PROVE  run \in RunRec /\ RunInv(run) /\ chan \in ChanRec
BY DEF IInv, TypeInv

(* The sockets calls have in hand are not the new one.                      *)
LEMMA ConnectsKeeps ==
    ASSUME IInv, Connects
    PROVE  IInv'
<1> DEFINE chan1 == [chan EXCEPT !.open = TRUE, !.silent = FALSE]
           run1 == [run EXCEPT !.pc = "auth"]
<1>1. /\ chan1 \in ChanRec /\ run1 \in RunRec /\ RunInv(run1)
      /\ chan' = chan1 /\ run' = run1 /\ upsets' = upsets /\ stop' = stop
      /\ UNCHANGED <<line, wire, took, asked, verdict>>
  BY RunnerKnown DEF Connects, ChanRec, RunRec, RunInv
<1> HIDE DEF chan1, run1
<1>2. Beside
  BY <1>1, RunnerBeside
<1>3. /\ call' \in [Calls -> CallRec]
      /\ \A c \in Calls : /\ call'[c].pc = call[c].pc /\ call'[c].todo = call[c].todo
                          /\ call'[c].done = call[c].done /\ call'[c].result = call[c].result
  <2>1. call' = [c \in Calls |-> [call[c] EXCEPT !.sock = FALSE]]
    BY DEF Connects
  <2>2. ASSUME NEW c \in Calls
        PROVE  LET a == [call[c] EXCEPT !.sock = FALSE] IN
               /\ a \in CallRec /\ a.pc = call[c].pc /\ a.todo = call[c].todo
               /\ a.done = call[c].done /\ a.result = call[c].result
    BY OneCall DEF CallRec
  <2> QED BY <2>1, <2>2
<1>4. TypeInv'
  BY <1>1, <1>2, <1>3 DEF IInv, TypeInv, Beside
<1>5. LineInv' /\ AskedInv'
  BY <1>1, <1>3 DEF IInv, LineInv, AskedInv
<1>6. CallInv'
  <2> SUFFICES ASSUME NEW c \in Calls PROVE Tells(call'[c], wire[c], took[c])
    BY <1>1 DEF CallInv
  <2> QED BY <1>3, OneCall DEF Tells
<1> QED BY <1>4, <1>5, <1>6 DEF IInv

-----------------------------------------------------------------------------
(* A lost connection fails the calls that wait on it *)

(* Only the first of the line can be one of them.                           *)
LEMMA AcksFailedKeeps ==
    ASSUME IInv, AcksFailed, Beside
    PROVE  IInv'
<1> DEFINE waiting == {c \in Calls : call[c].pc \in {"write", "ack"}}
<1>1. /\ call' = [c \in Calls |-> IF c \in waiting THEN Unknown(call[c]) ELSE call[c]]
      /\ line' = IF line # <<>> /\ Head(line) \in waiting THEN Tail(line) ELSE line
      /\ asked' = asked \ waiting
      /\ UNCHANGED <<wire, took, verdict>>
  BY DEF AcksFailed
<1>2. call = [c \in Calls |-> call[c]]
  BY DEF IInv, TypeInv
<1>3. CASE waiting = {}
  <2>1. call' = call
    BY <1>1, <1>2, <1>3
  <2>2. line' = line /\ asked' = asked
    BY <1>1, <1>3
  <2> QED BY <1>1, <2>1, <2>2, CallsStay DEF calling
<1>4. ASSUME NEW c \in waiting PROVE IInv'
  <2>1. /\ c \in Calls /\ call[c].pc \in {"write", "ack"} /\ call[c].pc \in Working
        /\ c \in In(line) /\ Head(line) = c /\ line # <<>>
    BY <1>4, Names, EmptySeq DEF IInv, LineInv, In
  <2>2. waiting = {c}
    BY <2>1, OneCall
  <2> DEFINE a == Unknown(call[c])
  <2>3. call' = [call EXCEPT ![c] = a]
    BY <1>1, <1>2, <2>1, <2>2
  <2>4. a \in CallRec /\ a.pc = "over" /\ Tells(a, wire[c], took[c])
    <3>1. call[c].todo # <<>> /\ (Head(call[c].todo) \notin Visible => took[c] = call[c].done)
      BY <2>1, OneCall DEF Tells
    <3> QED BY <2>1, <3>1, OneCall, UnknownTells
  <2> HIDE DEF a
  <2>5. Drops(line, c, line')
    BY <1>1, <2>1, <2>2, TailDrops DEF IInv, LineInv
  <2>6. asked' = asked \ {c}
    BY <1>1, <2>2
  <2> QED BY <1>1, <2>1, <2>3, <2>4, <2>5, <2>6, OneCall, Becoming
<1> QED BY <1>3, <1>4

LEMMA ReleasesKeeps ==
    ASSUME IInv, Releases
    PROVE  IInv'
<1>1. /\ AcksFailed /\ chan' = Released /\ stop' = stop /\ upsets' = upsets /\ run.pc = "leave"
      /\ run' = IF run.why = "normal"
                THEN [run EXCEPT !.pc = "end", !.why = None, !.net = 0, !.auth = 0]
                ELSE [Failed(run) EXCEPT !.why = None]
  BY DEF Releases
<1>2. Released \in ChanRec
  <2>1. 0 \in Unheard
    BY DEF Unheard
  <2> QED BY <2>1, RunnerKnown DEF Released, ChanRec
<1>3. run' \in RunRec /\ RunInv(run')
  <2>1. 0 \in Nets /\ 0 \in Auths
    BY BoundsAssumption DEF Nets, Auths
  <2>2. CASE run.why = "normal"
    BY <1>1, <2>1, <2>2, RunnerKnown DEF RunRec, RunInv
  <2>3. CASE run.why # "normal"
    <3> DEFINE r == Failed(run)
    <3>1. r \in RunRec /\ RunInv(r) /\ run' = [r EXCEPT !.why = None]
      BY <1>1, <2>3, RunnerKnown, FailedRun
    <3> HIDE DEF r
    <3> QED BY <3>1 DEF RunRec, RunInv
  <2> QED BY <2>2, <2>3
<1>4. Beside
  BY <1>1, <1>2, <1>3, RunnerBeside
<1> QED BY <1>1, <1>4, AcksFailedKeeps

-----------------------------------------------------------------------------
(* The other steps of the runner *)

LEMMA RunnerGoesKeeps ==
    ASSUME IInv, RunnerGoes
    PROVE  IInv'
<1>1. CASE Connects
  BY <1>1, ConnectsKeeps
<1>2. CASE Releases
  BY <1>2, ReleasesKeeps
<1>3. CASE Authenticated
  <2> DEFINE chan1 == [chan EXCEPT !.ready = TRUE, !.unheard = 0]
             run1 == [run EXCEPT !.pc = "read", !.startup = "done", !.net = 0]
  <2>1. 0 \in Unheard /\ 0 \in Nets
    BY BoundsAssumption DEF Unheard, Nets
  <2>2. chan1 \in ChanRec /\ run1 \in RunRec /\ RunInv(run1)
    BY <1>3, <2>1, RunnerKnown DEF Authenticated, ChanRec, RunRec, RunInv
  <2>3. chan' = chan1 /\ run' = run1 /\ UNCHANGED <<calling, stop, upsets>>
    BY <1>3 DEF Authenticated
  <2> HIDE DEF chan1, run1
  <2> QED BY <2>2, <2>3, RunnerBeside, CallsStay
<1>4. CASE AuthenticationFails
  <2> DEFINE chan1 == [chan EXCEPT !.open = FALSE]
             run1 == Failed(run)
  <2>1. chan1 \in ChanRec /\ run1 \in RunRec /\ RunInv(run1)
    <3>1. run.pc # "end"
      BY <1>4 DEF AuthenticationFails
    <3>2. chan1 \in ChanRec
      BY RunnerKnown DEF ChanRec
    <3> QED BY <3>1, <3>2, RunnerKnown, FailedRun
  <2>2. chan' = chan1 /\ run' = run1 /\ UNCHANGED <<calling, stop, upsets>>
    BY <1>4 DEF AuthenticationFails
  <2> HIDE DEF chan1, run1
  <2> QED BY <2>1, <2>2, RunnerBeside, CallsStay
<1>5. CASE SocketClosed
  <2> DEFINE why == IF Stopping \/ chan.degraded THEN "normal" ELSE "lost"
             run1 == [run EXCEPT !.pc = "leave", !.why = why]
  <2>1. why \in {"normal", "lost"}
    OBVIOUS
  <2>2. run' = run1 /\ chan' = chan /\ UNCHANGED <<calling, stop, upsets>> /\ run.pc = "read"
    BY <1>5 DEF SocketClosed, Leaves
  <2> HIDE DEF why
  <2>3. run1 \in RunRec /\ RunInv(run1)
    BY <2>1, <2>2, RunnerKnown DEF RunRec, RunInv
  <2> HIDE DEF run1
  <2> QED BY <2>2, <2>3, RunnerKnown, RunnerBeside, CallsStay
<1>6. CASE FetchEnds
  <2> DEFINE unheard == IF chan.open /\ ~ chan.silent THEN 0 ELSE chan.unheard
             chan1 == [chan EXCEPT !.unheard = unheard]
             run1 == [run EXCEPT !.pc = "read"]
  <2>1. unheard \in Unheard
    <3>1. chan.unheard \in Unheard /\ 0 \in Unheard
      BY RunnerKnown DEF ChanRec, Unheard
    <3> QED BY <3>1
  <2>2. chan' = chan1 /\ run' = run1 /\ UNCHANGED <<calling, stop, upsets>> /\ run.pc = "fetch"
    BY <1>6 DEF FetchEnds
  <2> HIDE DEF unheard
  <2>3. chan1 \in ChanRec /\ run1 \in RunRec /\ RunInv(run1)
    BY <2>1, <2>2, RunnerKnown DEF ChanRec, RunRec, RunInv
  <2> HIDE DEF chan1, run1
  <2> QED BY <2>2, <2>3, RunnerBeside, CallsStay
<1>7. CASE BackoffEnds
  <2> DEFINE pc == IF Stopping \/ chan.degraded THEN "end" ELSE "dial"
             run1 == [run EXCEPT !.pc = pc]
  <2>1. pc \in {"end", "dial"}
    OBVIOUS
  <2>2. run' = run1 /\ chan' = chan /\ UNCHANGED <<calling, stop, upsets>> /\ run.pc = "backoff"
    BY <1>7 DEF BackoffEnds
  <2> HIDE DEF pc
  <2>3. run1 \in RunRec /\ RunInv(run1)
    BY <2>1, <2>2, RunnerKnown DEF RunRec, RunInv
  <2> HIDE DEF run1
  <2> QED BY <2>2, <2>3, RunnerKnown, RunnerBeside, CallsStay
<1>8. CASE Beats
  <2>1. chan.unheard \in Unheard
    BY RunnerKnown DEF ChanRec
  <2>2. chan.unheard # 2 => chan.unheard + 1 \in Unheard
    BY <2>1 DEF Unheard
  <2>3. /\ chan' = IF chan.unheard = 2 THEN [chan EXCEPT !.open = FALSE]
                   ELSE [chan EXCEPT !.unheard = chan.unheard + 1]
        /\ UNCHANGED <<calling, run, stop, upsets>>
    BY <1>8 DEF Beats
  <2>4. chan' \in ChanRec
    <3> DEFINE more == chan.unheard + 1
    <3>1. CASE chan.unheard = 2
      BY <2>3, <3>1, RunnerKnown DEF ChanRec
    <3>2. CASE chan.unheard # 2
      <4>1. chan' = [chan EXCEPT !.unheard = more] /\ more \in Unheard
        BY <2>2, <2>3, <3>2
      <4> HIDE DEF more
      <4> QED BY <4>1, RunnerKnown DEF ChanRec
    <3> QED BY <3>1, <3>2
  <2> QED BY <2>3, <2>4, RunnerKnown, RunnerBeside, CallsStay
<1> QED BY <1>1, <1>2, <1>3, <1>4, <1>5, <1>6, <1>7, <1>8 DEF RunnerGoes

LEMMA RunnerKeeps ==
    ASSUME IInv, Runner
    PROVE  IInv'
<1>1. CASE RunnerGoes
  BY <1>1, RunnerGoesKeeps
<1>2. CASE ConnectFails
  <2> DEFINE run1 == Failed(run)
  <2>1. run' = run1 /\ chan' = chan /\ UNCHANGED <<calling, stop>> /\ Upset /\ run.pc = "dial"
    BY <1>2 DEF ConnectFails
  <2>2. run1 \in RunRec /\ RunInv(run1)
    BY <2>1, RunnerKnown, FailedRun
  <2> HIDE DEF run1
  <2> QED BY <2>1, <2>2, RunnerKnown, RunnerBeside, CallsStay
<1>3. CASE AuthenticationRefused
  <2> DEFINE chan1 == [chan EXCEPT !.open = FALSE]
             run1 == Refused(run)
  <2>1. run' = run1 /\ chan' = chan1 /\ UNCHANGED <<calling, stop>> /\ Upset /\ run.pc = "auth"
    BY <1>3 DEF AuthenticationRefused
  <2>2. run1 \in RunRec /\ RunInv(run1)
    BY <2>1, RunnerKnown, RefusedRun
  <2>3. chan1 \in ChanRec
    BY RunnerKnown DEF ChanRec
  <2> HIDE DEF chan1, run1
  <2> QED BY <2>1, <2>2, <2>3, RunnerBeside, CallsStay
<1>4. CASE FrameFails
  <2> DEFINE run1 == [run EXCEPT !.pc = "leave", !.why = "lost"]
  <2>1. run' = run1 /\ chan' = chan /\ UNCHANGED <<calling, stop>> /\ Upset /\ run.pc = "read"
    BY <1>4 DEF FrameFails, Leaves
  <2>2. run1 \in RunRec /\ RunInv(run1)
    BY <2>1, RunnerKnown DEF RunRec, RunInv
  <2> HIDE DEF run1
  <2> QED BY <2>1, <2>2, RunnerKnown, RunnerBeside, CallsStay
<1>5. CASE Disconnected
  <2> DEFINE chan1 == [chan EXCEPT !.degraded = TRUE, !.open = FALSE]
             run1 == [run EXCEPT !.pc = "leave", !.why = "normal"]
  <2>1. run' = run1 /\ chan' = chan1 /\ UNCHANGED <<calling, stop>> /\ Upset /\ run.pc = "read"
    BY <1>5 DEF Disconnected, Leaves
  <2>2. run1 \in RunRec /\ RunInv(run1) /\ chan1 \in ChanRec
    BY <2>1, RunnerKnown DEF RunRec, RunInv, ChanRec
  <2> HIDE DEF chan1, run1
  <2> QED BY <2>1, <2>2, RunnerBeside, CallsStay
<1>6. CASE FetchStarts
  <2> DEFINE run1 == [run EXCEPT !.pc = "fetch"]
  <2>1. run' = run1 /\ chan' = chan /\ UNCHANGED <<calling, stop>> /\ Upset /\ run.pc = "read"
    BY <1>6 DEF FetchStarts
  <2>2. run1 \in RunRec /\ RunInv(run1)
    BY <2>1, RunnerKnown DEF RunRec, RunInv
  <2> HIDE DEF run1
  <2> QED BY <2>1, <2>2, RunnerKnown, RunnerBeside, CallsStay
<1>7. CASE PeerCloses \/ PeerFallsSilent
  <2>1. /\ chan' = [chan EXCEPT !.open = FALSE] \/ chan' = [chan EXCEPT !.silent = TRUE]
        /\ run' = run /\ UNCHANGED <<calling, stop>> /\ Upset
    BY <1>7 DEF PeerCloses, PeerFallsSilent
  <2>2. chan' \in ChanRec
    BY <2>1, RunnerKnown DEF ChanRec
  <2> QED BY <2>1, <2>2, RunnerKnown, RunnerBeside, CallsStay
<1> QED BY <1>1, <1>2, <1>3, <1>4, <1>5, <1>6, <1>7 DEF Runner

-----------------------------------------------------------------------------
(* Steps of stop *)

(* What was asked is answered, and stop stands in the line.                 *)
LEMMA StopStartsKeeps ==
    ASSUME IInv, StopStarts
    PROVE  IInv'
<1>1. /\ stop = None /\ stop' = "lock" /\ asked' = {} /\ line' = Append(line, Stopper)
      /\ verdict' = [c \in Calls |-> IF c \in asked /\ verdict[c] = None THEN "stopped"
                                  ELSE verdict[c]]
      /\ UNCHANGED <<call, wire, took, chan, run, upsets>>
  BY DEF StopStarts, Stopping, connecting
<1>2. verdict \in [Calls -> {None, "approved", "rejected", "stopped"}]
  BY DEF IInv, TypeInv
<1>3. /\ verdict' \in [Calls -> {None, "approved", "rejected", "stopped"}]
      /\ \A c \in Calls : c \in asked \/ verdict[c] # None => verdict'[c] # None
  BY <1>1, <1>2 DEF None
<1>4. TypeInv'
  BY <1>1, <1>3 DEF IInv, TypeInv, RunInv
<1>5. AskedInv' /\ CallInv'
  BY <1>1, <1>3 DEF IInv, AskedInv, CallInv
<1>6. LineInv'
  <2>1. Stopper \notin In(line)
    BY <1>1 DEF IInv, LineInv, None
  <2>2. /\ line' \in Seq(Calls \cup {Stopper}) /\ NoDup(line')
        /\ In(line') = In(line) \cup {Stopper}
        /\ \A c \in In(line) : Head(line) = c => Head(line') = c
    BY <1>1, <2>1, Joins DEF IInv, LineInv
  <2> QED BY <1>1, <2>2, Names DEF IInv, LineInv
<1> QED BY <1>4, <1>5, <1>6 DEF IInv

LEMMA StopClosesKeeps ==
    ASSUME IInv, StopClosesSocket
    PROVE  IInv'
<1>1. /\ stop' = "runner" /\ line' = Without(Stopper) /\ chan' = [chan EXCEPT !.open = FALSE]
      /\ UNCHANGED <<call, wire, took, asked, verdict, run, upsets>>
  BY DEF StopClosesSocket
<1>2. Drops(line, Stopper, line')
  BY <1>1, WithoutDrops DEF IInv, LineInv
<1>3. chan' \in ChanRec
  BY <1>1, RunnerKnown DEF ChanRec
<1>4. TypeInv'
  BY <1>1, <1>3 DEF IInv, TypeInv, RunInv
<1>5. AskedInv' /\ CallInv'
  BY <1>1 DEF IInv, AskedInv, CallInv
<1>6. LineInv'
  BY <1>1, <1>2, Names DEF IInv, LineInv, Drops
<1> QED BY <1>4, <1>5, <1>6 DEF IInv

LEMMA StopEndsKeeps ==
    ASSUME IInv, StopJoins \/ StopCancels
    PROVE  IInv'
<1>1. stop = "runner" /\ stop' = "done" /\ upsets' = upsets
  BY DEF StopJoins, StopCancels, connecting
<1>2. run' \in RunRec /\ RunInv(run')
  <2>1. run' = run \/ run' = [run EXCEPT !.pc = "end", !.why = None]
    BY DEF StopJoins, StopCancels, connecting
  <2> QED BY <2>1, RunnerKnown DEF RunRec, RunInv
<1>3. chan' \in ChanRec
  <2>1. chan' = chan \/ chan' = Released \/ chan' = [chan EXCEPT !.open = FALSE]
    BY DEF StopJoins, StopCancels, connecting
  <2>2. 0 \in Unheard
    BY DEF Unheard
  <2> QED BY <2>1, <2>2, RunnerKnown DEF Released, ChanRec
<1>4. Beside
  BY <1>1, <1>2, <1>3, UpsetIn DEF Beside, RunInv
<1>5. AcksFailed \/ UNCHANGED calling
  BY DEF StopJoins, StopCancels
<1> QED BY <1>4, <1>5, AcksFailedKeeps, CallsStay

-----------------------------------------------------------------------------
(* Together *)

LEMMA InitInv == Init => IInv
<1> SUFFICES ASSUME Init PROVE IInv
  OBVIOUS
<1> USE DEF Init
<1>1. NewCall \in CallRec /\ NewCall.pc = None /\ NewCall.done = 0 /\ NewCall.result = None
  BY EmptySeq DEF NewCall, CallRec, Pcs, Results
<1>2. chan \in ChanRec /\ run \in RunRec /\ RunInv(run) /\ upsets \in 0 .. MaxUpsets
  <2>1. 0 \in Unheard /\ 0 \in Nets /\ 0 \in Auths /\ 0 \in 0 .. MaxUpsets
    BY BoundsAssumption DEF Unheard, Nets, Auths
  <2>2. 0 < StartTries /\ 0 < AuthTries
    BY BoundsAssumption
  <2> QED BY <2>1, <2>2 DEF ChanRec, RunRec, RunInv
<1>3. TypeInv
  <2> HIDE DEF NewCall
  <2> QED BY <1>1, <1>2 DEF TypeInv, Wires
<1>4. LineInv
  <2>1. DOMAIN line = {} /\ line \in Seq(Calls \cup {Stopper})
    BY EmptySeq
  <2> HIDE DEF NewCall
  <2> QED BY <1>1, <2>1, Names DEF LineInv, NoDup, In, None
<1>5. AskedInv /\ CallInv
  <2> HIDE DEF NewCall
  <2> QED BY <1>1, Names DEF AskedInv, CallInv, Tells, None
<1> QED BY <1>3, <1>4, <1>5 DEF IInv

LEMMA InvStep == IInv /\ [Next]_vars => IInv'
<1> SUFFICES ASSUME IInv, [Next]_vars PROVE IInv'
  OBVIOUS
<1>1. ASSUME NEW c \in Calls, CallNext(c) PROVE IInv'
  BY <1>1, GotLockKeeps, LockTimesOutKeeps, WriteKeeps, AckedKeeps, EndsKeeps, ProvidesKeeps,
     NewKeeps, PressKeeps DEF CallNext, Goes
<1>2. CASE Runner
  BY <1>2, RunnerKeeps
<1>3. CASE Stop
  BY <1>3, StopStartsKeeps, StopClosesKeeps, StopEndsKeeps DEF Stop
<1>4. CASE UNCHANGED vars
  <2>1. UNCHANGED calling /\ UNCHANGED <<chan, run, stop, upsets>>
    BY <1>4 DEF vars, calling
  <2>2. Beside
    BY <2>1, UpsetIn, BesideSame
  <2> QED BY <2>1, <2>2, CallsStay
<1> QED BY <1>1, <1>2, <1>3, <1>4 DEF Next

LEMMA Invariant == Spec => []IInv
BY InitInv, InvStep, PTL DEF Spec

(* For any sends, approvals and messages, through every loss of the          *)
(* connection, deadline, cancellation and stop: one call at a time has the   *)
(* socket, in the order the lock was asked for; no call that is over holds   *)
(* it, and whoever waits for a decision is in reach of one.                  *)
THEOREM OneCallAtATime == Spec => []OneAtATime
<1>1. IInv => OneAtATime
  <2>1. LineInv => \A x : x \in In(line) <=> \E i \in DOMAIN line : line[i] = x
    BY DEF In
  <2>2. In(line) = {line[i] : i \in DOMAIN line}
    BY DEF In
  <2> QED BY <2>1, <2>2 DEF IInv, LineInv, AskedInv, OneAtATime
<1> QED BY <1>1, Invariant, PTL

(* For any sends and messages: what a send has reported is what the          *)
(* conversation shows of it, at once and whatever the provider still does    *)
(* with a frame of it.                                                       *)
THEOREM OutcomesTrue == Spec => []OutcomeTrue
<1>1. IInv => TypeOK
  BY DEF IInv, TypeInv, LineInv, TypeOK, CallRec, Pcs, Results, Requests, ChanRec, RunRec,
         Wires, Unheard, Nets, Auths
<1>2. IInv => OutcomeTrue
  <2> SUFFICES ASSUME IInv, NEW c \in Calls
               PROVE  /\ call[c].result \in {"confirmed", "failed", "partial"} => took[c] = call[c].done
                      /\ call[c].result = "confirmed" => call[c].todo = <<>>
                      /\ call[c].result = "failed" => took[c] = 0
                      /\ call[c].result = "partial" => took[c] > 0 /\ call[c].todo # <<>>
    BY <1>1 DEF OutcomeTrue
  <2> QED BY OneCall DEF Tells
<1> QED BY <1>2, Invariant, PTL
=============================================================================

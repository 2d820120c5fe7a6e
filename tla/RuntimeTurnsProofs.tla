------------------------ MODULE RuntimeTurnsProofs ------------------------
(***************************************************************************)
(* What the sessions of both runtimes keep, for any number of turns,       *)
(* steered messages, inputs of the provider's own and upsets.              *)
(*                                                                         *)
(* Claude: what is Due to a connection - inputs written and not taken, the *)
(* one worked on, results on their way, the one just claimed - is at most  *)
(* what it counts as pending, unless a turn went astray.  A step moves one *)
(* unit of it along, or both sides together.                               *)
(*                                                                         *)
(* Codex: turns are known by number.  A start the server has yet to read   *)
(* is of a turn nobody has run (StartsFresh, StartsDiffer), what it runs   *)
(* is the turn of the stream or one that went astray (RunsInv), and what   *)
(* it says of an end is how that turn ended (OutcomeInv, Numbers).         *)
(***************************************************************************)
EXTENDS MCRuntimeTurns, FiniteSetTheorems, TLAPS

-----------------------------------------------------------------------------
(* Claude *)

InTurn == turn.pc \in Turning

(* The types *)
Inboxes == [open : BOOLEAN, items : Seq(Items), adopted : BOOLEAN]
Clients == [reader : BOOLEAN, inbox : Inboxes, cycle : {"idle", "foreground", "wake", "adopted"},
            route : BOOLEAN, task : BOOLEAN]
Processes == [up : BOOLEAN, stdin : Nat, cycle : Results \cup {None},
              asks : BOOLEAN, out : Seq(Envelopes)]
Conns == [state : {"open", "stopping", "closed"}, lock : {None, "turn", "steer"},
          active : BOOLEAN, pending : Nat, init : BOOLEAN, doomed : BOOLEAN]
TurnRecs == [pc : Pcs, result : Results \cup {None}]
Pasts == [begun : BOOLEAN, early : BOOLEAN, astray : BOOLEAN]
ProcType == process \in Processes
ClientType == client \in Clients
ConnType == conn \in Conns
TurnType == turn \in TurnRecs
FlagType == steer \in {"off", "waits", "sends"} /\ old \in BOOLEAN
CountType == count \in [{"turns", "steers", "own", "upsets"} -> Nat]
PastType == past \in Pasts
Types == ProcType /\ ClientType /\ ConnType /\ TurnType /\ FlagType /\ CountType /\ PastType

(* How many results of persons a sequence holds, and what they still owe  *)
(* a connection                                                            *)
Tally(s) == Cardinality({i \in DOMAIN s : s[i] = HumanResult})
Yes(b) == IF b THEN 1 ELSE 0
Cycling == Yes(process.cycle = HumanResult)
Claimed == Yes(turn.result = HumanResult \/ turn.pc = "grace")
Sending == Yes(steer = "sends")
Due == process.stdin + Cycling + Tally(process.out) + Tally(client.inbox.items) + Claimed

(* An inbox is open, and a result counted, only within a turn *)
OpenInv ==
    /\ client.inbox.open <=> client.cycle \in {"foreground", "adopted"}
    /\ client.inbox.open <=> turn.pc \in Turning \ {"clears"}
    /\ ~ InTurn => ~ conn.active /\ conn.pending = 0
(* Who holds the lock of a connection *)
LockInv ==
    /\ conn.lock = "steer" <=> steer = "sends"
    /\ conn.lock = "turn" <=> turn.pc \in {"opens", "grace"}
    /\ ~ InTurn => steer # "sends"
    /\ turn.pc \notin Turning \cup {"off"} => steer = "off"
(* What a claim has found *)
ClaimInv ==
    /\ turn.pc = "grace" => conn.pending > 1
    /\ turn.pc \in {"closes", "clears"} /\ conn.state = "open" => conn.pending = 0 /\ steer # "sends"
    /\ turn.result # None <=> turn.pc = "claims"
(* Which stop is under way, and that a process that is up has a reader *)
StateInv ==
    /\ conn.state = "stopping" => conn.doomed \/ turn.pc \in {"retires", "stops", "restarts"}
    /\ turn.pc = "opens_session" => conn.state # "open"
    /\ process.up => \A i \in DOMAIN process.out : process.out[i] # "closed"
    /\ process.up /\ conn.state = "open" => client.reader
(* The count covers what is owed *)
DueInv == process.up /\ conn.state = "open" /\ ~ past.astray => Due <= conn.pending + Sending
Keeps == OpenInv /\ LockInv /\ ClaimInv /\ StateInv /\ DueInv
IInv == Types /\ Keeps

(* Sequences *)
LEMMA TailIs ==
    ASSUME NEW S, NEW s \in Seq(S), s # <<>>
    PROVE  /\ Tail(s) \in Seq(S) /\ Len(Tail(s)) = Len(s) - 1
           /\ Head(s) = s[1] /\ s[1] \in S /\ 1 \in DOMAIN s
           /\ \A i \in DOMAIN Tail(s) : i + 1 \in DOMAIN s /\ i + 1 # 1 /\ Tail(s)[i] = s[i + 1]
           /\ DOMAIN s = 1 .. Len(s) /\ DOMAIN Tail(s) = 1 .. Len(s) - 1 /\ Len(s) \in Nat
    OBVIOUS

LEMMA AppendIs ==
    ASSUME NEW S, NEW s \in Seq(S), NEW e \in S
    PROVE  /\ Append(s, e) \in Seq(S) /\ Len(Append(s, e)) = Len(s) + 1
           /\ DOMAIN s = 1 .. Len(s) /\ DOMAIN Append(s, e) = 1 .. Len(s) + 1 /\ Len(s) \in Nat
           /\ \A i \in DOMAIN s : Append(s, e)[i] = s[i]
           /\ Append(s, e)[Len(s) + 1] = e
    OBVIOUS

LEMMA TallyIs ==
    ASSUME NEW S, NEW s \in Seq(S)
    PROVE  /\ IsFiniteSet({i \in DOMAIN s : s[i] = HumanResult}) /\ Tally(s) \in Nat
           /\ Tally(s) = 0 => \A i \in DOMAIN s : s[i] # HumanResult
<1>1. DOMAIN s = 1 .. Len(s) /\ Len(s) \in Nat
  OBVIOUS
<1>2. IsFiniteSet(1 .. Len(s))
  BY <1>1, FS_Interval
<1>3. {i \in DOMAIN s : s[i] = HumanResult} \in SUBSET (1 .. Len(s))
  BY <1>1
<1>4. IsFiniteSet({i \in DOMAIN s : s[i] = HumanResult})
  BY <1>2, <1>3, FS_Subset
<1> QED BY <1>4, FS_CardinalityType, FS_EmptySet DEF Tally

LEMMA NoTally == Tally(<<>>) = 0
<1>1. {i \in DOMAIN <<>> : <<>>[i] = HumanResult} = {}
  OBVIOUS
<1> QED BY <1>1, FS_EmptySet DEF Tally

LEMMA AppendTally ==
    ASSUME NEW S, NEW s \in Seq(S), NEW e \in S
    PROVE  Tally(Append(s, e)) = Tally(s) + Yes(e = HumanResult)
<1> DEFINE Old == {i \in DOMAIN s : s[i] = HumanResult}
           New == {i \in DOMAIN Append(s, e) : Append(s, e)[i] = HumanResult}
<1>1. /\ DOMAIN s = 1 .. Len(s) /\ DOMAIN Append(s, e) = 1 .. Len(s) + 1 /\ Len(s) \in Nat
      /\ \A i \in DOMAIN s : Append(s, e)[i] = s[i]
      /\ Append(s, e)[Len(s) + 1] = e
  BY AppendIs
<1>2. IsFiniteSet(Old) /\ Len(s) + 1 \notin Old
  BY <1>1, TallyIs
<1>3. \A i \in 1 .. Len(s) + 1 : i \in 1 .. Len(s) \/ i = Len(s) + 1
  BY <1>1
<1>4. CASE e = HumanResult
  <2>1. New = Old \cup {Len(s) + 1}
    BY <1>1, <1>3, <1>4
  <2>2. Cardinality(New) = Cardinality(Old) + 1
    BY <1>2, <2>1, FS_AddElement
  <2> QED BY <1>4, <2>2 DEF Tally, Yes
<1>5. CASE e # HumanResult
  <2>1. New = Old
    BY <1>1, <1>3, <1>5
  <2>2. Tally(s) \in Nat
    BY TallyIs
  <2>3. Tally(Append(s, e)) = Tally(s)
    BY <2>1 DEF Tally
  <2> QED BY <1>5, <2>2, <2>3 DEF Yes
<1> QED BY <1>4, <1>5

LEMMA TailTally ==
    ASSUME NEW S, NEW s \in Seq(S), s # <<>>
    PROVE  Tally(Tail(s)) + Yes(s[1] = HumanResult) <= Tally(s)
<1> DEFINE Old == {i \in DOMAIN s : s[i] = HumanResult}
           New == {i \in DOMAIN Tail(s) : Tail(s)[i] = HumanResult}
           f == [i \in New |-> i + 1]
<1>1. /\ \A i \in DOMAIN Tail(s) : i + 1 \in DOMAIN s /\ i + 1 # 1 /\ Tail(s)[i] = s[i + 1]
      /\ 1 \in DOMAIN s /\ Tail(s) \in Seq(S) /\ DOMAIN Tail(s) = 1 .. Len(s) - 1 /\ Len(s) \in Nat
  BY TailIs
<1>2. IsFiniteSet(Old) /\ Tally(Tail(s)) \in Nat /\ Tally(s) \in Nat
  BY <1>1, TallyIs
<1>3. f \in Injection(New, Old \ {1})
  <2>1. f \in [New -> Old \ {1}]
    BY <1>1
  <2>2. \A a, b \in New : f[a] = f[b] => a = b
    <3>1. \A a, b \in 1 .. Len(s) - 1 : a + 1 = b + 1 => a = b
      BY <1>1
    <3> QED BY <1>1, <3>1
  <2> QED BY <2>1, <2>2 DEF Injection, IsInjective
<1>4. IsFiniteSet(Old \ {1})
      /\ Cardinality(Old \ {1}) = IF 1 \in Old THEN Cardinality(Old) - 1 ELSE Cardinality(Old)
  BY <1>2, FS_RemoveElement
<1>5. Cardinality(New) <= Cardinality(Old \ {1})
  <2> HIDE DEF f, New, Old
  <2> QED BY <1>3, <1>4, FS_Injection
<1>6. 1 \in Old <=> s[1] = HumanResult
  BY <1>1
<1> HIDE DEF Old, New
<1>7. Tally(Tail(s)) = Cardinality(New) /\ Tally(s) = Cardinality(Old)
  BY DEF Tally, Old, New
<1> QED BY <1>2, <1>4, <1>5, <1>6, <1>7 DEF Yes

(* The operators keep the types *)
LEMMA InboxesAre ==
    /\ NoInbox \in Inboxes
    /\ \A b \in BOOLEAN : [open |-> TRUE, items |-> <<>>, adopted |-> b] \in Inboxes
    /\ \A box \in Inboxes, m \in Items : Delivered(box, m) \in Inboxes
<1>1. <<>> \in Seq(Items)
  OBVIOUS
<1>2. NoInbox \in Inboxes /\ \A b \in BOOLEAN : [open |-> TRUE, items |-> <<>>, adopted |-> b] \in Inboxes
  BY <1>1 DEF NoInbox, Inboxes
<1>3. ASSUME NEW box \in Inboxes, NEW m \in Items
      PROVE  Delivered(box, m) \in Inboxes
  <2>1. Append(box.items, m) \in Seq(Items)
    BY AppendIs DEF Inboxes
  <2> QED BY <2>1 DEF Delivered, Inboxes
<1> QED BY <1>2, <1>3

LEMMA ProcessesAre ==
    ASSUME NEW p \in Processes
    PROVE  /\ \A m \in Envelopes : Append(p.out, m) \in Seq(Envelopes)
           /\ p.out # <<>> => /\ Tail(p.out) \in Seq(Envelopes)
                              /\ [p EXCEPT !.out = Tail(@)] \in Processes
                              /\ p.out[1] \in Envelopes /\ Head(p.out) = p.out[1]
           /\ NewProcess \in Processes /\ NoProcess \in Processes
<1>1. p.out \in Seq(Envelopes)
  BY DEF Processes
<1>2. \A m \in Envelopes : Append(p.out, m) \in Seq(Envelopes)
  BY <1>1, AppendIs
<1>3. p.out # <<>> => Tail(p.out) \in Seq(Envelopes) /\ p.out[1] \in Envelopes /\ Head(p.out) = p.out[1]
  BY <1>1, TailIs
<1>4. p.out # <<>> => [p EXCEPT !.out = Tail(@)] \in Processes
  BY <1>3 DEF Processes
<1>5. <<>> \in Seq(Envelopes)
  OBVIOUS
<1>6. NewProcess \in Processes /\ NoProcess \in Processes
  BY <1>5 DEF NewProcess, NoProcess, Processes
<1> QED BY <1>2, <1>3, <1>4, <1>6

LEMMA RoutedIs ==
    ASSUME NEW c \in Clients, NEW m \in Envelopes
    PROVE  Routed(c, m) \in Clients
<1> DEFINE begun == IF m = "notification" THEN WakeBegun(c.cycle) ELSE c.cycle
           seen == [c.inbox EXCEPT !.adopted = @ \/ (c.inbox.open /\ begun = "adopted")]
           box == IF m \in Results \cup {"reset"} THEN Delivered(seen, m) ELSE seen
           cycle == IF m = WakeResult THEN WakeOver(begun) ELSE begun
<1>1. begun \in {"idle", "foreground", "wake", "adopted"}
  BY DEF Clients, WakeBegun
<1>2. cycle \in {"idle", "foreground", "wake", "adopted"}
  BY <1>1 DEF WakeOver
<1>3. c.inbox \in Inboxes
  BY DEF Clients
<1>4. (c.inbox.adopted \/ (c.inbox.open /\ begun = "adopted")) \in BOOLEAN
  BY <1>3 DEF Inboxes
<1>5. seen \in Inboxes
  <2> HIDE DEF begun
  <2> QED BY <1>3, <1>4 DEF Inboxes
<1>6. box \in Inboxes
  <2> HIDE DEF seen
  <2> QED BY <1>5, InboxesAre DEF Items
<1>7. Routed(c, m) = [c EXCEPT !.inbox = box, !.cycle = cycle]
  BY DEF Routed
<1> HIDE DEF box, cycle
<1> QED BY <1>2, <1>6, <1>7 DEF Clients

LEMMA ClientsAre ==
    ASSUME NEW c \in Clients, NEW box \in Inboxes,
           NEW cycle \in {"idle", "foreground", "wake", "adopted"}, NEW b \in BOOLEAN
    PROVE  /\ [c EXCEPT !.inbox = box] \in Clients
           /\ [c EXCEPT !.task = b, !.inbox = box] \in Clients
           /\ [c EXCEPT !.reader = b, !.inbox = box] \in Clients
           /\ [c EXCEPT !.reader = b, !.task = b, !.inbox = box] \in Clients
           /\ [c EXCEPT !.inbox = box, !.cycle = cycle] \in Clients
           /\ [c EXCEPT !.route = b, !.cycle = cycle, !.inbox = box] \in Clients
           /\ [c EXCEPT !.route = b, !.task = b, !.inbox = box, !.cycle = cycle] \in Clients
    BY DEF Clients

(* Counting *)
LEMMA DueParts ==
    ASSUME Types
    PROVE  /\ process.stdin \in Nat /\ conn.pending \in Nat
           /\ Tally(process.out) \in Nat /\ Tally(client.inbox.items) \in Nat
           /\ process.out \in Seq(Envelopes) /\ client.inbox.items \in Seq(Items)
           /\ Cycling \in {0, 1} /\ Claimed \in {0, 1} /\ Sending \in {0, 1}
           /\ Due \in Nat
<1>1. /\ process.stdin \in Nat /\ conn.pending \in Nat
      /\ process.out \in Seq(Envelopes) /\ client.inbox.items \in Seq(Items)
  BY DEF Types, ProcType, Processes, ConnType, Conns, ClientType, Clients, Inboxes
<1>2. Cycling \in {0, 1} /\ Claimed \in {0, 1} /\ Sending \in {0, 1}
  BY DEF Cycling, Claimed, Sending, Yes
<1>3. Tally(process.out) \in Nat /\ Tally(client.inbox.items) \in Nat
  BY <1>1, TallyIs
<1>4. Due \in Nat
  BY <1>1, <1>2, <1>3 DEF Due
<1> QED BY <1>1, <1>2, <1>3, <1>4

LEMMA ConnsAre ==
    ASSUME ConnType
    PROVE  /\ Unlocked \in Conns /\ LastResult \in Conns
           /\ conn.pending \in Nat \ {0} => OneResultLess \in Conns
           /\ Unlocked = [conn EXCEPT !.lock = None]
           /\ LastResult = [conn EXCEPT !.lock = None, !.pending = 0]
           /\ OneResultLess = [conn EXCEPT !.lock = None, !.init = FALSE, !.pending = conn.pending - 1]
<1>1. Unlocked = [conn EXCEPT !.lock = None] /\ Unlocked \in Conns /\ Unlocked.pending = conn.pending
  BY DEF ConnType, Conns, Unlocked
<1>2. LastResult = [conn EXCEPT !.lock = None, !.pending = 0]
  BY DEF LastResult, Unlocked
<1>3. OneResultLess = [conn EXCEPT !.lock = None, !.init = FALSE, !.pending = conn.pending - 1]
  BY <1>1 DEF OneResultLess
<1>4. LastResult \in Conns
  BY <1>1 DEF LastResult, Conns
<1>5. ASSUME conn.pending \in Nat \ {0}
      PROVE  OneResultLess \in Conns
  <2>1. conn.pending - 1 \in Nat
    BY <1>5
  <2> QED BY <1>1, <2>1 DEF OneResultLess, Conns
<1> QED BY <1>1, <1>2, <1>3, <1>4, <1>5

LEMMA DueSame ==
    ASSUME DueInv, Types, Due' \in Nat, Due' <= Due,
           process'.up => process.up, conn'.state = "open" => conn.state = "open",
           past.astray => past'.astray,
           conn'.pending = conn.pending, steer' = steer
    PROVE  DueInv'
<1>1. conn.pending \in Nat /\ Sending \in {0, 1} /\ Due \in Nat /\ Sending' = Sending
  BY DueParts DEF Sending
<1> QED BY <1>1 DEF DueInv

LEMMA DeliversOne ==
    ASSUME NEW box \in Inboxes, NEW m \in Items
    PROVE  /\ Tally(Delivered(box, m).items) \in Nat
           /\ Tally(Delivered(box, m).items) <= Tally(box.items) + Yes(m = HumanResult)
<1>1. box.items \in Seq(Items) /\ Tally(box.items) \in Nat /\ Append(box.items, m) \in Seq(Items)
  BY TallyIs, AppendIs DEF Inboxes
<1>2. Tally(Append(box.items, m)) = Tally(box.items) + Yes(m = HumanResult)
  BY <1>1, AppendTally
<1>3. Delivered(box, m).items = IF box.open THEN Append(box.items, m) ELSE box.items
  BY DEF Delivered, Inboxes
<1>4. Yes(m = HumanResult) \in {0, 1}
  BY DEF Yes
<1> QED BY <1>1, <1>2, <1>3, <1>4

LEMMA ClaimsCases ==
    ASSUME ConnType, TurnType, Claims
    PROVE  /\ \/ conn.pending <= 1 /\ conn'.pending = 0 /\ turn'.pc = "closes" /\ turn'.result = None
              \/ conn.pending > 1 /\ conn'.pending = conn.pending - 1 /\ turn'.pc = "reads" /\ turn'.result = None
              \/ conn.pending > 1 /\ conn'.pending = conn.pending /\ turn'.pc = "grace" /\ turn'.result = None
           /\ conn'.state = conn.state /\ conn'.doomed = conn.doomed
           /\ conn'.lock = IF turn'.pc = "grace" THEN "turn" ELSE None
<1>1. conn.pending \in Nat
  BY DEF ConnType, Conns
<1>2. conn.pending <= 1 \/ conn.pending > 1
  BY <1>1
<1>3. \A p : Goes(p) => turn'.pc = p /\ turn'.result = None
  BY DEF Goes, TurnType, TurnRecs
<1>4. CASE conn.pending <= 1
  <2>1. conn' = LastResult /\ Goes("closes")
    BY <1>1, <1>4 DEF Claims
  <2>2. conn'.pending = 0 /\ conn'.state = conn.state /\ conn'.doomed = conn.doomed /\ conn'.lock = None
    BY <2>1, ConnsAre DEF ConnType, Conns
  <2> QED BY <1>3, <1>4, <2>1, <2>2
<1>5. CASE conn.pending > 1 /\ conn.init
  <2>1. conn' = OneResultLess /\ Goes("reads")
    BY <1>1, <1>5 DEF Claims
  <2>2. conn'.pending = conn.pending - 1 /\ conn'.state = conn.state /\ conn'.doomed = conn.doomed /\ conn'.lock = None
    BY <2>1, ConnsAre DEF ConnType, Conns
  <2> QED BY <1>3, <1>5, <2>1, <2>2
<1>6. CASE conn.pending > 1 /\ ~ conn.init
  <2>1. conn' = [conn EXCEPT !.lock = "turn"] /\ Goes("grace")
    BY <1>1, <1>6 DEF Claims
  <2>2. conn'.pending = conn.pending /\ conn'.state = conn.state /\ conn'.doomed = conn.doomed /\ conn'.lock = "turn"
    BY <2>1 DEF ConnType, Conns
  <2> QED BY <1>3, <1>6, <2>1, <2>2
<1> QED BY <1>2, <1>4, <1>5, <1>6

(* One action at a time *)
LEMMA CycleStartsTypes ==
    ASSUME Types, ClaimInv, CycleStarts
    PROVE  Types'
<1> USE DEF Types
<1>1. ProcType'
  <2>1. process \in Processes /\ "init" \in Envelopes /\ process.stdin - 1 \in Nat
    BY DEF CycleStarts, ProcType, Processes, Envelopes
  <2>2. Append(process.out, "init") \in Seq(Envelopes)
    BY <2>1, ProcessesAre
  <2> QED BY <2>1, <2>2 DEF CycleStarts, Writes, ProcType, Processes, Results
<1>2. ClientType'
  BY DEF CycleStarts, ClientType
<1>3. ConnType'
  BY DEF CycleStarts, ConnType
<1>4. TurnType'
  BY DEF CycleStarts, TurnType
<1>5. FlagType'
  BY DEF CycleStarts, FlagType
<1>6. CountType'
  BY DEF CycleStarts, CountType
<1>7. PastType'
  BY DEF CycleStarts, PastType
<1> QED BY <1>1, <1>2, <1>3, <1>4, <1>5, <1>6, <1>7

LEMMA CycleStartsKeeps ==
    ASSUME IInv, CycleStarts
    PROVE  Keeps'
<1> USE DEF IInv, Keeps, Types
<1>1. OpenInv'
  BY DEF CycleStarts, OpenInv, InTurn
<1>2. LockInv'
  BY DEF CycleStarts, LockInv, InTurn
<1>3. ClaimInv'
  BY DEF CycleStarts, ClaimInv
<1>4. StateInv'
  BY DEF CycleStarts, Writes, StateInv
<1>5. DueInv'
  <2>1. /\ process'.out = Append(process.out, "init") /\ process'.up = process.up
        /\ process'.stdin = process.stdin - 1 /\ process.stdin > 0 /\ process'.cycle = HumanResult /\ process.cycle = None
        /\ UNCHANGED <<client, conn, turn, steer, past>>
    BY DEF CycleStarts, Writes, ProcType, Processes
  <2>2. process.out \in Seq(Envelopes) /\ "init" \in Envelopes
    BY DueParts DEF Envelopes
  <2>3. Tally(process'.out) = Tally(process.out) + Yes("init" = HumanResult)
    BY <2>1, <2>2, AppendTally
  <2>4. Cycling' = 1 /\ Claimed' = Claimed
    BY <2>1 DEF Cycling, Claimed, Yes
  <2>5. Yes("init" = HumanResult) = 0
    BY <2>1 DEF Yes, HumanResult
  <2>6. Cycling = 0
    BY <2>1 DEF Cycling, Yes, HumanResult, None
  <2>7. Due' \in Nat /\ Due' <= Due
    BY <2>1, <2>3, <2>4, <2>5, <2>6, DueParts DEF Due
  <2> QED BY <2>1, <2>7, DueSame
<1> QED BY <1>1, <1>2, <1>3, <1>4, <1>5

LEMMA WakeStartsTypes ==
    ASSUME Types, ClaimInv, WakeStarts
    PROVE  Types'
<1> USE DEF Types
<1>1. ProcType'
  <2>1. process \in Processes /\ "notification" \in Envelopes
    BY DEF ProcType, Envelopes
  <2>2. Append(process.out, "notification") \in Seq(Envelopes)
    BY <2>1, ProcessesAre
  <2> QED BY <2>1, <2>2 DEF WakeStarts, Writes, ProcType, Processes, Results
<1>2. ClientType'
  BY DEF WakeStarts, ClientType
<1>3. ConnType'
  BY DEF WakeStarts, ConnType
<1>4. TurnType'
  BY DEF WakeStarts, TurnType
<1>5. FlagType'
  BY DEF WakeStarts, FlagType
<1>6. CountType'
  BY DEF WakeStarts, Counted, CountType
<1>7. PastType'
  BY DEF WakeStarts, PastType
<1> QED BY <1>1, <1>2, <1>3, <1>4, <1>5, <1>6, <1>7

LEMMA WakeStartsKeeps ==
    ASSUME IInv, WakeStarts
    PROVE  Keeps'
<1> USE DEF IInv, Keeps, Types
<1>1. OpenInv'
  BY DEF WakeStarts, OpenInv, InTurn
<1>2. LockInv'
  BY DEF WakeStarts, LockInv, InTurn
<1>3. ClaimInv'
  BY DEF WakeStarts, ClaimInv
<1>4. StateInv'
  BY DEF WakeStarts, Writes, StateInv
<1>5. DueInv'
  <2>1. /\ process'.out = Append(process.out, "notification") /\ process'.up = process.up
        /\ process'.stdin = process.stdin /\ process'.cycle = WakeResult /\ process.cycle = None
        /\ UNCHANGED <<client, conn, turn, steer, past>>
    BY DEF WakeStarts, Writes, ProcType, Processes
  <2>2. process.out \in Seq(Envelopes) /\ "notification" \in Envelopes
    BY DueParts DEF Envelopes
  <2>3. Tally(process'.out) = Tally(process.out) + Yes("notification" = HumanResult)
    BY <2>1, <2>2, AppendTally
  <2>4. Cycling' = 0 /\ Claimed' = Claimed
    BY <2>1 DEF Cycling, Claimed, Yes, HumanResult, WakeResult
  <2>5. Yes("notification" = HumanResult) = 0
    BY <2>1 DEF Yes, HumanResult
  <2>6. /\ process.stdin \in Nat /\ Cycling \in {0, 1} /\ Claimed \in {0, 1}
        /\ Tally(process.out) \in Nat /\ Tally(client.inbox.items) \in Nat
    BY DueParts
  <2>7. /\ process'.stdin = process.stdin /\ Tally(process'.out) = Tally(process.out)
        /\ Tally(client'.inbox.items) = Tally(client.inbox.items)
    BY <2>1, <2>3, <2>5, <2>6
  <2>8. Due' \in Nat /\ Due' <= Due
    BY <2>4, <2>6, <2>7 DEF Due
  <2> QED BY <2>1, <2>8, DueSame
<1> QED BY <1>1, <1>2, <1>3, <1>4, <1>5

LEMMA AbsorbsTypes ==
    ASSUME Types, ClaimInv, Absorbs
    PROVE  Types'
<1> USE DEF Types
<1>1. ProcType'
  BY DEF Absorbs, ProcType, Processes
<1>2. ClientType'
  BY DEF Absorbs, ClientType
<1>3. ConnType'
  BY DEF Absorbs, ConnType
<1>4. TurnType'
  BY DEF Absorbs, TurnType
<1>5. FlagType'
  BY DEF Absorbs, FlagType
<1>6. CountType'
  BY DEF Absorbs, CountType, None
<1>7. PastType'
  BY DEF Absorbs, PastType
<1> QED BY <1>1, <1>2, <1>3, <1>4, <1>5, <1>6, <1>7

LEMMA AbsorbsKeeps ==
    ASSUME IInv, Absorbs
    PROVE  Keeps'
<1> USE DEF IInv, Keeps, Types
<1>1. OpenInv'
  BY DEF Absorbs, OpenInv, InTurn
<1>2. LockInv'
  BY DEF Absorbs, LockInv, InTurn
<1>3. ClaimInv'
  BY DEF Absorbs, ClaimInv
<1>4. StateInv'
  BY DEF Absorbs, StateInv
<1>5. DueInv'
  <2>1. /\ process'.out = process.out /\ process'.up = process.up /\ process'.cycle = process.cycle
        /\ process'.stdin = process.stdin - 1 /\ process.stdin > 0
        /\ UNCHANGED <<client, conn, turn, steer, past>>
    BY DEF Absorbs, ProcType, Processes
  <2>2. Cycling' = Cycling /\ Claimed' = Claimed
    BY <2>1 DEF Cycling, Claimed
  <2>3. Tally(process'.out) = Tally(process.out) /\ Tally(client'.inbox.items) = Tally(client.inbox.items)
    BY <2>1
  <2>4. process'.stdin \in Nat /\ process'.stdin <= process.stdin
    BY <2>1, DueParts
  <2>5. /\ process.stdin \in Nat /\ Tally(process.out) \in Nat /\ Tally(client.inbox.items) \in Nat
        /\ Cycling \in Nat /\ Claimed \in Nat
    BY DueParts
  <2>6. Due' \in Nat /\ Due' <= Due
    BY <2>2, <2>3, <2>4, <2>5 DEF Due
  <2> QED BY <2>1, <2>6, DueSame
<1> QED BY <1>1, <1>2, <1>3, <1>4, <1>5

LEMMA CycleEndsTypes ==
    ASSUME Types, ClaimInv, CycleEnds
    PROVE  Types'
<1> USE DEF Types
<1>1. ProcType'
  <2>1. process \in Processes /\ process.cycle \in Envelopes
    BY DEF CycleEnds, ProcType, Processes, Envelopes
  <2>2. Append(process.out, process.cycle) \in Seq(Envelopes)
    BY <2>1, ProcessesAre
  <2> QED BY <2>1, <2>2 DEF CycleEnds, Writes, ProcType, Processes
<1>2. ClientType'
  BY DEF CycleEnds, ClientType
<1>3. ConnType'
  BY DEF CycleEnds, ConnType
<1>4. TurnType'
  BY DEF CycleEnds, TurnType
<1>5. FlagType'
  BY DEF CycleEnds, FlagType
<1>6. CountType'
  BY DEF CycleEnds, CountType
<1>7. PastType'
  BY DEF CycleEnds, PastType
<1> QED BY <1>1, <1>2, <1>3, <1>4, <1>5, <1>6, <1>7

LEMMA CycleEndsKeeps ==
    ASSUME IInv, CycleEnds
    PROVE  Keeps'
<1> USE DEF IInv, Keeps, Types
<1>1. OpenInv'
  BY DEF CycleEnds, OpenInv, InTurn
<1>2. LockInv'
  BY DEF CycleEnds, LockInv, InTurn
<1>3. ClaimInv'
  BY DEF CycleEnds, ClaimInv
<1>4. StateInv'
  <2>1. process.cycle \in Envelopes /\ process.cycle # "closed" /\ process.out \in Seq(Envelopes)
    BY DEF CycleEnds, ProcType, Processes, Envelopes, Results, HumanResult, WakeResult
  <2>2. process'.out = Append(process.out, process.cycle) /\ process'.up = process.up
    BY DEF CycleEnds, Writes, ProcType, Processes
  <2>3. \A i \in DOMAIN process'.out : \/ i \in DOMAIN process.out /\ process'.out[i] = process.out[i]
                                      \/ process'.out[i] = process.cycle
    BY <2>1, <2>2, AppendIs
  <2> QED BY <2>1, <2>2, <2>3 DEF CycleEnds, StateInv
<1>5. DueInv'
  <2>1. /\ process'.out = Append(process.out, process.cycle) /\ process'.up = process.up
        /\ process'.stdin = process.stdin /\ process'.cycle = None
        /\ UNCHANGED <<client, conn, turn, steer, past>>
    BY DEF CycleEnds, Writes, ProcType, Processes
  <2>2. process.out \in Seq(Envelopes) /\ process.cycle \in Envelopes
    BY DueParts DEF Envelopes, CycleEnds, ProcType, Processes
  <2>3. Tally(process'.out) = Tally(process.out) + Yes(process.cycle = HumanResult)
    BY <2>1, <2>2, AppendTally
  <2>4. Cycling' = 0 /\ Claimed' = Claimed
    BY <2>1 DEF Cycling, Claimed, Yes, HumanResult, None
  <2>5. Yes(process.cycle = HumanResult) = Cycling
    BY <2>1 DEF Cycling
  <2>6. /\ process.stdin \in Nat /\ Tally(process.out) \in Nat /\ Tally(client.inbox.items) \in Nat
        /\ Cycling \in Nat /\ Claimed \in Nat
    BY DueParts
  <2>7. Due' \in Nat /\ Due' <= Due
    BY <2>1, <2>3, <2>4, <2>5, <2>6 DEF Due
  <2> QED BY <2>1, <2>7, DueSame
<1> QED BY <1>1, <1>2, <1>3, <1>4, <1>5

LEMMA AsksPermissionTypes ==
    ASSUME Types, ClaimInv, AsksPermission
    PROVE  Types'
<1> USE DEF Types
<1>1. ProcType'
  <2>1. process \in Processes /\ "ask" \in Envelopes
    BY DEF ProcType, Envelopes
  <2>2. Append(process.out, "ask") \in Seq(Envelopes)
    BY <2>1, ProcessesAre
  <2> QED BY <2>1, <2>2 DEF AsksPermission, Writes, ProcType, Processes
<1>2. ClientType'
  BY DEF AsksPermission, ClientType
<1>3. ConnType'
  BY DEF AsksPermission, ConnType
<1>4. TurnType'
  BY DEF AsksPermission, TurnType
<1>5. FlagType'
  BY DEF AsksPermission, FlagType
<1>6. CountType'
  BY DEF AsksPermission, Counted, CountType
<1>7. PastType'
  BY DEF AsksPermission, PastType
<1> QED BY <1>1, <1>2, <1>3, <1>4, <1>5, <1>6, <1>7

LEMMA AsksPermissionKeeps ==
    ASSUME IInv, AsksPermission
    PROVE  Keeps'
<1> USE DEF IInv, Keeps, Types
<1>1. OpenInv'
  BY DEF AsksPermission, OpenInv, InTurn
<1>2. LockInv'
  BY DEF AsksPermission, LockInv, InTurn
<1>3. ClaimInv'
  BY DEF AsksPermission, ClaimInv
<1>4. StateInv'
  BY DEF AsksPermission, Writes, StateInv
<1>5. DueInv'
  <2>1. /\ process'.out = Append(process.out, "ask") /\ process'.up = process.up
        /\ process'.stdin = process.stdin /\ process'.cycle = process.cycle
        /\ UNCHANGED <<client, conn, turn, steer, past>>
    BY DEF AsksPermission, Writes, ProcType, Processes
  <2>2. process.out \in Seq(Envelopes) /\ "ask" \in Envelopes
    BY DueParts DEF Envelopes
  <2>3. Tally(process'.out) = Tally(process.out) + Yes("ask" = HumanResult)
    BY <2>1, <2>2, AppendTally
  <2>4. Cycling' = Cycling /\ Claimed' = Claimed
    BY <2>1 DEF Cycling, Claimed
  <2>5. Yes("ask" = HumanResult) = 0
    BY <2>1 DEF Yes, HumanResult
  <2>6. /\ process.stdin \in Nat /\ Cycling \in {0, 1} /\ Claimed \in {0, 1}
        /\ Tally(process.out) \in Nat /\ Tally(client.inbox.items) \in Nat
    BY DueParts
  <2>7. /\ process'.stdin = process.stdin /\ Tally(process'.out) = Tally(process.out)
        /\ Tally(client'.inbox.items) = Tally(client.inbox.items)
    BY <2>1, <2>3, <2>5, <2>6
  <2>8. Due' \in Nat /\ Due' <= Due
    BY <2>4, <2>6, <2>7 DEF Due
  <2> QED BY <2>1, <2>8, DueSame
<1> QED BY <1>1, <1>2, <1>3, <1>4, <1>5

LEMMA WithdrawsTypes ==
    ASSUME Types, ClaimInv, Withdraws
    PROVE  Types'
<1> USE DEF Types
<1>1. ProcType'
  <2>1. process \in Processes /\ "withdrawn" \in Envelopes
    BY DEF ProcType, Envelopes
  <2>2. Append(process.out, "withdrawn") \in Seq(Envelopes)
    BY <2>1, ProcessesAre
  <2> QED BY <2>1, <2>2 DEF Withdraws, Writes, ProcType, Processes
<1>2. ClientType'
  BY DEF Withdraws, ClientType
<1>3. ConnType'
  BY DEF Withdraws, ConnType
<1>4. TurnType'
  BY DEF Withdraws, TurnType
<1>5. FlagType'
  BY DEF Withdraws, FlagType
<1>6. CountType'
  BY DEF Withdraws, CountType
<1>7. PastType'
  BY DEF Withdraws, PastType
<1> QED BY <1>1, <1>2, <1>3, <1>4, <1>5, <1>6, <1>7

LEMMA WithdrawsKeeps ==
    ASSUME IInv, Withdraws
    PROVE  Keeps'
<1> USE DEF IInv, Keeps, Types
<1>1. OpenInv'
  BY DEF Withdraws, OpenInv, InTurn
<1>2. LockInv'
  BY DEF Withdraws, LockInv, InTurn
<1>3. ClaimInv'
  BY DEF Withdraws, ClaimInv
<1>4. StateInv'
  BY DEF Withdraws, Writes, StateInv
<1>5. DueInv'
  <2>1. /\ process'.out = Append(process.out, "withdrawn") /\ process'.up = process.up
        /\ process'.stdin = process.stdin /\ process'.cycle = process.cycle
        /\ UNCHANGED <<client, conn, turn, steer, past>>
    BY DEF Withdraws, Writes, ProcType, Processes
  <2>2. process.out \in Seq(Envelopes) /\ "withdrawn" \in Envelopes
    BY DueParts DEF Envelopes
  <2>3. Tally(process'.out) = Tally(process.out) + Yes("withdrawn" = HumanResult)
    BY <2>1, <2>2, AppendTally
  <2>4. Cycling' = Cycling /\ Claimed' = Claimed
    BY <2>1 DEF Cycling, Claimed
  <2>5. Yes("withdrawn" = HumanResult) = 0
    BY <2>1 DEF Yes, HumanResult
  <2>6. /\ process.stdin \in Nat /\ Cycling \in {0, 1} /\ Claimed \in {0, 1}
        /\ Tally(process.out) \in Nat /\ Tally(client.inbox.items) \in Nat
    BY DueParts
  <2>7. /\ process'.stdin = process.stdin /\ Tally(process'.out) = Tally(process.out)
        /\ Tally(client'.inbox.items) = Tally(client.inbox.items)
    BY <2>1, <2>3, <2>5, <2>6
  <2>8. Due' \in Nat /\ Due' <= Due
    BY <2>4, <2>6, <2>7 DEF Due
  <2> QED BY <2>1, <2>8, DueSame
<1> QED BY <1>1, <1>2, <1>3, <1>4, <1>5

LEMMA ResetsTypes ==
    ASSUME Types, ClaimInv, Resets
    PROVE  Types'
<1> USE DEF Types
<1>1. ProcType'
  <2>1. process \in Processes /\ "reset" \in Envelopes
    BY DEF ProcType, Envelopes
  <2>2. Append(process.out, "reset") \in Seq(Envelopes)
    BY <2>1, ProcessesAre
  <2> QED BY <2>1, <2>2 DEF Resets, Writes, ProcType, Processes
<1>2. ClientType'
  BY DEF Resets, ClientType
<1>3. ConnType'
  BY DEF Resets, ConnType
<1>4. TurnType'
  BY DEF Resets, TurnType
<1>5. FlagType'
  BY DEF Resets, FlagType
<1>6. CountType'
  BY DEF Resets, Upset, Counted, CountType
<1>7. PastType'
  BY DEF Resets, PastType
<1> QED BY <1>1, <1>2, <1>3, <1>4, <1>5, <1>6, <1>7

LEMMA ResetsKeeps ==
    ASSUME IInv, Resets
    PROVE  Keeps'
<1> USE DEF IInv, Keeps, Types
<1>1. OpenInv'
  BY DEF Resets, OpenInv, InTurn
<1>2. LockInv'
  BY DEF Resets, LockInv, InTurn
<1>3. ClaimInv'
  BY DEF Resets, ClaimInv
<1>4. StateInv'
  BY DEF Resets, Writes, StateInv
<1>5. DueInv'
  <2>1. /\ process'.out = Append(process.out, "reset") /\ process'.up = process.up
        /\ process'.stdin = process.stdin /\ process'.cycle = process.cycle
        /\ UNCHANGED <<client, conn, turn, steer, past>>
    BY DEF Resets, Writes, ProcType, Processes
  <2>2. process.out \in Seq(Envelopes) /\ "reset" \in Envelopes
    BY DueParts DEF Envelopes
  <2>3. Tally(process'.out) = Tally(process.out) + Yes("reset" = HumanResult)
    BY <2>1, <2>2, AppendTally
  <2>4. Cycling' = Cycling /\ Claimed' = Claimed
    BY <2>1 DEF Cycling, Claimed
  <2>5. Yes("reset" = HumanResult) = 0
    BY <2>1 DEF Yes, HumanResult
  <2>6. /\ process.stdin \in Nat /\ Cycling \in {0, 1} /\ Claimed \in {0, 1}
        /\ Tally(process.out) \in Nat /\ Tally(client.inbox.items) \in Nat
    BY DueParts
  <2>7. /\ process'.stdin = process.stdin /\ Tally(process'.out) = Tally(process.out)
        /\ Tally(client'.inbox.items) = Tally(client.inbox.items)
    BY <2>1, <2>3, <2>5, <2>6
  <2>8. Due' \in Nat /\ Due' <= Due
    BY <2>4, <2>6, <2>7 DEF Due
  <2> QED BY <2>1, <2>8, DueSame
<1> QED BY <1>1, <1>2, <1>3, <1>4, <1>5

LEMMA DiesTypes ==
    ASSUME Types, ClaimInv, Dies
    PROVE  Types'
<1> USE DEF Types
<1>1. ProcType'
  <2>1. process \in Processes /\ "closed" \in Envelopes
    BY DEF ProcType, Envelopes
  <2>2. Append(process.out, "closed") \in Seq(Envelopes)
    BY <2>1, ProcessesAre
  <2> QED BY <2>1, <2>2 DEF Dies, NoProcess, NewProcess, Writes, ProcType, Processes
<1>2. ClientType'
  BY DEF Dies, ClientType
<1>3. ConnType'
  BY DEF Dies, ConnType
<1>4. TurnType'
  BY DEF Dies, TurnType
<1>5. FlagType'
  BY DEF Dies, FlagType
<1>6. CountType'
  BY DEF Dies, Upset, Counted, CountType
<1>7. PastType'
  BY DEF Dies, PastType
<1> QED BY <1>1, <1>2, <1>3, <1>4, <1>5, <1>6, <1>7

LEMMA DiesKeeps ==
    ASSUME IInv, Dies
    PROVE  Keeps'
<1> USE DEF IInv, Keeps, Types
<1>1. OpenInv'
  BY DEF Dies, OpenInv, InTurn
<1>2. LockInv'
  BY DEF Dies, LockInv, InTurn
<1>3. ClaimInv'
  BY DEF Dies, ClaimInv
<1>4. StateInv'
  BY DEF Dies, NoProcess, StateInv
<1>5. DueInv'
  BY DEF Dies, NoProcess, DueInv
<1> QED BY <1>1, <1>2, <1>3, <1>4, <1>5

LEMMA ReadsTypes ==
    ASSUME Types, ClaimInv, Reads
    PROVE  Types'
<1> USE DEF Types
<1>1. ProcType'
  <2>1. process \in Processes /\ process.out # <<>> /\ process' = [process EXCEPT !.out = Tail(@)]
    BY DEF Reads, Hears, Taken, ProcType
  <2> QED BY <2>1, ProcessesAre DEF ProcType
<1>2. ClientType'
  <2>1. process \in Processes /\ process.out # <<>> /\ client' = Routed(client, Head(process.out))
    BY DEF Reads, Hears, Fresh, ProcType
  <2>2. Head(process.out) \in Envelopes
    BY <2>1, ProcessesAre
  <2> QED BY <2>1, <2>2, RoutedIs DEF ClientType
<1>3. ConnType'
  BY DEF Reads, Observed, ConnType, Conns
<1>4. TurnType'
  BY DEF Reads, TurnType
<1>5. FlagType'
  BY DEF Reads, FlagType
<1>6. CountType'
  BY DEF Reads, CountType
<1>7. PastType'
  BY DEF Reads, Observed, PastType, Pasts
<1> QED BY <1>1, <1>2, <1>3, <1>4, <1>5, <1>6, <1>7

LEMMA ReadsKeeps ==
    ASSUME IInv, Reads
    PROVE  Keeps'
<1> USE DEF IInv, Keeps, Types
<1>1. OpenInv'
  BY DEF Reads, Routed, Delivered, WakeBegun, WakeOver, Observed, OpenInv, InTurn
<1>2. LockInv'
  BY DEF Reads, Observed, LockInv, InTurn
<1>3. ClaimInv'
  BY DEF Reads, Observed, ClaimInv
<1>4. StateInv'
  BY DEF Reads, Hears, Taken, Routed, Observed, StateInv, ProcType, Processes, ClientType, Clients
<1>5. DueInv'
  <2>1. /\ process.out # <<>> /\ process' = [process EXCEPT !.out = Tail(@)]
        /\ UNCHANGED <<turn, steer>>
    BY DEF Reads, Hears, Taken
  <2>2. /\ process'.out = Tail(process.out) /\ process'.up = process.up
        /\ process'.stdin = process.stdin /\ process'.cycle = process.cycle
    BY <2>1 DEF ProcType, Processes
  <2>3. process.out \in Seq(Envelopes)
    BY DueParts
  <2>4. Tally(process'.out) + Yes(process.out[1] = HumanResult) <= Tally(process.out)
    BY <2>1, <2>2, <2>3, TailTally
  <2>5. Tally(process'.out) \in Nat /\ Head(process.out) = process.out[1]
    BY <2>1, <2>2, <2>3, TailIs, TallyIs
  <2>50. Cycling' = Cycling /\ Claimed' = Claimed /\ Yes(process.out[1] = HumanResult) \in {0, 1}
    BY <2>1, <2>2 DEF Cycling, Claimed, Yes
  <2>6. client'.inbox.items = client.inbox.items
        \/ /\ process.out[1] \in Items
           /\ \E box \in Inboxes : box.items = client.inbox.items /\ client'.inbox = Delivered(box, process.out[1])
    <3>1. client' = Routed(client, process.out[1]) /\ client \in Clients /\ client.inbox \in Inboxes
      BY <2>5 DEF Reads, Fresh, ClientType, Clients
    <3> DEFINE begun == IF process.out[1] = "notification" THEN WakeBegun(client.cycle) ELSE client.cycle
               seen == [client.inbox EXCEPT !.adopted = @ \/ (client.inbox.open /\ begun = "adopted")]
    <3>2. seen \in Inboxes /\ seen.items = client.inbox.items
      <4> HIDE DEF begun
      <4> QED BY <3>1 DEF Inboxes
    <3>3. client'.inbox = IF process.out[1] \in Results \cup {"reset"} THEN Delivered(seen, process.out[1]) ELSE seen
      BY <3>1 DEF Routed, Clients
    <3> HIDE DEF seen
    <3> QED BY <3>2, <3>3 DEF Items
  <2>7. Tally(client'.inbox.items) \in Nat
        /\ Tally(client'.inbox.items) <= Tally(client.inbox.items) + Yes(process.out[1] = HumanResult)
    <3>1. Yes(process.out[1] = HumanResult) \in {0, 1} /\ Tally(client.inbox.items) \in Nat
      BY <2>50, DueParts
    <3> QED BY <2>6, <3>1, DeliversOne
  <2>8. /\ conn'.state = conn.state /\ conn'.pending = conn.pending /\ past'.astray = past.astray
    BY DEF Reads, Observed
  <2>9. Due' \in Nat /\ Due' <= Due
    <3> DEFINE y == Yes(process.out[1] = HumanResult)
    <3>1. /\ y \in Nat /\ Tally(process'.out) + y <= Tally(process.out)
          /\ Tally(process'.out) \in Nat /\ Tally(process.out) \in Nat
          /\ process.stdin \in Nat /\ Cycling \in Nat /\ Claimed \in Nat /\ Tally(client.inbox.items) \in Nat
      BY <2>4, <2>5, <2>50, DueParts
    <3>2. Tally(client'.inbox.items) \in Nat /\ Tally(client'.inbox.items) <= Tally(client.inbox.items) + y
      BY <2>7
    <3> HIDE DEF y
    <3> QED BY <2>2, <2>50, <3>1, <3>2 DEF Due
  <2> QED BY <2>1, <2>2, <2>8, <2>9, DueSame
<1> QED BY <1>1, <1>2, <1>3, <1>4, <1>5

LEMMA ReadsControlTypes ==
    ASSUME Types, ClaimInv, ReadsControl
    PROVE  Types'
<1> USE DEF Types
<1>1. ProcType'
  <2>1. process \in Processes /\ process.out # <<>> /\ process' = [process EXCEPT !.out = Tail(@)]
    BY DEF ReadsControl, Hears, Taken, ProcType
  <2> QED BY <2>1, ProcessesAre DEF ProcType
<1>2. ClientType'
  BY DEF ReadsControl, ClientType, Clients
<1>3. ConnType'
  BY DEF ReadsControl, ConnType
<1>4. TurnType'
  BY DEF ReadsControl, TurnType
<1>5. FlagType'
  BY DEF ReadsControl, FlagType
<1>6. CountType'
  BY DEF ReadsControl, CountType
<1>7. PastType'
  BY DEF ReadsControl, PastType
<1> QED BY <1>1, <1>2, <1>3, <1>4, <1>5, <1>6, <1>7

LEMMA ReadsControlKeeps ==
    ASSUME IInv, ReadsControl
    PROVE  Keeps'
<1> USE DEF IInv, Keeps, Types
<1>1. OpenInv'
  BY DEF ReadsControl, OpenInv, InTurn
<1>2. LockInv'
  BY DEF ReadsControl, LockInv, InTurn
<1>3. ClaimInv'
  BY DEF ReadsControl, ClaimInv
<1>4. StateInv'
  BY DEF ReadsControl, Taken, StateInv, ProcType, Processes
<1>5. DueInv'
  <2>1. /\ process.out # <<>> /\ process' = [process EXCEPT !.out = Tail(@)]
        /\ UNCHANGED <<turn, steer>>
    BY DEF ReadsControl, Hears, Taken
  <2>2. /\ process'.out = Tail(process.out) /\ process'.up = process.up
        /\ process'.stdin = process.stdin /\ process'.cycle = process.cycle
    BY <2>1 DEF ProcType, Processes
  <2>3. process.out \in Seq(Envelopes)
    BY DueParts
  <2>4. Tally(process'.out) + Yes(process.out[1] = HumanResult) <= Tally(process.out)
    BY <2>1, <2>2, <2>3, TailTally
  <2>5. Tally(process'.out) \in Nat /\ Head(process.out) = process.out[1]
    BY <2>1, <2>2, <2>3, TailIs, TallyIs
  <2>50. Cycling' = Cycling /\ Claimed' = Claimed /\ Yes(process.out[1] = HumanResult) \in {0, 1}
    BY <2>1, <2>2 DEF Cycling, Claimed, Yes
  <2>6. client'.inbox.items = client.inbox.items /\ UNCHANGED <<conn, past>>
    BY DEF ReadsControl, ClientType, Clients
  <2>7. Due' \in Nat /\ Due' <= Due
    <3> DEFINE y == Yes(process.out[1] = HumanResult)
    <3>1. /\ y \in Nat /\ Tally(process'.out) + y <= Tally(process.out)
          /\ Tally(process'.out) \in Nat /\ Tally(process.out) \in Nat
          /\ process.stdin \in Nat /\ Cycling \in Nat /\ Claimed \in Nat /\ Tally(client.inbox.items) \in Nat
      BY <2>4, <2>5, <2>50, DueParts
    <3>2. Tally(client'.inbox.items) = Tally(client.inbox.items)
      BY <2>6
    <3> HIDE DEF y
    <3> QED BY <2>2, <2>50, <3>1, <3>2 DEF Due
  <2> QED BY <2>1, <2>2, <2>6, <2>7, DueSame
<1> QED BY <1>1, <1>2, <1>3, <1>4, <1>5

LEMMA AnswersTypes ==
    ASSUME Types, ClaimInv, Answers
    PROVE  Types'
<1> USE DEF Types
<1>1. ProcType'
  BY DEF Answers, ProcType, Processes
<1>2. ClientType'
  <2>0. client \in Clients /\ client.inbox \in Inboxes
    BY DEF ClientType, Clients
  <2>1. Delivered(client.inbox, "failure") \in Inboxes
    BY <2>0, InboxesAre DEF Items
  <2>2. [client EXCEPT !.task = FALSE, !.inbox = Delivered(@, "failure")] \in Clients
    BY <2>0, <2>1, ClientsAre
  <2>3. [client EXCEPT !.task = FALSE] \in Clients
    BY <2>0 DEF Clients
  <2> QED BY <2>2, <2>3 DEF Answers, ClientType
<1>3. ConnType'
  BY DEF Answers, ConnType
<1>4. TurnType'
  BY DEF Answers, TurnType
<1>5. FlagType'
  BY DEF Answers, FlagType
<1>6. CountType'
  BY DEF Answers, Upset, Counted, CountType
<1>7. PastType'
  BY DEF Answers, PastType
<1> QED BY <1>1, <1>2, <1>3, <1>4, <1>5, <1>6, <1>7

LEMMA AnswersKeeps ==
    ASSUME IInv, Answers
    PROVE  Keeps'
<1> USE DEF IInv, Keeps, Types
<1>1. OpenInv'
  <2>1. /\ client'.inbox = client.inbox \/ client'.inbox = Delivered(client.inbox, "failure")
        /\ client'.cycle = client.cycle /\ UNCHANGED <<conn, turn>>
    BY DEF Answers, ClientType, Clients
  <2>2. client'.inbox.open = client.inbox.open
    BY <2>1 DEF Delivered, ClientType, Clients, Inboxes
  <2> QED BY <2>1, <2>2 DEF OpenInv, InTurn
<1>2. LockInv'
  BY DEF Answers, LockInv, InTurn
<1>3. ClaimInv'
  BY DEF Answers, ClaimInv
<1>4. StateInv'
  BY DEF Answers, Upset, Counted, Delivered, StateInv, ProcType, Processes, ClientType, Clients, ConnType,
  Conns, TurnType, TurnRecs, Pcs, Turning, Envelopes, None
<1>5. DueInv'
  <2>1. /\ Tally(Delivered(client.inbox, "failure").items) \in Nat
        /\ Tally(Delivered(client.inbox, "failure").items) <= Tally(client.inbox.items)
    <3>1. client.inbox \in Inboxes /\ "failure" \in Items
      BY DEF ClientType, Clients, Items
    <3>2. Tally(client.inbox.items) \in Nat
      BY DueParts
    <3> QED BY <3>1, <3>2, DeliversOne DEF Yes, HumanResult
  <2>2. /\ client'.inbox = client.inbox \/ client'.inbox = Delivered(client.inbox, "failure")
        /\ UNCHANGED <<conn, turn, steer, past>>
    BY DEF Answers, ClientType, Clients
  <2>3. process'.out = process.out /\ process'.up = process.up /\ process'.cycle = process.cycle
        /\ process'.stdin = process.stdin
    BY DEF Answers, ProcType, Processes
  <2>4. Tally(client'.inbox.items) \in Nat /\ Tally(client'.inbox.items) <= Tally(client.inbox.items)
    BY <2>1, <2>2, DueParts
  <2>5. Cycling' = Cycling /\ Claimed' = Claimed
    BY <2>2, <2>3 DEF Cycling, Claimed
  <2>7. /\ process.stdin \in Nat /\ Tally(process.out) \in Nat /\ Tally(client.inbox.items) \in Nat
        /\ Cycling \in Nat /\ Claimed \in Nat
    BY DueParts
  <2>6. Due' \in Nat /\ Due' <= Due
    BY <2>3, <2>4, <2>5, <2>7 DEF Due
  <2> QED BY <2>2, <2>3, <2>6, DueSame
<1> QED BY <1>1, <1>2, <1>3, <1>4, <1>5

LEMMA ReaderEndsTypes ==
    ASSUME Types, ClaimInv, ReaderEnds
    PROVE  Types'
<1> USE DEF Types
<1>1. ProcType'
  <2>1. process \in Processes /\ process.out # <<>> /\ process' = [process EXCEPT !.out = Tail(@)]
    BY DEF ReaderEnds, Hears, Taken, ProcType
  <2> QED BY <2>1, ProcessesAre DEF ProcType
<1>2. ClientType'
  <2>0. client \in Clients /\ client.inbox \in Inboxes
    BY DEF ClientType, Clients
  <2>1. Delivered(client.inbox, "failure") \in Inboxes
    BY <2>0, InboxesAre DEF Items
  <2>2. [client EXCEPT !.reader = FALSE, !.inbox = Delivered(@, "failure")] \in Clients
    BY <2>0, <2>1, ClientsAre
  <2> QED BY <2>2 DEF ReaderEnds, ClientType
<1>3. ConnType'
  BY DEF ReaderEnds, ConnType
<1>4. TurnType'
  BY DEF ReaderEnds, TurnType
<1>5. FlagType'
  BY DEF ReaderEnds, FlagType
<1>6. CountType'
  BY DEF ReaderEnds, CountType
<1>7. PastType'
  BY DEF ReaderEnds, PastType
<1> QED BY <1>1, <1>2, <1>3, <1>4, <1>5, <1>6, <1>7

LEMMA ReaderEndsKeeps ==
    ASSUME IInv, ReaderEnds
    PROVE  Keeps'
<1> USE DEF IInv, Keeps, Types
<1>1. OpenInv'
  BY DEF ReaderEnds, Delivered, OpenInv, InTurn
<1>2. LockInv'
  BY DEF ReaderEnds, LockInv, InTurn
<1>3. ClaimInv'
  BY DEF ReaderEnds, ClaimInv
<1>4. StateInv'
  BY DEF ReaderEnds, Hears, Fresh, Taken, StateInv, ProcType, Processes
<1>5. DueInv'
  <2>1. /\ process.out # <<>> /\ process' = [process EXCEPT !.out = Tail(@)]
        /\ UNCHANGED <<turn, steer>>
    BY DEF ReaderEnds, Hears, Taken
  <2>2. /\ process'.out = Tail(process.out) /\ process'.up = process.up
        /\ process'.stdin = process.stdin /\ process'.cycle = process.cycle
    BY <2>1 DEF ProcType, Processes
  <2>3. process.out \in Seq(Envelopes)
    BY DueParts
  <2>4. Tally(process'.out) + Yes(process.out[1] = HumanResult) <= Tally(process.out)
    BY <2>1, <2>2, <2>3, TailTally
  <2>5. Tally(process'.out) \in Nat /\ Head(process.out) = process.out[1]
    BY <2>1, <2>2, <2>3, TailIs, TallyIs
  <2>50. Cycling' = Cycling /\ Claimed' = Claimed /\ Yes(process.out[1] = HumanResult) \in {0, 1}
    BY <2>1, <2>2 DEF Cycling, Claimed, Yes
  <2>6. /\ Tally(Delivered(client.inbox, "failure").items) \in Nat
        /\ Tally(Delivered(client.inbox, "failure").items) <= Tally(client.inbox.items)
    <3>1. client.inbox \in Inboxes /\ "failure" \in Items
      BY DEF ClientType, Clients, Items
    <3>2. Tally(client.inbox.items) \in Nat
      BY DueParts
    <3> QED BY <3>1, <3>2, DeliversOne DEF Yes, HumanResult
  <2>7. client'.inbox = Delivered(client.inbox, "failure") /\ UNCHANGED <<conn, past>>
    BY DEF ReaderEnds, ClientType, Clients
  <2>8. Due' \in Nat /\ Due' <= Due
    <3> DEFINE y == Yes(process.out[1] = HumanResult)
    <3>1. /\ y \in Nat /\ Tally(process'.out) + y <= Tally(process.out)
          /\ Tally(process'.out) \in Nat /\ Tally(process.out) \in Nat
          /\ process.stdin \in Nat /\ Cycling \in Nat /\ Claimed \in Nat /\ Tally(client.inbox.items) \in Nat
      BY <2>4, <2>5, <2>50, DueParts
    <3>2. Tally(client'.inbox.items) \in Nat /\ Tally(client'.inbox.items) <= Tally(client.inbox.items)
      BY <2>6, <2>7
    <3> HIDE DEF y
    <3> QED BY <2>2, <2>50, <3>1, <3>2 DEF Due
  <2> QED BY <2>1, <2>2, <2>7, <2>8, DueSame
<1> QED BY <1>1, <1>2, <1>3, <1>4, <1>5

LEMMA TurnStartsTypes ==
    ASSUME Types, ClaimInv, TurnStarts
    PROVE  Types'
<1> USE DEF Types
<1>1. ProcType'
  BY DEF TurnStarts, ProcType, Processes
<1>2. ClientType'
  <2>1. client \in Clients /\ Opened(client.cycle) \in {"idle", "foreground", "wake", "adopted"}
    BY DEF ClientType, Opened
  <2>2. [open |-> TRUE, items |-> <<>>, adopted |-> Opened(client.cycle) = "adopted"] \in Inboxes
    BY InboxesAre
  <2>3. client' = [client EXCEPT !.route = TRUE, !.cycle = Opened(@),
                    !.inbox = [open |-> TRUE, items |-> <<>>, adopted |-> Opened(client.cycle) = "adopted"]]
    BY DEF TurnStarts
  <2> QED BY <2>1, <2>2, <2>3, ClientsAre DEF ClientType
<1>3. ConnType'
  BY DEF TurnStarts, ConnType, Conns
<1>4. TurnType'
  BY DEF TurnStarts, Goes, TurnType, TurnRecs, Pcs, Turning
<1>5. FlagType'
  BY DEF TurnStarts, FlagType
<1>6. CountType'
  BY DEF TurnStarts, Counted, CountType
<1>7. PastType'
  BY DEF TurnStarts, PastType, Pasts
<1> QED BY <1>1, <1>2, <1>3, <1>4, <1>5, <1>6, <1>7

LEMMA TurnStartsKeeps ==
    ASSUME IInv, TurnStarts
    PROVE  Keeps'
<1> USE DEF IInv, Keeps, Types
<1>1. OpenInv'
  BY DEF TurnStarts, Opened, Goes, OpenInv, InTurn, Turning
<1>2. LockInv'
  BY DEF TurnStarts, Goes, LockInv
<1>3. ClaimInv'
  BY DEF TurnStarts, Goes, ClaimInv
<1>4. StateInv'
  BY DEF TurnStarts, Goes, StateInv
<1>5. DueInv'
  <2>1. /\ conn.pending = 0 /\ steer = "off" /\ steer' = steer /\ conn.state = "open" /\ process.up
        /\ past'.astray = past.astray
    BY DEF TurnStarts, OpenInv, InTurn, Turning
  <2>2. /\ process'.stdin = process.stdin + 1 /\ process'.cycle = process.cycle /\ process'.out = process.out
        /\ client'.inbox.items = <<>> /\ conn'.pending = 1 /\ turn'.pc = "opens" /\ turn'.result = None
    BY DEF TurnStarts, Goes
  <2>3. Cycling' = Cycling /\ Claimed' = 0 /\ Sending = 0 /\ Sending' = 0
    BY <2>1, <2>2 DEF Cycling, Claimed, Sending, Yes, HumanResult, None
  <2>4. Tally(process'.out) = Tally(process.out) /\ Tally(client'.inbox.items) = 0
    BY <2>2, NoTally
  <2>5. /\ process.stdin \in Nat /\ Tally(process.out) \in Nat /\ Tally(client.inbox.items) \in Nat
        /\ Cycling \in Nat /\ Claimed \in Nat
    BY DueParts
  <2>6. ASSUME ~ past'.astray
        PROVE  Due' <= conn'.pending + Sending'
    <3>1. Due <= 0
      BY <2>1, <2>3, <2>6 DEF DueInv
    <3>2. process.stdin = 0 /\ Cycling = 0 /\ Tally(process.out) = 0
      BY <2>5, <3>1 DEF Due
    <3> QED BY <2>2, <2>3, <2>4, <3>2 DEF Due
  <2> QED BY <2>6 DEF DueInv
<1> QED BY <1>1, <1>2, <1>3, <1>4, <1>5

LEMMA TurnOpensTypes ==
    ASSUME Types, ClaimInv, TurnOpens
    PROVE  Types'
<1> USE DEF Types
<1>1. ProcType'
  BY DEF TurnOpens, ProcType
<1>2. ClientType'
  BY DEF TurnOpens, ClientType, Clients
<1>3. ConnType'
  BY DEF TurnOpens, Unlocked, ConnType, Conns
<1>4. TurnType'
  BY DEF TurnOpens, Goes, TurnType, TurnRecs, Pcs, Turning
<1>5. FlagType'
  BY DEF TurnOpens, FlagType
<1>6. CountType'
  BY DEF TurnOpens, CountType
<1>7. PastType'
  BY DEF TurnOpens, PastType
<1> QED BY <1>1, <1>2, <1>3, <1>4, <1>5, <1>6, <1>7

LEMMA TurnOpensKeeps ==
    ASSUME IInv, TurnOpens
    PROVE  Keeps'
<1> USE DEF IInv, Keeps, Types
<1>1. OpenInv'
  BY DEF TurnOpens, Goes, OpenInv, InTurn, Turning
<1>2. LockInv'
  BY DEF TurnOpens, Unlocked, Goes, LockInv, Turning, None
<1>3. ClaimInv'
  BY DEF TurnOpens, Goes, ClaimInv
<1>4. StateInv'
  BY DEF TurnOpens, Unlocked, Goes, StateInv
<1>5. DueInv'
  <2>1. /\ process' = process /\ client'.inbox.items = client.inbox.items /\ steer' = steer
        /\ conn'.pending = conn.pending /\ conn'.state = conn.state /\ past'.astray = past.astray
    BY ConnsAre DEF TurnOpens, Conns
  <2>2. Claimed' = 0
    BY DEF TurnOpens, Goes, Claimed, Yes, HumanResult, None
  <2>3. Cycling' = Cycling /\ Tally(process'.out) = Tally(process.out)
        /\ Tally(client'.inbox.items) = Tally(client.inbox.items) /\ process'.stdin = process.stdin
    BY <2>1 DEF Cycling
  <2>4. /\ process.stdin \in Nat /\ Tally(process.out) \in Nat /\ Tally(client.inbox.items) \in Nat
        /\ Cycling \in Nat /\ Claimed \in Nat
    BY DueParts
  <2>5. Due' \in Nat /\ Due' <= Due
    BY <2>2, <2>3, <2>4 DEF Due
  <2> QED BY <2>1, <2>5, DueSame
<1> QED BY <1>1, <1>2, <1>3, <1>4, <1>5

LEMMA OpenFailsTypes ==
    ASSUME Types, ClaimInv, OpenFails
    PROVE  Types'
<1> USE DEF Types
<1>1. ProcType'
  BY DEF OpenFails, ProcType
<1>2. ClientType'
  BY DEF OpenFails, ClientType, Clients
<1>3. ConnType'
  BY DEF OpenFails, Unlocked, ConnType, Conns
<1>4. TurnType'
  BY DEF OpenFails, Goes, TurnType, TurnRecs, Pcs, Turning
<1>5. FlagType'
  BY DEF OpenFails, FlagType
<1>6. CountType'
  BY DEF OpenFails, Upset, Counted, CountType
<1>7. PastType'
  BY DEF OpenFails, PastType
<1> QED BY <1>1, <1>2, <1>3, <1>4, <1>5, <1>6, <1>7

LEMMA OpenFailsKeeps ==
    ASSUME IInv, OpenFails
    PROVE  Keeps'
<1> USE DEF IInv, Keeps, Types
<1>1. OpenInv'
  BY DEF OpenFails, Goes, OpenInv, InTurn, Turning
<1>2. LockInv'
  BY DEF OpenFails, Unlocked, Goes, LockInv, Turning, None
<1>3. ClaimInv'
  BY DEF OpenFails, Goes, ClaimInv
<1>4. StateInv'
  BY DEF OpenFails, Unlocked, Goes, StateInv
<1>5. DueInv'
  <2>1. /\ process' = process /\ client'.inbox.items = client.inbox.items /\ steer' = steer
        /\ conn'.pending = conn.pending /\ conn'.state = conn.state /\ past'.astray = past.astray
    BY ConnsAre DEF OpenFails, Conns
  <2>2. Claimed' = 0
    BY DEF OpenFails, Goes, Claimed, Yes, HumanResult, None
  <2>3. Cycling' = Cycling /\ Tally(process'.out) = Tally(process.out)
        /\ Tally(client'.inbox.items) = Tally(client.inbox.items) /\ process'.stdin = process.stdin
    BY <2>1 DEF Cycling
  <2>4. /\ process.stdin \in Nat /\ Tally(process.out) \in Nat /\ Tally(client.inbox.items) \in Nat
        /\ Cycling \in Nat /\ Claimed \in Nat
    BY DueParts
  <2>5. Due' \in Nat /\ Due' <= Due
    BY <2>2, <2>3, <2>4 DEF Due
  <2> QED BY <2>1, <2>5, DueSame
<1> QED BY <1>1, <1>2, <1>3, <1>4, <1>5

LEMMA OpenCancelledTypes ==
    ASSUME Types, ClaimInv, OpenCancelled
    PROVE  Types'
<1> USE DEF Types
<1>1. ProcType'
  BY DEF OpenCancelled, ProcType
<1>2. ClientType'
  <2>1. client \in Clients /\ Closed(client.cycle) \in {"idle", "foreground", "wake", "adopted"}
    BY DEF ClientType, Closed
  <2> QED BY <2>1, InboxesAre, ClientsAre DEF OpenCancelled, ClientType
<1>3. ConnType'
  BY DEF OpenCancelled, Unlocked, ConnType, Conns
<1>4. TurnType'
  BY DEF OpenCancelled, Goes, TurnType, TurnRecs, Pcs
<1>5. FlagType'
  BY DEF OpenCancelled, FlagType
<1>6. CountType'
  BY DEF OpenCancelled, Upset, Counted, CountType
<1>7. PastType'
  BY DEF OpenCancelled, PastType, Pasts
<1> QED BY <1>1, <1>2, <1>3, <1>4, <1>5, <1>6, <1>7

LEMMA OpenCancelledKeeps ==
    ASSUME IInv, OpenCancelled
    PROVE  Keeps'
<1> USE DEF IInv, Keeps, Types
<1>1. OpenInv'
  BY DEF OpenCancelled, NoInbox, Closed, Goes, OpenInv, Turning
<1>2. LockInv'
  BY DEF OpenCancelled, Unlocked, Goes, LockInv, None
<1>3. ClaimInv'
  BY DEF OpenCancelled, Goes, ClaimInv
<1>4. StateInv'
  BY DEF OpenCancelled, Unlocked, Goes, StateInv
<1>5. DueInv'
  BY DEF OpenCancelled, DueInv
<1> QED BY <1>1, <1>2, <1>3, <1>4, <1>5

LEMMA StreamReadsTypes ==
    ASSUME Types, ClaimInv, StreamReads
    PROVE  Types'
<1> USE DEF Types
<1>1. ProcType'
  BY DEF StreamReads, ProcType
<1>2. ClientType'
  <2>1. client \in Clients /\ client.inbox \in Inboxes /\ client.inbox.items # <<>>
    BY DEF StreamReads, ClientType, Clients
  <2>2. Tail(client.inbox.items) \in Seq(Items)
    BY <2>1, TailIs DEF Inboxes
  <2> QED BY <2>1, <2>2 DEF StreamReads, ClientType, Clients, Inboxes
<1>3. ConnType'
  BY DEF StreamReads, ConnType
<1>4. TurnType'
  <2>1. client.inbox.items \in Seq(Items) /\ client.inbox.items # <<>>
    BY DEF StreamReads, ClientType, Clients, Inboxes
  <2>2. Head(client.inbox.items) \in Items
    BY <2>1, TailIs
  <2>3. \/ Goes("fails") \/ turn' = turn
        \/ turn' = [turn EXCEPT !.pc = "claims", !.result = Head(client.inbox.items)]
           /\ Head(client.inbox.items) \in Results
    BY <2>2 DEF StreamReads, Items
  <2> QED BY <2>3 DEF Goes, TurnType, TurnRecs, Pcs, Turning
<1>5. FlagType'
  BY DEF StreamReads, FlagType
<1>6. CountType'
  BY DEF StreamReads, CountType
<1>7. PastType'
  BY DEF StreamReads, PastType
<1> QED BY <1>1, <1>2, <1>3, <1>4, <1>5, <1>6, <1>7

LEMMA StreamReadsKeeps ==
    ASSUME IInv, StreamReads
    PROVE  Keeps'
<1> USE DEF IInv, Keeps, Types
<1>1. OpenInv'
  <2>1. turn.pc = "reads" /\ turn'.pc \in {"reads", "fails", "claims"} /\ conn' = conn
    BY DEF StreamReads, Goes, TurnType, TurnRecs
  <2>2. client'.inbox.open = client.inbox.open /\ client'.cycle = client.cycle
    BY DEF StreamReads, ClientType, Clients, Inboxes
  <2> QED BY <2>1, <2>2 DEF OpenInv, InTurn, Turning
<1>2. LockInv'
  BY DEF StreamReads, Goes, LockInv, InTurn, Turning, ConnType, Conns, TurnType, TurnRecs, FlagType,
  OpenInv, Pcs, None
<1>3. ClaimInv'
  <2>1. client.inbox.items \in Seq(Items) /\ client.inbox.items # <<>>
    BY DEF StreamReads, ClientType, Clients, Inboxes
  <2>2. Head(client.inbox.items) \in Items
    BY <2>1, TailIs
  <2>3. \/ Goes("fails") 
        \/ turn' = turn
        \/ turn' = [turn EXCEPT !.pc = "claims", !.result = Head(client.inbox.items)]
           /\ Head(client.inbox.items) \in Results
    BY <2>2 DEF StreamReads, Items
  <2>4. turn'.pc \notin {"grace", "closes", "clears"} /\ (turn'.result # None <=> turn'.pc = "claims")
    <3>1. CASE Goes("fails")
      BY <3>1 DEF Goes, TurnType, TurnRecs
    <3>2. CASE turn' = turn
      BY <3>2 DEF StreamReads, ClaimInv
    <3>3. CASE turn' = [turn EXCEPT !.pc = "claims", !.result = Head(client.inbox.items)]
               /\ Head(client.inbox.items) \in Results
      BY <3>3 DEF Results, HumanResult, WakeResult, None
    <3> QED BY <2>3, <3>1, <3>2, <3>3
  <2> QED BY <2>4 DEF ClaimInv
<1>4. StateInv'
  BY DEF StreamReads, Goes, StateInv, ProcType, Processes, ClientType, Clients, ConnType, Conns, TurnType,
  TurnRecs, Pcs, Turning, Envelopes, None
<1>5. DueInv'
  <2>1. client.inbox.items \in Seq(Items) /\ client.inbox.items # <<>> /\ turn.pc = "reads" /\ turn.result = None
    BY DEF StreamReads, ClientType, Clients, Inboxes, ClaimInv
  <2> DEFINE item == client.inbox.items[1]
  <2>2. Head(client.inbox.items) = item
    BY <2>1, TailIs
  <2>3. \/ turn'.pc # "grace" /\ turn'.result = None
        \/ turn'.pc = "claims" /\ turn'.result = item
    BY <2>1, <2>2 DEF StreamReads, Goes, TurnType, TurnRecs
  <2>4. /\ process' = process /\ conn' = conn /\ steer' = steer /\ past' = past
        /\ client'.inbox.items = Tail(client.inbox.items)
    BY DEF StreamReads, ClientType, Clients, Inboxes
  <2> DEFINE y == Yes(item = HumanResult)
  <2>5. y \in Nat /\ Claimed' <= y /\ Claimed' \in Nat
    BY <2>3 DEF Claimed, Yes, HumanResult, None
  <2>6. Tally(client'.inbox.items) + y <= Tally(client.inbox.items) /\ Tally(client'.inbox.items) \in Nat
    <3>1. Tail(client.inbox.items) \in Seq(Items)
      BY <2>1, TailIs
    <3> QED BY <2>1, <2>4, <3>1, TailTally, TallyIs
  <2>7. Cycling' = Cycling /\ Tally(process'.out) = Tally(process.out) /\ process'.stdin = process.stdin
    BY <2>4 DEF Cycling
  <2>8. /\ process.stdin \in Nat /\ Tally(process.out) \in Nat /\ Tally(client.inbox.items) \in Nat
        /\ Cycling \in Nat /\ Claimed \in Nat
    BY DueParts
  <2> HIDE DEF y
  <2>9. Due' \in Nat /\ Due' <= Due
    BY <2>5, <2>6, <2>7, <2>8 DEF Due
  <2> QED BY <2>4, <2>9, DueSame
<1> QED BY <1>1, <1>2, <1>3, <1>4, <1>5

LEMMA ClaimsTypes ==
    ASSUME Types, ClaimInv, Claims
    PROVE  Types'
<1> USE DEF Types
<1>1. ProcType'
  BY DEF Claims, ProcType
<1>2. ClientType'
  BY DEF Claims, ClientType
<1>3. ConnType'
  <2>1. conn \in Conns /\ conn.pending \in Nat
    BY DEF ConnType, Conns
  <2>2. \/ conn' = LastResult
        \/ conn' = [conn EXCEPT !.lock = "turn"]
        \/ conn.pending > 1 /\ conn' = OneResultLess
    BY <2>1 DEF Claims
  <2>3. CASE conn' = LastResult
    BY <2>3, ConnsAre DEF ConnType
  <2>4. CASE conn.pending > 1 /\ conn' = OneResultLess
    BY <2>1, <2>4, ConnsAre DEF ConnType
  <2>5. CASE conn' = [conn EXCEPT !.lock = "turn"]
    BY <2>1, <2>5 DEF ConnType, Conns
  <2> QED BY <2>2, <2>3, <2>4, <2>5
<1>4. TurnType'
  BY DEF Claims, Goes, TurnType, TurnRecs, Pcs, Turning, Items, None
<1>5. FlagType'
  BY DEF Claims, FlagType
<1>6. CountType'
  BY DEF Claims, CountType
<1>7. PastType'
  BY DEF Claims, PastType, Pasts
<1> QED BY <1>1, <1>2, <1>3, <1>4, <1>5, <1>6, <1>7

LEMMA ClaimsKeeps ==
    ASSUME IInv, Claims
    PROVE  Keeps'
<1> USE DEF IInv, Keeps, Types
<1>1. OpenInv'
  <2>1. client' = client /\ turn.pc = "claims" /\ turn'.pc \in {"closes", "reads", "grace"}
    BY ClaimsCases DEF Claims
  <2> QED BY <2>1 DEF OpenInv, InTurn, Turning
<1>2. LockInv'
  <2>1. /\ turn.pc = "claims" /\ turn'.pc \in {"closes", "reads", "grace"} /\ steer' = steer
        /\ conn.lock = None /\ conn'.lock = IF turn'.pc = "grace" THEN "turn" ELSE None
    BY ClaimsCases DEF Claims
  <2> QED BY <2>1 DEF LockInv, Turning, None
<1>3. ClaimInv'
  <2>1. /\ conn.pending \in Nat /\ conn.lock = None /\ steer # "sends" /\ steer' = steer
    BY DEF Claims, LockInv, ConnType, Conns, None
  <2>2. \/ conn.pending <= 1 /\ conn'.pending = 0 /\ turn'.pc = "closes" /\ turn'.result = None
        \/ conn.pending > 1 /\ conn'.pending = conn.pending - 1 /\ turn'.pc = "reads" /\ turn'.result = None
        \/ conn.pending > 1 /\ conn'.pending = conn.pending /\ turn'.pc = "grace" /\ turn'.result = None
    BY ClaimsCases
  <2> QED BY <2>1, <2>2 DEF ClaimInv
<1>4. StateInv'
  <2>1. /\ turn.pc = "claims" /\ turn'.pc \in {"closes", "reads", "grace"} /\ process' = process /\ client' = client
        /\ conn'.state = conn.state /\ conn'.doomed = conn.doomed
    BY ClaimsCases DEF Claims
  <2> QED BY <2>1 DEF StateInv
<1>5. DueInv'
  <2>1. /\ conn.pending \in Nat /\ conn.lock = None /\ steer # "sends" /\ steer' = steer
    BY DEF Claims, LockInv, ConnType, Conns, None
  <2>2. \/ conn.pending <= 1 /\ conn'.pending = 0 /\ turn'.pc = "closes" /\ turn'.result = None
        \/ conn.pending > 1 /\ conn'.pending = conn.pending - 1 /\ turn'.pc = "reads" /\ turn'.result = None
        \/ conn.pending > 1 /\ conn'.pending = conn.pending /\ turn'.pc = "grace" /\ turn'.result = None
    BY ClaimsCases
  <2>3. conn'.state = conn.state /\ process' = process /\ client' = client
    BY ClaimsCases DEF Claims
  <2>4. turn.pc = "claims" /\ turn.result \in Results
    BY DEF Claims, ClaimInv, TurnType, TurnRecs
  <2>5. past'.astray = (past.astray \/ turn.result = WakeResult)
    BY DEF Claims, PastType, Pasts
  <2>6. ASSUME ~ past'.astray
        PROVE  Claimed = 1 /\ ~ past.astray
    BY <2>4, <2>5, <2>6 DEF Claimed, Yes, Results
  <2>7. Claimed' = IF turn'.pc = "grace" THEN 1 ELSE 0
    BY <2>2 DEF Claimed, Yes, HumanResult, None
  <2>8. /\ process.stdin \in Nat /\ Tally(process.out) \in Nat /\ Tally(client.inbox.items) \in Nat
        /\ Cycling \in Nat /\ Sending = 0 /\ Sending' = 0
    BY <2>1, DueParts DEF Sending, Yes
  <2>9. Cycling' = Cycling /\ Tally(process'.out) = Tally(process.out)
        /\ Tally(client'.inbox.items) = Tally(client.inbox.items) /\ process'.stdin = process.stdin
    BY <2>3 DEF Cycling
  <2>10. ASSUME process'.up, conn'.state = "open", ~ past'.astray
         PROVE  Due' <= conn'.pending + Sending'
    <3>1. Due <= conn.pending + Sending /\ Claimed = 1
      BY <2>3, <2>6, <2>10 DEF DueInv
    <3>2. process.stdin + Cycling + Tally(process.out) + Tally(client.inbox.items) + 1 <= conn.pending
      BY <2>1, <2>8, <3>1 DEF Due
    <3>3. Due' = process.stdin + Cycling + Tally(process.out) + Tally(client.inbox.items) + Claimed'
      BY <2>9 DEF Due
    <3> QED BY <2>1, <2>2, <2>7, <2>8, <3>2, <3>3
  <2> QED BY <2>10 DEF DueInv
<1> QED BY <1>1, <1>2, <1>3, <1>4, <1>5

LEMMA GraceEndsTypes ==
    ASSUME Types, ClaimInv, GraceEnds
    PROVE  Types'
<1> USE DEF Types
<1>1. ProcType'
  BY DEF GraceEnds, ProcType
<1>2. ClientType'
  BY DEF GraceEnds, ClientType
<1>3. ConnType'
  <2>1. conn.pending \in Nat /\ conn.pending > 1
    BY DEF GraceEnds, ConnType, Conns, ClaimInv
  <2>2. conn' = LastResult \/ conn' = OneResultLess
    BY DEF GraceEnds
  <2> QED BY <2>1, <2>2, ConnsAre DEF ConnType
<1>4. TurnType'
  BY DEF GraceEnds, Goes, TurnType, TurnRecs, Pcs, Turning
<1>5. FlagType'
  BY DEF GraceEnds, FlagType
<1>6. CountType'
  BY DEF GraceEnds, CountType
<1>7. PastType'
  BY DEF GraceEnds, PastType, Pasts
<1> QED BY <1>1, <1>2, <1>3, <1>4, <1>5, <1>6, <1>7

LEMMA GraceEndsKeeps ==
    ASSUME IInv, GraceEnds
    PROVE  Keeps'
<1> USE DEF IInv, Keeps, Types
<1>1. OpenInv'
  BY DEF GraceEnds, LastResult, OneResultLess, Unlocked, Goes, OpenInv, InTurn, Turning, ClientType,
  Clients, Inboxes, ConnType, Conns, TurnType, TurnRecs, Pcs, None
<1>2. LockInv'
  BY DEF GraceEnds, LastResult, OneResultLess, Unlocked, Goes, LockInv, InTurn, Turning, ConnType, Conns,
  TurnType, TurnRecs, FlagType, OpenInv, Pcs, None
<1>3. ClaimInv'
  BY DEF GraceEnds, LastResult, Unlocked, Goes, ClaimInv, ConnType, Conns, TurnType, TurnRecs, LockInv
<1>4. StateInv'
  <2>1. conn' = LastResult \/ conn' = OneResultLess
    BY DEF GraceEnds
  <2>2. conn'.state = conn.state /\ conn'.doomed = conn.doomed
    <3>1. LastResult.state = conn.state /\ LastResult.doomed = conn.doomed
      BY ConnsAre DEF ConnType, Conns
    <3>2. OneResultLess.state = conn.state /\ OneResultLess.doomed = conn.doomed
      BY ConnsAre DEF ConnType, Conns
    <3> QED BY <2>1, <3>1, <3>2
  <2>3. Goes("reads") \/ Goes("closes")
    BY DEF GraceEnds
  <2>4. turn.pc = "grace" /\ turn'.pc \in {"reads", "closes"}
    BY <2>3 DEF GraceEnds, Goes, TurnType, TurnRecs
  <2> QED BY <2>2, <2>4 DEF GraceEnds, StateInv
<1>5. DueInv'
  <2>1. /\ conn.pending \in Nat /\ conn.pending > 1 /\ conn.lock = "turn" /\ steer # "sends" /\ steer' = steer
    BY DEF GraceEnds, ClaimInv, LockInv, ConnType, Conns
  <2>2. \/ conn'.pending = conn.pending - 1 /\ UNCHANGED past
        \/ past'.astray
    <3>1. \/ conn' = OneResultLess /\ UNCHANGED past
          \/ past'.astray
      BY DEF GraceEnds, PastType, Pasts
    <3>2. conn' = OneResultLess => conn'.pending = conn.pending - 1
      BY ConnsAre DEF ConnType, Conns
    <3> QED BY <3>1, <3>2
  <2>3. /\ conn'.state = conn.state /\ process' = process /\ client' = client
        /\ turn.pc = "grace" /\ turn'.pc \in {"reads", "closes"} /\ turn'.result = None
    <3>1. conn' = LastResult \/ conn' = OneResultLess
      BY DEF GraceEnds
    <3>2. conn'.state = conn.state
      <4>1. LastResult.state = conn.state /\ OneResultLess.state = conn.state
        BY ConnsAre DEF ConnType, Conns
      <4> QED BY <3>1, <4>1
    <3>3. Goes("reads") \/ Goes("closes")
      BY DEF GraceEnds
    <3>4. turn'.pc \in {"reads", "closes"} /\ turn'.result = None
      BY <3>3 DEF Goes, TurnType, TurnRecs
    <3> QED BY <3>2, <3>4 DEF GraceEnds
  <2>4. Claimed = 1 /\ Claimed' = 0
    BY <2>3 DEF Claimed, Yes, HumanResult, None
  <2>5. /\ process.stdin \in Nat /\ Tally(process.out) \in Nat /\ Tally(client.inbox.items) \in Nat
        /\ Cycling \in Nat /\ Sending = 0 /\ Sending' = 0
    BY <2>1, DueParts DEF Sending, Yes
  <2>6. Cycling' = Cycling /\ Tally(process'.out) = Tally(process.out)
        /\ Tally(client'.inbox.items) = Tally(client.inbox.items) /\ process'.stdin = process.stdin
    BY <2>3 DEF Cycling
  <2>7. ASSUME process'.up, conn'.state = "open", ~ past'.astray
        PROVE  Due' <= conn'.pending + Sending'
    <3>1. conn'.pending = conn.pending - 1 /\ Due <= conn.pending + Sending
      BY <2>2, <2>3, <2>7 DEF DueInv
    <3>2. process.stdin + Cycling + Tally(process.out) + Tally(client.inbox.items) + 1 <= conn.pending
      BY <2>1, <2>4, <2>5, <3>1 DEF Due
    <3>3. Due' = process.stdin + Cycling + Tally(process.out) + Tally(client.inbox.items) + 0
      BY <2>4, <2>6 DEF Due
    <3> QED BY <2>1, <2>5, <3>1, <3>2, <3>3
  <2> QED BY <2>7 DEF DueInv
<1> QED BY <1>1, <1>2, <1>3, <1>4, <1>5

LEMMA StreamClosesTypes ==
    ASSUME Types, ClaimInv, StreamCloses
    PROVE  Types'
<1> USE DEF Types
<1>1. ProcType'
  BY DEF StreamCloses, ProcType
<1>2. ClientType'
  BY DEF StreamCloses, ClientType
<1>3. ConnType'
  BY DEF StreamCloses, Unlocked, ConnType, Conns
<1>4. TurnType'
  BY DEF StreamCloses, Goes, TurnType, TurnRecs, Pcs, Turning
<1>5. FlagType'
  BY DEF StreamCloses, FlagType
<1>6. CountType'
  BY DEF StreamCloses, Upset, Counted, CountType
<1>7. PastType'
  BY DEF StreamCloses, PastType
<1> QED BY <1>1, <1>2, <1>3, <1>4, <1>5, <1>6, <1>7

LEMMA StreamClosesKeeps ==
    ASSUME IInv, StreamCloses
    PROVE  Keeps'
<1> USE DEF IInv, Keeps, Types
<1>1. OpenInv'
  BY DEF StreamCloses, Goes, OpenInv, InTurn, Turning
<1>2. LockInv'
  BY DEF StreamCloses, Unlocked, Goes, LockInv, InTurn, Turning, None
<1>3. ClaimInv'
  BY DEF StreamCloses, Goes, ClaimInv
<1>4. StateInv'
  BY DEF StreamCloses, Unlocked, Goes, StateInv
<1>5. DueInv'
  <2>1. /\ process' = process /\ client'.inbox.items = client.inbox.items /\ steer' = steer
        /\ conn'.pending = conn.pending /\ conn'.state = conn.state /\ past'.astray = past.astray
    BY ConnsAre DEF StreamCloses, Conns
  <2>2. Claimed' = 0
    BY DEF StreamCloses, Goes, Claimed, Yes, HumanResult, None
  <2>3. Cycling' = Cycling /\ Tally(process'.out) = Tally(process.out)
        /\ Tally(client'.inbox.items) = Tally(client.inbox.items) /\ process'.stdin = process.stdin
    BY <2>1 DEF Cycling
  <2>4. /\ process.stdin \in Nat /\ Tally(process.out) \in Nat /\ Tally(client.inbox.items) \in Nat
        /\ Cycling \in Nat /\ Claimed \in Nat
    BY DueParts
  <2>5. Due' \in Nat /\ Due' <= Due
    BY <2>2, <2>3, <2>4 DEF Due
  <2> QED BY <2>1, <2>5, DueSame
<1> QED BY <1>1, <1>2, <1>3, <1>4, <1>5

LEMMA FailsTypes ==
    ASSUME Types, ClaimInv, Fails
    PROVE  Types'
<1> USE DEF Types
<1>1. ProcType'
  BY DEF Fails, ProcType
<1>2. ClientType'
  BY DEF Fails, ClientType
<1>3. ConnType'
  BY DEF Fails, ConnType, Conns
<1>4. TurnType'
  BY DEF Fails, Goes, TurnType, TurnRecs, Pcs, Turning
<1>5. FlagType'
  BY DEF Fails, FlagType
<1>6. CountType'
  BY DEF Fails, CountType
<1>7. PastType'
  BY DEF Fails, PastType
<1> QED BY <1>1, <1>2, <1>3, <1>4, <1>5, <1>6, <1>7

LEMMA FailsKeeps ==
    ASSUME IInv, Fails
    PROVE  Keeps'
<1> USE DEF IInv, Keeps, Types
<1>1. OpenInv'
  <2>1. turn.pc = "fails" /\ turn'.pc \in {"retires", "closes"} /\ client' = client /\ steer' = steer
    BY DEF Fails, Goes, TurnType, TurnRecs
  <2> QED BY <2>1 DEF OpenInv, InTurn, Turning
<1>2. LockInv'
  <2>1. turn.pc = "fails" /\ turn'.pc \in {"retires", "closes"} /\ client' = client /\ steer' = steer
    BY DEF Fails, Goes, TurnType, TurnRecs
  <2>2. conn'.lock = conn.lock
    BY DEF Fails, ConnType, Conns
  <2> QED BY <2>1, <2>2 DEF LockInv, InTurn, Turning
<1>3. ClaimInv'
  BY DEF Fails, Goes, ClaimInv, TurnType, TurnRecs
<1>4. StateInv'
  BY DEF Fails, Goes, StateInv, ProcType, Processes, ClientType, Clients, ConnType, Conns, TurnType,
  TurnRecs, Pcs, Turning, Envelopes, None
<1>5. DueInv'
  BY DEF Fails, DueInv, ConnType, Conns
<1> QED BY <1>1, <1>2, <1>3, <1>4, <1>5

LEMMA RetiresTypes ==
    ASSUME Types, ClaimInv, Retires
    PROVE  Types'
<1> USE DEF Types
<1>1. ProcType'
  BY DEF Retires, ProcType
<1>2. ClientType'
  BY DEF Retires, ClientType
<1>3. ConnType'
  BY DEF Retires, ConnType
<1>4. TurnType'
  BY DEF Retires, Goes, TurnType, TurnRecs, Pcs, Turning
<1>5. FlagType'
  BY DEF Retires, FlagType
<1>6. CountType'
  BY DEF Retires, CountType
<1>7. PastType'
  BY DEF Retires, PastType
<1> QED BY <1>1, <1>2, <1>3, <1>4, <1>5, <1>6, <1>7

LEMMA RetiresKeeps ==
    ASSUME IInv, Retires
    PROVE  Keeps'
<1> USE DEF IInv, Keeps, Types
<1>1. OpenInv'
  BY DEF Retires, Goes, OpenInv, InTurn, Turning
<1>2. LockInv'
  BY DEF Retires, Goes, LockInv, InTurn, Turning
<1>3. ClaimInv'
  BY DEF Retires, Goes, ClaimInv
<1>4. StateInv'
  BY DEF Retires, StateInv
<1>5. DueInv'
  BY DEF Retires, DueInv
<1> QED BY <1>1, <1>2, <1>3, <1>4, <1>5

LEMMA ClosesTypes ==
    ASSUME Types, ClaimInv, Closes
    PROVE  Types'
<1> USE DEF Types
<1>1. ProcType'
  BY DEF Closes, ProcType
<1>2. ClientType'
  <2>1. client \in Clients /\ Closed(client.cycle) \in {"idle", "foreground", "wake", "adopted"}
    BY DEF ClientType, Closed
  <2> QED BY <2>1, InboxesAre, ClientsAre DEF Closes, ClientType
<1>3. ConnType'
  BY DEF Closes, ConnType
<1>4. TurnType'
  BY DEF Closes, Goes, TurnType, TurnRecs, Pcs, Turning
<1>5. FlagType'
  BY DEF Closes, FlagType
<1>6. CountType'
  BY DEF Closes, CountType
<1>7. PastType'
  BY DEF Closes, PastType
<1> QED BY <1>1, <1>2, <1>3, <1>4, <1>5, <1>6, <1>7

LEMMA ClosesKeeps ==
    ASSUME IInv, Closes
    PROVE  Keeps'
<1> USE DEF IInv, Keeps, Types
<1>1. OpenInv'
  BY DEF Closes, NoInbox, Closed, Goes, OpenInv, InTurn, Turning
<1>2. LockInv'
  BY DEF Closes, Goes, LockInv, InTurn, Turning
<1>3. ClaimInv'
  BY DEF Closes, Goes, ClaimInv
<1>4. StateInv'
  BY DEF Closes, Goes, StateInv
<1>5. DueInv'
  <2>1. /\ process' = process /\ steer' = steer /\ conn' = conn /\ past' = past
    BY DEF Closes
  <2>2. client'.inbox.items = <<>>
    BY DEF Closes, NoInbox
  <2>3. Claimed' = 0
    BY DEF Closes, Goes, Claimed, Yes, HumanResult, None
  <2>4. Cycling' = Cycling /\ Tally(process'.out) = Tally(process.out)
        /\ Tally(client'.inbox.items) = 0 /\ process'.stdin = process.stdin
    BY <2>1, <2>2, NoTally DEF Cycling
  <2>5. /\ process.stdin \in Nat /\ Tally(process.out) \in Nat /\ Tally(client.inbox.items) \in Nat
        /\ Cycling \in Nat /\ Claimed \in Nat
    BY DueParts
  <2>6. Due' \in Nat /\ Due' <= Due
    BY <2>3, <2>4, <2>5 DEF Due
  <2> QED BY <2>1, <2>6, DueSame
<1> QED BY <1>1, <1>2, <1>3, <1>4, <1>5

LEMMA ClearsTypes ==
    ASSUME Types, ClaimInv, Clears
    PROVE  Types'
<1> USE DEF Types
<1>1. ProcType'
  BY DEF Clears, ProcType
<1>2. ClientType'
  BY DEF Clears, ClientType
<1>3. ConnType'
  BY DEF Clears, ConnType, Conns
<1>4. TurnType'
  BY DEF Clears, Goes, TurnType, TurnRecs, Pcs
<1>5. FlagType'
  BY DEF Clears, FlagType
<1>6. CountType'
  BY DEF Clears, CountType
<1>7. PastType'
  BY DEF Clears, PastType
<1> QED BY <1>1, <1>2, <1>3, <1>4, <1>5, <1>6, <1>7

LEMMA ClearsKeeps ==
    ASSUME IInv, Clears
    PROVE  Keeps'
<1> USE DEF IInv, Keeps, Types
<1>1. OpenInv'
  BY DEF Clears, Goes, OpenInv, Turning
<1>2. LockInv'
  BY DEF Clears, Goes, LockInv, None
<1>3. ClaimInv'
  BY DEF Clears, Goes, ClaimInv
<1>4. StateInv'
  BY DEF Clears, Goes, StateInv
<1>5. DueInv'
  <2>1. /\ process' = process /\ steer' = steer /\ client' = client /\ past' = past
        /\ conn'.pending = 0 /\ conn'.state = conn.state /\ turn'.result = None /\ turn'.pc = "off"
    BY DEF Clears, Goes
  <2>2. conn.state = "open" => conn.pending = 0
    BY DEF Clears, ClaimInv
  <2>3. Claimed' = 0
    BY <2>1 DEF Claimed, Yes, HumanResult, None
  <2>4. Cycling' = Cycling /\ Sending' = Sending /\ Tally(process'.out) = Tally(process.out)
        /\ Tally(client'.inbox.items) = Tally(client.inbox.items) /\ process'.stdin = process.stdin
    BY <2>1 DEF Cycling, Sending
  <2>5. /\ process.stdin \in Nat /\ Tally(process.out) \in Nat /\ Tally(client.inbox.items) \in Nat
        /\ Cycling \in Nat /\ Claimed \in Nat /\ Sending \in Nat
    BY DueParts
  <2>6. Due' \in Nat /\ Due' <= Due
    BY <2>3, <2>4, <2>5 DEF Due
  <2> QED BY <2>1, <2>2, <2>4, <2>5, <2>6, DueParts DEF DueInv
<1> QED BY <1>1, <1>2, <1>3, <1>4, <1>5

LEMMA SteerStartsTypes ==
    ASSUME Types, ClaimInv, SteerStarts
    PROVE  Types'
<1> USE DEF Types
<1>1. ProcType'
  BY DEF SteerStarts, ProcType
<1>2. ClientType'
  BY DEF SteerStarts, ClientType
<1>3. ConnType'
  BY DEF SteerStarts, ConnType
<1>4. TurnType'
  BY DEF SteerStarts, TurnType
<1>5. FlagType'
  BY DEF SteerStarts, FlagType
<1>6. CountType'
  BY DEF SteerStarts, Counted, CountType
<1>7. PastType'
  BY DEF SteerStarts, PastType
<1> QED BY <1>1, <1>2, <1>3, <1>4, <1>5, <1>6, <1>7

LEMMA SteerStartsKeeps ==
    ASSUME IInv, SteerStarts
    PROVE  Keeps'
<1> USE DEF IInv, Keeps, Types
<1>1. OpenInv'
  BY DEF SteerStarts, OpenInv, InTurn
<1>2. LockInv'
  BY DEF SteerStarts, LockInv
<1>3. ClaimInv'
  BY DEF SteerStarts, ClaimInv
<1>4. StateInv'
  BY DEF SteerStarts, StateInv
<1>5. DueInv'
  BY DEF SteerStarts, DueInv, Due, Cycling, Claimed, Sending
<1> QED BY <1>1, <1>2, <1>3, <1>4, <1>5

LEMMA SteerSendsTypes ==
    ASSUME Types, ClaimInv, SteerSends
    PROVE  Types'
<1> USE DEF Types
<1>1. ProcType'
  BY DEF SteerSends, ProcType, Processes
<1>2. ClientType'
  BY DEF SteerSends, ClientType
<1>3. ConnType'
  BY DEF SteerSends, ConnType, Conns, ProcType, Processes, Results, Envelopes, HumanResult, WakeResult,
  ClaimInv, None
<1>4. TurnType'
  BY DEF SteerSends, TurnType
<1>5. FlagType'
  BY DEF SteerSends, FlagType
<1>6. CountType'
  BY DEF SteerSends, CountType, None
<1>7. PastType'
  BY DEF SteerSends, PastType
<1> QED BY <1>1, <1>2, <1>3, <1>4, <1>5, <1>6, <1>7

LEMMA SteerSendsKeeps ==
    ASSUME IInv, SteerSends
    PROVE  Keeps'
<1> USE DEF IInv, Keeps, Types
<1>1. OpenInv'
  BY DEF SteerSends, OpenInv, InTurn
<1>2. LockInv'
  BY DEF SteerSends, LockInv, InTurn, Turning, ConnType, Conns, TurnType, TurnRecs, FlagType, OpenInv, Pcs,
  None
<1>3. ClaimInv'
  <2>1. /\ steer = "waits" /\ turn' = turn /\ client' = client /\ past' = past
        /\ \/ /\ conn.active /\ conn.pending > 0 /\ steer' = "sends"
              /\ conn' = [conn EXCEPT !.lock = "steer", !.init = @ /\ conn.pending > 1]
              /\ process' = [process EXCEPT !.stdin = @ + 1]
           \/ steer' = "off" /\ conn' = conn /\ process' = process
    BY DEF SteerSends
  <2>2. /\ conn'.pending = conn.pending /\ conn'.state = conn.state /\ conn'.doomed = conn.doomed
        /\ process'.up = process.up /\ process'.out = process.out /\ process'.cycle = process.cycle
        /\ conn.pending \in Nat
        /\ \/ conn.pending > 0 /\ process'.stdin = process.stdin + 1 /\ steer' = "sends"
           \/ process'.stdin = process.stdin /\ steer' = "off"
    BY <2>1 DEF ConnType, Conns, ProcType, Processes
  <2> QED BY <2>1, <2>2 DEF ClaimInv
<1>4. StateInv'
  <2>1. /\ steer = "waits" /\ turn' = turn /\ client' = client /\ past' = past
        /\ \/ /\ conn.active /\ conn.pending > 0 /\ steer' = "sends"
              /\ conn' = [conn EXCEPT !.lock = "steer", !.init = @ /\ conn.pending > 1]
              /\ process' = [process EXCEPT !.stdin = @ + 1]
           \/ steer' = "off" /\ conn' = conn /\ process' = process
    BY DEF SteerSends
  <2>2. /\ conn'.pending = conn.pending /\ conn'.state = conn.state /\ conn'.doomed = conn.doomed
        /\ process'.up = process.up /\ process'.out = process.out /\ process'.cycle = process.cycle
        /\ conn.pending \in Nat
        /\ \/ conn.pending > 0 /\ process'.stdin = process.stdin + 1 /\ steer' = "sends"
           \/ process'.stdin = process.stdin /\ steer' = "off"
    BY <2>1 DEF ConnType, Conns, ProcType, Processes
  <2> QED BY <2>1, <2>2 DEF StateInv
<1>5. DueInv'
  <2>1. /\ steer = "waits" /\ turn' = turn /\ client' = client /\ past' = past
        /\ \/ /\ conn.active /\ conn.pending > 0 /\ steer' = "sends"
              /\ conn' = [conn EXCEPT !.lock = "steer", !.init = @ /\ conn.pending > 1]
              /\ process' = [process EXCEPT !.stdin = @ + 1]
           \/ steer' = "off" /\ conn' = conn /\ process' = process
    BY DEF SteerSends
  <2>2. /\ conn'.pending = conn.pending /\ conn'.state = conn.state /\ conn'.doomed = conn.doomed
        /\ process'.up = process.up /\ process'.out = process.out /\ process'.cycle = process.cycle
        /\ conn.pending \in Nat
        /\ \/ conn.pending > 0 /\ process'.stdin = process.stdin + 1 /\ steer' = "sends"
           \/ process'.stdin = process.stdin /\ steer' = "off"
    BY <2>1 DEF ConnType, Conns, ProcType, Processes
  <2>3. Cycling' = Cycling /\ Claimed' = Claimed /\ Tally(process'.out) = Tally(process.out)
        /\ Tally(client'.inbox.items) = Tally(client.inbox.items)
    BY <2>1, <2>2 DEF Cycling, Claimed
  <2>4. /\ process.stdin \in Nat /\ Tally(process.out) \in Nat /\ Tally(client.inbox.items) \in Nat
        /\ Cycling \in Nat /\ Claimed \in Nat
    BY DueParts
  <2>5. Sending = 0 /\ Due' + Sending = Due + Sending'
    BY <2>1, <2>2, <2>3, <2>4 DEF Due, Sending, Yes
  <2>6. Sending' \in Nat /\ Due' \in Nat /\ Due \in Nat
    BY <2>2, <2>3, <2>4 DEF Due, Sending, Yes
  <2> QED BY <2>1, <2>2, <2>5, <2>6 DEF DueInv
<1> QED BY <1>1, <1>2, <1>3, <1>4, <1>5

LEMMA SteerCountsTypes ==
    ASSUME Types, ClaimInv, SteerCounts
    PROVE  Types'
<1> USE DEF Types
<1>1. ProcType'
  BY DEF SteerCounts, ProcType
<1>2. ClientType'
  BY DEF SteerCounts, ClientType
<1>3. ConnType'
  <2>1. conn \in Conns /\ conn.pending + 1 \in Nat
    BY DEF ConnType, Conns
  <2>2. conn' = Unlocked \/ conn' = [Unlocked EXCEPT !.pending = @ + 1]
    BY DEF SteerCounts
  <2> QED BY <2>1, <2>2 DEF ConnType, Unlocked, Conns
<1>4. TurnType'
  BY DEF SteerCounts, TurnType
<1>5. FlagType'
  BY DEF SteerCounts, FlagType
<1>6. CountType'
  BY DEF SteerCounts, CountType
<1>7. PastType'
  BY DEF SteerCounts, PastType
<1> QED BY <1>1, <1>2, <1>3, <1>4, <1>5, <1>6, <1>7

LEMMA SteerCountsKeeps ==
    ASSUME IInv, SteerCounts
    PROVE  Keeps'
<1> USE DEF IInv, Keeps, Types
<1>1. OpenInv'
  <2>1. /\ steer = "sends" /\ steer' = "off" /\ process' = process /\ client' = client /\ turn' = turn /\ past' = past
        /\ conn'.state = conn.state /\ conn'.active = conn.active /\ conn.pending \in Nat
        /\ \/ conn'.pending = conn.pending + 1
           \/ conn'.pending = conn.pending /\ ~ process.up
    BY DEF SteerCounts, Unlocked, ConnType, Conns
  <2>2. InTurn
    BY <2>1 DEF LockInv
  <2> QED BY <2>1, <2>2 DEF OpenInv, InTurn
<1>2. LockInv'
  BY DEF SteerCounts, Unlocked, LockInv, ConnType, Conns, None
<1>3. ClaimInv'
  BY DEF SteerCounts, Unlocked, ClaimInv, ConnType, Conns, LockInv
<1>4. StateInv'
  BY DEF SteerCounts, Unlocked, StateInv, ProcType, Processes, ClientType, Clients, ConnType, Conns,
  TurnType, TurnRecs, Pcs, Turning, Envelopes, None
<1>5. DueInv'
  <2>1. /\ steer = "sends" /\ steer' = "off" /\ process' = process /\ client' = client /\ turn' = turn /\ past' = past
        /\ conn'.state = conn.state /\ conn'.active = conn.active /\ conn.pending \in Nat
        /\ \/ conn'.pending = conn.pending + 1
           \/ conn'.pending = conn.pending /\ ~ process.up
    BY DEF SteerCounts, Unlocked, ConnType, Conns
  <2>2. Due' = Due /\ Due \in Nat
    BY <2>1, DueParts DEF Due, Cycling, Claimed
  <2>3. Sending = 1 /\ Sending' = 0
    BY <2>1 DEF Sending, Yes
  <2> QED BY <2>1, <2>2, <2>3 DEF DueInv
<1> QED BY <1>1, <1>2, <1>3, <1>4, <1>5

LEMMA SteerTimesOutTypes ==
    ASSUME Types, ClaimInv, SteerTimesOut
    PROVE  Types'
<1> USE DEF Types
<1>1. ProcType'
  BY DEF SteerTimesOut, ProcType
<1>2. ClientType'
  BY DEF SteerTimesOut, ClientType
<1>3. ConnType'
  BY DEF SteerTimesOut, Unlocked, ConnType, Conns
<1>4. TurnType'
  BY DEF SteerTimesOut, TurnType
<1>5. FlagType'
  BY DEF SteerTimesOut, FlagType
<1>6. CountType'
  BY DEF SteerTimesOut, Upset, Counted, CountType
<1>7. PastType'
  BY DEF SteerTimesOut, PastType, Pasts
<1> QED BY <1>1, <1>2, <1>3, <1>4, <1>5, <1>6, <1>7

LEMMA SteerTimesOutKeeps ==
    ASSUME IInv, SteerTimesOut
    PROVE  Keeps'
<1> USE DEF IInv, Keeps, Types
<1>1. OpenInv'
  BY DEF SteerTimesOut, Unlocked, OpenInv, InTurn
<1>2. LockInv'
  BY DEF SteerTimesOut, Unlocked, LockInv, None
<1>3. ClaimInv'
  BY DEF SteerTimesOut, Unlocked, ClaimInv
<1>4. StateInv'
  BY DEF SteerTimesOut, Unlocked, StateInv
<1>5. DueInv'
  BY DEF SteerTimesOut, DueInv
<1> QED BY <1>1, <1>2, <1>3, <1>4, <1>5

LEMMA RetiresDoomedTypes ==
    ASSUME Types, ClaimInv, RetiresDoomed
    PROVE  Types'
<1> USE DEF Types
<1>1. ProcType'
  BY DEF RetiresDoomed, ProcType
<1>2. ClientType'
  BY DEF RetiresDoomed, ClientType
<1>3. ConnType'
  BY DEF RetiresDoomed, ConnType, Conns
<1>4. TurnType'
  BY DEF RetiresDoomed, TurnType
<1>5. FlagType'
  BY DEF RetiresDoomed, FlagType
<1>6. CountType'
  BY DEF RetiresDoomed, CountType, None
<1>7. PastType'
  BY DEF RetiresDoomed, PastType
<1> QED BY <1>1, <1>2, <1>3, <1>4, <1>5, <1>6, <1>7

LEMMA RetiresDoomedKeeps ==
    ASSUME IInv, RetiresDoomed
    PROVE  Keeps'
<1> USE DEF IInv, Keeps, Types
<1>1. OpenInv'
  BY DEF RetiresDoomed, OpenInv, InTurn
<1>2. LockInv'
  BY DEF RetiresDoomed, LockInv, InTurn
<1>3. ClaimInv'
  BY DEF RetiresDoomed, ClaimInv
<1>4. StateInv'
  BY DEF RetiresDoomed, StateInv
<1>5. DueInv'
  BY DEF RetiresDoomed, DueInv
<1> QED BY <1>1, <1>2, <1>3, <1>4, <1>5

LEMMA StopsSessionTypes ==
    ASSUME Types, ClaimInv, StopsSession
    PROVE  Types'
<1> USE DEF Types
<1>1. ProcType'
  BY DEF StopsSession, ProcType
<1>2. ClientType'
  BY DEF StopsSession, ClientType
<1>3. ConnType'
  BY DEF StopsSession, ConnType, Conns
<1>4. TurnType'
  BY DEF StopsSession, Goes, TurnType, TurnRecs, Pcs
<1>5. FlagType'
  BY DEF StopsSession, FlagType
<1>6. CountType'
  BY DEF StopsSession, Upset, Counted, CountType
<1>7. PastType'
  BY DEF StopsSession, PastType
<1> QED BY <1>1, <1>2, <1>3, <1>4, <1>5, <1>6, <1>7

LEMMA StopsSessionKeeps ==
    ASSUME IInv, StopsSession
    PROVE  Keeps'
<1> USE DEF IInv, Keeps, Types
<1>1. OpenInv'
  BY DEF StopsSession, Goes, OpenInv, InTurn, Turning
<1>2. LockInv'
  BY DEF StopsSession, Goes, LockInv
<1>3. ClaimInv'
  BY DEF StopsSession, Goes, ClaimInv
<1>4. StateInv'
  BY DEF StopsSession, Goes, StateInv
<1>5. DueInv'
  BY DEF StopsSession, DueInv
<1> QED BY <1>1, <1>2, <1>3, <1>4, <1>5

LEMMA StoppedTypes ==
    ASSUME Types, ClaimInv, Stopped
    PROVE  Types'
<1> USE DEF Types
<1>1. ProcType'
  BY ProcessesAre DEF Stopped, ProcType
<1>2. ClientType'
  <2>0. client \in Clients /\ client.inbox \in Inboxes
    BY DEF ClientType, Clients
  <2>1. Delivered(client.inbox, "failure") \in Inboxes
    BY <2>0, InboxesAre DEF Items
  <2>2. [client EXCEPT !.reader = FALSE, !.task = FALSE, !.inbox = Delivered(@, "failure")] \in Clients
    BY <2>0, <2>1, ClientsAre
  <2> QED BY <2>2 DEF Stopped, ClientType
<1>3. ConnType'
  BY DEF Stopped, ConnType, Conns
<1>4. TurnType'
  BY DEF Stopped, TurnType
<1>5. FlagType'
  BY DEF Stopped, FlagType
<1>6. CountType'
  BY DEF Stopped, CountType
<1>7. PastType'
  BY DEF Stopped, PastType
<1> QED BY <1>1, <1>2, <1>3, <1>4, <1>5, <1>6, <1>7

LEMMA StoppedKeeps ==
    ASSUME IInv, Stopped
    PROVE  Keeps'
<1> USE DEF IInv, Keeps, Types
<1>1. OpenInv'
  BY DEF Stopped, Delivered, OpenInv, InTurn
<1>2. LockInv'
  BY DEF Stopped, LockInv, InTurn
<1>3. ClaimInv'
  BY DEF Stopped, ClaimInv
<1>4. StateInv'
  BY DEF Stopped, NoProcess, StateInv
<1>5. DueInv'
  BY DEF Stopped, DueInv
<1> QED BY <1>1, <1>2, <1>3, <1>4, <1>5

LEMMA ReconcilesTypes ==
    ASSUME Types, ClaimInv, Reconciles
    PROVE  Types'
<1> USE DEF Types
<1>1. ProcType'
  BY DEF Reconciles, ProcType
<1>2. ClientType'
  BY DEF Reconciles, ClientType
<1>3. ConnType'
  BY DEF Reconciles, ConnType, Conns
<1>4. TurnType'
  BY DEF Reconciles, Goes, TurnType, TurnRecs, Pcs
<1>5. FlagType'
  BY DEF Reconciles, FlagType
<1>6. CountType'
  BY DEF Reconciles, Upset, Counted, CountType
<1>7. PastType'
  BY DEF Reconciles, PastType
<1> QED BY <1>1, <1>2, <1>3, <1>4, <1>5, <1>6, <1>7

LEMMA ReconcilesKeeps ==
    ASSUME IInv, Reconciles
    PROVE  Keeps'
<1> USE DEF IInv, Keeps, Types
<1>1. OpenInv'
  <2>1. /\ turn.pc = "off" /\ client' = client /\ turn'.pc \in {"restarts", "opens_session"}
        /\ conn'.active = conn.active /\ conn'.pending = conn.pending
    BY DEF Reconciles, Goes, TurnType, TurnRecs, ConnType, Conns
  <2> QED BY <2>1 DEF OpenInv, InTurn, Turning
<1>2. LockInv'
  BY DEF Reconciles, Upset, Counted, Goes, LockInv, InTurn, Turning, ConnType, Conns, TurnType, TurnRecs,
  FlagType, OpenInv, Pcs, None
<1>3. ClaimInv'
  BY DEF Reconciles, Goes, ClaimInv, TurnType, TurnRecs
<1>4. StateInv'
  BY DEF Reconciles, Upset, Counted, Goes, StateInv, ProcType, Processes, ClientType, Clients, ConnType,
  Conns, TurnType, TurnRecs, Pcs, Turning, Envelopes, None
<1>5. DueInv'
  BY DEF Reconciles, DueInv, ConnType, Conns
<1> QED BY <1>1, <1>2, <1>3, <1>4, <1>5

LEMMA StopsFirstTypes ==
    ASSUME Types, ClaimInv, StopsFirst
    PROVE  Types'
<1> USE DEF Types
<1>1. ProcType'
  BY DEF StopsFirst, ProcType
<1>2. ClientType'
  BY DEF StopsFirst, ClientType
<1>3. ConnType'
  BY DEF StopsFirst, ConnType
<1>4. TurnType'
  BY DEF StopsFirst, Goes, TurnType, TurnRecs, Pcs
<1>5. FlagType'
  BY DEF StopsFirst, FlagType
<1>6. CountType'
  BY DEF StopsFirst, CountType
<1>7. PastType'
  BY DEF StopsFirst, PastType
<1> QED BY <1>1, <1>2, <1>3, <1>4, <1>5, <1>6, <1>7

LEMMA StopsFirstKeeps ==
    ASSUME IInv, StopsFirst
    PROVE  Keeps'
<1> USE DEF IInv, Keeps, Types
<1>1. OpenInv'
  BY DEF StopsFirst, Goes, OpenInv, InTurn, Turning
<1>2. LockInv'
  BY DEF StopsFirst, Goes, LockInv, Turning
<1>3. ClaimInv'
  BY DEF StopsFirst, Goes, ClaimInv
<1>4. StateInv'
  BY DEF StopsFirst, StateInv
<1>5. DueInv'
  BY DEF StopsFirst, DueInv
<1> QED BY <1>1, <1>2, <1>3, <1>4, <1>5

LEMMA OpensSessionTypes ==
    ASSUME Types, ClaimInv, OpensSession
    PROVE  Types'
<1> USE DEF Types
<1>1. ProcType'
  BY DEF OpensSession, NewProcess, ProcType, Processes
<1>2. ClientType'
  BY DEF OpensSession, NewClient, NoInbox, ClientType, Clients, Inboxes
<1>3. ConnType'
  BY DEF OpensSession, NewConn, ConnType, Conns
<1>4. TurnType'
  BY DEF OpensSession, Goes, TurnType, TurnRecs, Pcs
<1>5. FlagType'
  BY DEF OpensSession, FlagType
<1>6. CountType'
  BY DEF OpensSession, CountType
<1>7. PastType'
  BY DEF OpensSession, NotYet, PastType, Pasts
<1> QED BY <1>1, <1>2, <1>3, <1>4, <1>5, <1>6, <1>7

LEMMA OpensSessionKeeps ==
    ASSUME IInv, OpensSession
    PROVE  Keeps'
<1> USE DEF IInv, Keeps, Types
<1>1. OpenInv'
  BY DEF OpensSession, NewClient, NewConn, NoInbox, Goes, OpenInv, Turning
<1>2. LockInv'
  BY DEF OpensSession, NewConn, Goes, LockInv, Turning, ConnType, Conns
<1>3. ClaimInv'
  BY DEF OpensSession, Goes, ClaimInv
<1>4. StateInv'
  BY DEF OpensSession, NewProcess, NewClient, NewConn, Goes, StateInv
<1>5. DueInv'
  <2>1. /\ process' = NewProcess /\ client' = NewClient /\ conn' = NewConn
        /\ turn'.pc = "off" /\ turn'.result = None
    BY DEF OpensSession, Goes
  <2>2. process'.stdin = 0 /\ process'.cycle = None /\ process'.out = <<>> /\ client'.inbox.items = <<>>
        /\ conn'.pending = 0
    BY <2>1 DEF NewProcess, NewClient, NoInbox, NewConn
  <2>3. Tally(process'.out) = 0 /\ Tally(client'.inbox.items) = 0 /\ Cycling' = 0 /\ Claimed' = 0
    BY <2>1, <2>2, NoTally DEF Cycling, Claimed, Yes, HumanResult, None
  <2>4. Due' = 0 /\ Sending' \in {0, 1}
    BY <2>2, <2>3 DEF Due, Sending, Yes
  <2>5. Due' <= conn'.pending + Sending'
    <3>1. conn'.pending = 0
      BY <2>2
    <3>2. \A d, s : d = 0 /\ s \in {0, 1} => d <= 0 + s
      OBVIOUS
    <3> QED BY <2>4, <3>1, <3>2
  <2> QED BY <2>5 DEF DueInv
<1> QED BY <1>1, <1>2, <1>3, <1>4, <1>5

LEMMA OldStopsTypes ==
    ASSUME Types, ClaimInv, OldStops
    PROVE  Types'
<1> USE DEF Types
<1>1. ProcType'
  BY DEF OldStops, ProcType
<1>2. ClientType'
  BY DEF OldStops, ClientType
<1>3. ConnType'
  BY DEF OldStops, ConnType
<1>4. TurnType'
  BY DEF OldStops, TurnType
<1>5. FlagType'
  BY DEF OldStops, FlagType
<1>6. CountType'
  BY DEF OldStops, CountType, None
<1>7. PastType'
  BY DEF OldStops, PastType
<1> QED BY <1>1, <1>2, <1>3, <1>4, <1>5, <1>6, <1>7

LEMMA OldStopsKeeps ==
    ASSUME IInv, OldStops
    PROVE  Keeps'
<1> USE DEF IInv, Keeps, Types
<1>1. OpenInv'
  BY DEF OldStops, OpenInv, InTurn
<1>2. LockInv'
  BY DEF OldStops, LockInv, InTurn
<1>3. ClaimInv'
  BY DEF OldStops, ClaimInv
<1>4. StateInv'
  BY DEF OldStops, StateInv
<1>5. DueInv'
  BY DEF OldStops, DueInv, Due, Cycling, Claimed, Sending
<1> QED BY <1>1, <1>2, <1>3, <1>4, <1>5

LEMMA InitTypes == ASSUME Init PROVE Types
<1>1. <<>> \in Seq(Envelopes) /\ <<>> \in Seq(Items)
  OBVIOUS
<1>2. ProcType
  BY <1>1 DEF Init, ProcType, Processes, NewProcess
<1>3. ClientType
  BY <1>1 DEF Init, ClientType, Clients, Inboxes, NewClient, NoInbox
<1>4. ConnType
  BY DEF Init, ConnType, Conns, NewConn
<1>5. TurnType
  BY DEF Init, TurnType, TurnRecs, Pcs
<1>6. CountType
  BY DEF Init, CountType
<1>7. FlagType /\ PastType
  BY DEF Init, FlagType, PastType, Pasts, NotYet
<1> QED BY <1>2, <1>3, <1>4, <1>5, <1>6, <1>7 DEF Types

LEMMA InitKeeps == ASSUME Init PROVE Keeps
<1>1. /\ process.up /\ process.stdin = 0 /\ process.cycle = None /\ process.out = <<>> /\ DOMAIN process.out = {}
      /\ client.reader /\ ~ client.inbox.open /\ client.inbox.items = <<>> /\ client.cycle = "idle"
      /\ conn.state = "open" /\ conn.lock = None /\ ~ conn.active /\ conn.pending = 0
      /\ turn.pc = "off" /\ turn.result = None /\ steer = "off"
  BY DEF Init, NewProcess, NewClient, NewConn, NoInbox
<1>2. OpenInv /\ LockInv /\ ClaimInv /\ StateInv
  BY <1>1 DEF OpenInv, LockInv, ClaimInv, StateInv, Turning, None
<1>3. Cycling = 0 /\ Claimed = 0 /\ Sending = 0 /\ Tally(process.out) = 0 /\ Tally(client.inbox.items) = 0
  BY <1>1, NoTally DEF Cycling, Claimed, Sending, Yes, HumanResult, None
<1>4. DueInv
  BY <1>1, <1>3 DEF DueInv, Due
<1> QED BY <1>2, <1>4 DEF Keeps

LEMMA StutterKeeps == ASSUME IInv, UNCHANGED vars PROVE IInv'
<1>1. Types'
  BY DEF IInv, Types, vars, ProcType, ClientType, ConnType, TurnType, FlagType, CountType, PastType
<1>2. OpenInv' /\ LockInv' /\ ClaimInv' /\ StateInv'
  BY DEF IInv, Keeps, vars, OpenInv, LockInv, ClaimInv, StateInv, InTurn
<1>3. DueInv'
  BY DEF IInv, Keeps, vars, DueInv, Due, Cycling, Claimed, Sending
<1> QED BY <1>1, <1>2, <1>3 DEF IInv, Keeps

LEMMA NextKeeps == ASSUME IInv, Next PROVE IInv'
<1> USE DEF IInv
<1>0. Types /\ ClaimInv
  BY DEF Keeps
<1>1. CASE CycleStarts
  BY <1>0, <1>1, CycleStartsTypes, CycleStartsKeeps
<1>2. CASE WakeStarts
  BY <1>0, <1>2, WakeStartsTypes, WakeStartsKeeps
<1>3. CASE Absorbs
  BY <1>0, <1>3, AbsorbsTypes, AbsorbsKeeps
<1>4. CASE CycleEnds
  BY <1>0, <1>4, CycleEndsTypes, CycleEndsKeeps
<1>5. CASE AsksPermission
  BY <1>0, <1>5, AsksPermissionTypes, AsksPermissionKeeps
<1>6. CASE Withdraws
  BY <1>0, <1>6, WithdrawsTypes, WithdrawsKeeps
<1>7. CASE Resets
  BY <1>0, <1>7, ResetsTypes, ResetsKeeps
<1>8. CASE Dies
  BY <1>0, <1>8, DiesTypes, DiesKeeps
<1>9. CASE Reads
  BY <1>0, <1>9, ReadsTypes, ReadsKeeps
<1>10. CASE ReadsControl
  BY <1>0, <1>10, ReadsControlTypes, ReadsControlKeeps
<1>11. CASE Answers
  BY <1>0, <1>11, AnswersTypes, AnswersKeeps
<1>12. CASE ReaderEnds
  BY <1>0, <1>12, ReaderEndsTypes, ReaderEndsKeeps
<1>13. CASE TurnStarts
  BY <1>0, <1>13, TurnStartsTypes, TurnStartsKeeps
<1>14. CASE TurnOpens
  BY <1>0, <1>14, TurnOpensTypes, TurnOpensKeeps
<1>15. CASE OpenFails
  BY <1>0, <1>15, OpenFailsTypes, OpenFailsKeeps
<1>16. CASE OpenCancelled
  BY <1>0, <1>16, OpenCancelledTypes, OpenCancelledKeeps
<1>17. CASE StreamReads
  BY <1>0, <1>17, StreamReadsTypes, StreamReadsKeeps
<1>18. CASE Claims
  BY <1>0, <1>18, ClaimsTypes, ClaimsKeeps
<1>19. CASE GraceEnds
  BY <1>0, <1>19, GraceEndsTypes, GraceEndsKeeps
<1>20. CASE StreamCloses
  BY <1>0, <1>20, StreamClosesTypes, StreamClosesKeeps
<1>21. CASE Fails
  BY <1>0, <1>21, FailsTypes, FailsKeeps
<1>22. CASE Retires
  BY <1>0, <1>22, RetiresTypes, RetiresKeeps
<1>23. CASE Closes
  BY <1>0, <1>23, ClosesTypes, ClosesKeeps
<1>24. CASE Clears
  BY <1>0, <1>24, ClearsTypes, ClearsKeeps
<1>25. CASE SteerStarts
  BY <1>0, <1>25, SteerStartsTypes, SteerStartsKeeps
<1>26. CASE SteerSends
  BY <1>0, <1>26, SteerSendsTypes, SteerSendsKeeps
<1>27. CASE SteerCounts
  BY <1>0, <1>27, SteerCountsTypes, SteerCountsKeeps
<1>28. CASE SteerTimesOut
  BY <1>0, <1>28, SteerTimesOutTypes, SteerTimesOutKeeps
<1>29. CASE RetiresDoomed
  BY <1>0, <1>29, RetiresDoomedTypes, RetiresDoomedKeeps
<1>30. CASE StopsSession
  BY <1>0, <1>30, StopsSessionTypes, StopsSessionKeeps
<1>31. CASE Stopped
  BY <1>0, <1>31, StoppedTypes, StoppedKeeps
<1>32. CASE Reconciles
  BY <1>0, <1>32, ReconcilesTypes, ReconcilesKeeps
<1>33. CASE StopsFirst
  BY <1>0, <1>33, StopsFirstTypes, StopsFirstKeeps
<1>34. CASE OpensSession
  BY <1>0, <1>34, OpensSessionTypes, OpensSessionKeeps
<1>35. CASE OldStops
  BY <1>0, <1>35, OldStopsTypes, OldStopsKeeps
<1> QED
  BY <1>1, <1>2, <1>3, <1>4, <1>5, <1>6, <1>7, <1>8, <1>9, <1>10, <1>11, <1>12, <1>13, <1>14, <1>15, <1>16,
    <1>17, <1>18, <1>19, <1>20, <1>21, <1>22, <1>23, <1>24, <1>25, <1>26, <1>27, <1>28, <1>29, <1>30, <1>31,
    <1>32, <1>33, <1>34, <1>35
    DEF Next, Works, Listens, Streams, Steers, Opens

(* What the invariant is for *)
LEMMA NothingLeft == ASSUME IInv PROVE NothingLeftBehind
<1> USE DEF IInv, Keeps
<1>1. TypeOK
  BY DEF TypeOK, Types, ProcType, Processes, ClientType, Clients, Inboxes, ConnType, Conns, TurnType,
  TurnRecs,
         FlagType, CountType, PastType, Pasts
<1>2. client.inbox.open <=> client.cycle \in {"foreground", "adopted"}
  BY DEF OpenInv
<1>3. turn.pc = "off" => ~ conn.active /\ conn.pending = 0 /\ ~ client.inbox.open
  BY DEF OpenInv, InTurn, Turning
<1>4. ASSUME turn.pc = "off", conn.state = "open", process.up, ~ past.astray
      PROVE  ~ PersonsWork
  <2>1. conn.pending = 0 /\ steer # "sends"
    BY <1>3, <1>4 DEF LockInv, InTurn, Turning
  <2>2. Due <= 0
    <3>1. Due <= conn.pending + Sending
      BY <1>4 DEF DueInv
    <3>2. Sending = 0
      BY <2>1 DEF Sending, Yes
    <3> QED BY <2>1, <3>1, <3>2
  <2>3. /\ process.stdin \in Nat /\ Tally(process.out) \in Nat /\ Tally(client.inbox.items) \in Nat
        /\ Cycling \in Nat /\ Claimed \in Nat
    BY DueParts
  <2>4. process.stdin = 0 /\ Tally(process.out) = 0 /\ Cycling = 0
    BY <2>2, <2>3 DEF Due
  <2>5. process.cycle # HumanResult
    BY <2>4 DEF Cycling, Yes
  <2>6. process.out \in Seq(Envelopes)
    BY DEF Types, ProcType, Processes
  <2>7. ~ Holds(HumanResult)
    BY <2>4, <2>6, TallyIs DEF Holds
  <2> QED BY <2>4, <2>5, <2>7 DEF PersonsWork
<1> QED BY <1>1, <1>2, <1>3, <1>4 DEF NothingLeftBehind

LEMMA StepIsSafe ==
    ASSUME IInv, [Next]_vars
    PROVE  /\ old' /\ ~ old => conn.doomed
           /\ turn'.pc = "opens" /\ turn.pc # "opens" => client.reader
<1> USE DEF IInv, Keeps
<1>1. ASSUME old', ~ old
      PROVE  conn.doomed
  <2>1. OpensSession
    BY <1>1 DEF Next, Works, Listens, Streams, Steers, Opens, vars,
           CycleStarts, WakeStarts, Absorbs, CycleEnds, AsksPermission, Withdraws, Resets, Dies, Reads,
           ReadsControl, Answers, ReaderEnds, TurnStarts, TurnOpens, OpenFails, OpenCancelled, StreamReads,
           Claims, GraceEnds, StreamCloses, Fails, Retires, Closes, Clears, SteerStarts, SteerSends,
           SteerCounts, SteerTimesOut, RetiresDoomed, StopsSession, Stopped, Reconciles, StopsFirst,
           OpensSession, OldStops
  <2>2. conn.state = "stopping" /\ turn.pc = "opens_session"
    BY <1>1, <2>1 DEF OpensSession, StateInv, Types, ConnType, Conns
  <2> QED BY <2>2 DEF StateInv
<1>2. ASSUME turn'.pc = "opens", turn.pc # "opens"
      PROVE  client.reader
  <2>1. turn \in TurnRecs
    BY DEF Types, TurnType
  <2>2. \A p : Goes(p) => turn'.pc = p
    BY <2>1 DEF Goes, TurnRecs
  <2>3. ASSUME NEW r, turn' = [turn EXCEPT !.pc = "claims", !.result = r]
        PROVE  turn'.pc = "claims"
    BY <2>1, <2>3 DEF TurnRecs
  <2>4. TurnStarts
    BY <1>2, <2>2, <2>3 DEF Next, Works, Listens, Streams, Steers, Opens, vars,
           CycleStarts, WakeStarts, Absorbs, CycleEnds, AsksPermission, Withdraws, Resets, Dies, Reads,
           ReadsControl, Answers, ReaderEnds, TurnStarts, TurnOpens, OpenFails, OpenCancelled, StreamReads,
           Claims, GraceEnds, StreamCloses, Fails, Retires, Closes, Clears, SteerStarts, SteerSends,
           SteerCounts, SteerTimesOut, RetiresDoomed, StopsSession, Stopped, Reconciles, StopsFirst,
           OpensSession, OldStops
  <2> QED BY <2>4 DEF TurnStarts, StateInv
<1> QED BY <1>1, <1>2

-----------------------------------------------------------------------------
(* Codex, whose names stand behind Codex! or an X *)
LEMMA XBounds == MaxTurns \in Nat
BY BoundsAssumption

XUp == app.state = "up"
XInTurn == xturn.pc \in {"streams", "approves"}
XAsking == xturn.pc \in {"rereads", "resumes"}
XEnded == {"completed", "failed", "interrupted"}

(* The types *)
XReqs == [kind : {"start", "steer", "read", "resume"}, turn : 0 .. MaxTurns]
XMsgs == [what : {"ask", "completed", "failed", "interrupted", "stray", "closed"}, turn : 0 .. MaxTurns]
XApps == [state : {"up", "dying", "dead", "gone"}, turn : 0 .. MaxTurns, asks : BOOLEAN,
         stdin : Seq(XReqs), fatal : BOOLEAN]
XTurnRec == [pc : {"off", "starts", "streams", "approves", "rereads", "resumes", "drops", "opens"},
                 id : 0 .. MaxTurns, known : BOOLEAN,
                 first : {Codex!None, "refused", "unknown"}, lost : BOOLEAN, attempt : 0 .. 1,
                 then : {Codex!None, "reopen", "start"},
                 end : Codex!Statuses \cup {"refused", "unknown", "cut"}]
XAppType == app \in XApps
XQueueType == queue \in Seq(XMsgs)
XCallType == call \in Codex!Calls
XConnType == xconn \in [registered : BOOLEAN, active : 0 .. MaxTurns]
XTurnType == xturn \in XTurnRec
XFlagType == agent \in {"new", "idle", "lost"} /\ halt \in {"no", "cancelled", "stopped"}
XCountType == xcount \in [{"turns", "steers", "own", "upsets"} -> Nat]
XPastType == xpast \in [ended : [Codex!Turns -> Codex!Statuses], astray : SUBSET (0 .. MaxTurns)]
XSteerType == xsteer \in Codex!Calls
XTypes ==
    /\ XAppType /\ XQueueType /\ XCallType /\ XConnType /\ XTurnType
    /\ XSteerType /\ XFlagType /\ XCountType /\ XPastType

(* The turns a process runs or is asked to run are among S *)
XStartsIn(S) == \A i \in DOMAIN app.stdin : app.stdin[i].kind = "start" => app.stdin[i].turn \in S
XRunsIn(S) == app.turn \in S /\ XStartsIn(S)
XRunless(t) == app.turn # t /\ \A i \in DOMAIN app.stdin : app.stdin[i].kind = "start" => app.stdin[i].turn # t
(* What is registered, and as whose *)
XConnInv ==
    /\ ~ XInTurn => xconn.active = 0
    /\ XInTurn => xconn.active = xturn.id
    /\ xturn.pc = "starts" \/ XInTurn => xconn.registered
    /\ XAsking \/ xturn.pc \in {"drops", "opens"} => ~ xconn.registered
    /\ agent = "new" /\ halt = "no" => ~ xconn.registered
    /\ xturn.pc \in {"off", "opens"} /\ XUp => xconn.registered
    /\ xturn.pc = "approves" => xturn.first = Codex!None
(* What is asked of the server was not run before, nor twice *)
XStartsFresh ==
    \A i \in DOMAIN app.stdin : app.stdin[i].kind = "start" =>
        /\ app.stdin[i].turn \in 1 .. xcount["turns"]
        /\ app.stdin[i].turn # app.turn
        /\ xpast.ended[app.stdin[i].turn] = Codex!None
XStartsDiffer ==
    \A i, j \in DOMAIN app.stdin :
          app.stdin[i].kind = "start" /\ app.stdin[j].kind = "start" /\ i # j
             => app.stdin[i].turn # app.stdin[j].turn
(* A read is the last that was asked for, and somebody waits for it *)
XReadsLast ==
    /\ XUp => \A i \in DOMAIN app.stdin : app.stdin[i].kind = "read" => 
               /\ i = Len(app.stdin)
               /\ xturn.pc = "drops" \/ (xturn.pc = "rereads" /\ call.answer = Codex!None)
    /\ XUp /\ xturn.pc = "rereads" /\ call.answer = Codex!None =>
            app.stdin # <<>> /\ app.stdin[Len(app.stdin)].kind = "read"
    /\ \A i \in DOMAIN app.stdin : app.stdin[i].kind \in {"read", "resume"} => app.stdin[i].turn = 0
(* Ids of turns, and how those ended *)
XNumbers ==
    /\ app.turn \in 0 .. xcount["turns"]
    /\ app.turn # 0 => xpast.ended[app.turn] = Codex!None
    /\ xturn.id \in 0 .. xcount["turns"]
    /\ \A t \in Codex!Turns : xpast.ended[t] # Codex!None => t <= xcount["turns"]
    /\ xturn.pc = "starts" \/ XInTurn => xturn.id # 0
    /\ xturn.end \in {"completed", "failed"} => xturn.id # 0 /\ xpast.ended[xturn.id] = xturn.end
XOutcomeInv ==
    \A i \in DOMAIN queue : queue[i].what \in XEnded =>
          queue[i].turn \in Codex!Turns /\ xpast.ended[queue[i].turn] = queue[i].what
(* A start, or a read, that was answered *)
XStartInv ==
    /\ xturn.pc = "starts" => /\ call.kind = "start"
                              /\ call.answer = Codex!None => call.turn = xturn.id
                              /\ call.answer = "refused" => XRunless(xturn.id)
                              /\ xturn.end = Codex!None
    /\ xturn.pc = "streams" /\ xturn.first = "refused" => XRunless(xturn.id) \/ xturn.id \in xpast.astray
XReadInv ==
    /\ xturn.pc = "rereads" => call.kind = "read" /\ (call.answer = Codex!None => call.turn = 0)
    /\ call.kind = "read" => xturn.pc = "rereads"
    /\ xturn.pc = "resumes" => call.kind = "resume"
    /\ xturn.pc = "rereads" /\ call.answer = "ok" /\ XUp => XStartsIn({}) /\ app.turn \in {0, call.turn}
    /\ xturn.pc = "resumes" /\ XUp => XStartsIn({}) /\ app.turn = 0
(* What runs is the stream's turn or went astray *)
XRunsInv ==
    /\ XUp => XRunsIn({0, xturn.id} \cup xpast.astray)
    /\ halt = "no" /\ xturn.pc = "off" /\ agent = "idle" /\ XUp => XRunsIn({0} \cup xpast.astray)
XKeeps ==
    /\ XConnInv /\ XStartsFresh /\ XStartsDiffer /\ XReadsLast /\ XNumbers
    /\ XOutcomeInv /\ XStartInv /\ XReadInv /\ XRunsInv

XIInv == XTypes /\ XKeeps

(* The operators keep the types *)
LEMMA XAppsAre ==
    /\ Codex!NewApp \in XApps /\ Codex!NoApp \in XApps
    /\ \A k \in {"read", "resume", "start", "steer"}, t \in 0 .. MaxTurns : Codex!Request(k, t) \in XReqs
    /\ XAppType => Codex!Dead \in XApps
    /\ [Codex!NewApp EXCEPT !.stdin = <<Codex!Request("read", 0)>>] \in XApps
    /\ Codex!NoCall \in Codex!Calls
<1>1. <<>> \in Seq(XReqs)
  OBVIOUS
<1>2. \A k \in {"read", "resume", "start", "steer"}, t \in 0 .. MaxTurns : Codex!Request(k, t) \in XReqs
  BY DEF Codex!Request, XReqs
<1>3. Codex!Request("read", 0) \in XReqs /\ 0 \in 0 .. MaxTurns
  BY <1>2, XBounds
<1>4. <<Codex!Request("read", 0)>> \in Seq(XReqs)
  BY <1>3
<1>5. Codex!NewApp \in XApps /\ Codex!NoApp \in XApps
  BY <1>1, <1>3 DEF Codex!NewApp, Codex!NoApp, XApps
<1>6. XAppType => Codex!Dead \in XApps
  BY <1>1, <1>3 DEF Codex!Dead, Codex!NoApp, Codex!NewApp, XApps, XAppType
<1>7. [Codex!NewApp EXCEPT !.stdin = <<Codex!Request("read", 0)>>] \in XApps
  BY <1>4, <1>5 DEF XApps, Codex!NewApp
<1>8. Codex!NoCall \in Codex!Calls
  BY <1>3 DEF Codex!NoCall, Codex!Calls, Codex!Answers
<1> QED BY <1>2, <1>5, <1>6, <1>7, <1>8

LEMMA XSendsIs ==
    ASSUME NEW a \in XApps, NEW r \in XReqs
    PROVE  [a EXCEPT !.stdin = Append(@, r)] \in XApps
<1>1. Append(a.stdin, r) \in Seq(XReqs)
  BY AppendIs DEF XApps
<1> QED BY <1>1 DEF XApps

LEMMA XTakesIs ==
    ASSUME NEW a \in XApps, a.stdin # <<>>
    PROVE  /\ [a EXCEPT !.stdin = Tail(@)] \in XApps
           /\ \A t \in 0 .. MaxTurns : [[a EXCEPT !.stdin = Tail(@)] EXCEPT !.turn = t] \in XApps
           /\ Head(a.stdin) \in XReqs
<1>1. Tail(a.stdin) \in Seq(XReqs) /\ Head(a.stdin) \in XReqs
  BY TailIs DEF XApps
<1> QED BY <1>1 DEF XApps

LEMMA XTurnIs ==
    ASSUME NEW t \in XTurnRec,
           NEW p \in {"off", "starts", "streams", "approves", "rereads", "resumes", "drops", "opens"},
           NEW n \in {Codex!None, "reopen", "start"}, NEW a \in 0 .. 1
    PROVE  /\ [t EXCEPT !.pc = p] \in XTurnRec
           /\ [t EXCEPT !.pc = p, !.attempt = a] \in XTurnRec
           /\ [t EXCEPT !.pc = p, !.then = n] \in XTurnRec
           /\ [t EXCEPT !.pc = p, !.attempt = a, !.then = n] \in XTurnRec
<1>1. [t EXCEPT !.pc = p] \in XTurnRec
  BY DEF XTurnRec
<1>2. [t EXCEPT !.pc = p, !.attempt = a] \in XTurnRec
  BY DEF XTurnRec
<1>3. [t EXCEPT !.pc = p, !.then = n] \in XTurnRec
  BY DEF XTurnRec
<1>4. [t EXCEPT !.pc = p, !.attempt = a, !.then = n] \in XTurnRec
  BY DEF XTurnRec
<1> QED BY <1>1, <1>2, <1>3, <1>4

LEMMA XSentIs ==
    ASSUME XAppType, NEW k \in {"start", "steer", "read", "resume"}, NEW t \in 0 .. MaxTurns,
           app' = [app EXCEPT !.stdin = Append(@, Codex!Request(k, t))]
    PROVE  /\ app'.state = app.state /\ app'.turn = app.turn
           /\ app'.stdin = Append(app.stdin, Codex!Request(k, t))
           /\ DOMAIN app.stdin = 1 .. Len(app.stdin) /\ Len(app.stdin) \in Nat
           /\ Len(app'.stdin) = Len(app.stdin) + 1
           /\ DOMAIN app'.stdin = 1 .. Len(app.stdin) + 1
           /\ \A i \in DOMAIN app'.stdin :
                 \/ i \in DOMAIN app.stdin /\ app'.stdin[i] = app.stdin[i]
                 \/ i = Len(app.stdin) + 1 /\ app'.stdin[i].kind = k /\ app'.stdin[i].turn = t
           /\ \A i \in DOMAIN app.stdin : i \in DOMAIN app'.stdin /\ app'.stdin[i] = app.stdin[i]
           /\ app'.stdin[Len(app.stdin) + 1].kind = k
<1>1. app.stdin \in Seq(XReqs) /\ Codex!Request(k, t) \in XReqs
  BY XAppsAre DEF XAppType, XApps
<1>2. app'.state = app.state /\ app'.turn = app.turn
      /\ app'.stdin = Append(app.stdin, Codex!Request(k, t))
  BY DEF XAppType, XApps
<1>3. /\ Len(Append(app.stdin, Codex!Request(k, t))) = Len(app.stdin) + 1
      /\ DOMAIN app.stdin = 1 .. Len(app.stdin)
      /\ DOMAIN Append(app.stdin, Codex!Request(k, t)) = 1 .. Len(app.stdin) + 1 /\ Len(app.stdin) \in Nat
      /\ \A i \in DOMAIN app.stdin : Append(app.stdin, Codex!Request(k, t))[i] = app.stdin[i]
      /\ Append(app.stdin, Codex!Request(k, t))[Len(app.stdin) + 1] = Codex!Request(k, t)
  BY <1>1, AppendIs
<1>4. Codex!Request(k, t).kind = k /\ Codex!Request(k, t).turn = t
  BY DEF Codex!Request
<1>5. \A n \in Nat : \A i \in 1 .. n + 1 : i \in 1 .. n \/ i = n + 1
  OBVIOUS
<1>6. \A n \in Nat : \A i \in 1 .. n : i \in 1 .. n + 1
  OBVIOUS
<1> HIDE DEF Codex!Request
<1>7. \A i \in DOMAIN app'.stdin : i \in DOMAIN app.stdin \/ i = Len(app.stdin) + 1
  BY <1>2, <1>3, <1>5
<1>8. \A i \in DOMAIN app.stdin : i \in DOMAIN app'.stdin
  BY <1>2, <1>3, <1>6
<1> QED BY <1>2, <1>3, <1>4, <1>7, <1>8

LEMMA XSentKeeps ==
    ASSUME XAppType, NEW k \in {"steer", "read", "resume"}, NEW t \in 0 .. MaxTurns,
           app' = [app EXCEPT !.stdin = Append(@, Codex!Request(k, t))],
           xcount'["turns"] = xcount["turns"], xpast'.ended = xpast.ended
    PROVE  /\ XStartsFresh => XStartsFresh'
           /\ XStartsDiffer => XStartsDiffer'
           /\ \A S : (XStartsIn(S) => XStartsIn(S)') /\ (XRunsIn(S) => XRunsIn(S)')
           /\ \A n : XRunless(n) => XRunless(n)'
<1>1. /\ app'.turn = app.turn
      /\ \A i \in DOMAIN app'.stdin : app'.stdin[i].kind = "start" =>
             i \in DOMAIN app.stdin /\ app'.stdin[i] = app.stdin[i]
  BY XSentIs
<1>2. XStartsFresh => XStartsFresh'
  BY <1>1 DEF XStartsFresh
<1>3. XStartsDiffer => XStartsDiffer'
  BY <1>1 DEF XStartsDiffer
<1>4. \A S : (XStartsIn(S) => XStartsIn(S)') /\ (XRunsIn(S) => XRunsIn(S)')
  BY <1>1 DEF XStartsIn, XRunsIn
<1>5. \A n : XRunless(n) => XRunless(n)'
  BY <1>1 DEF XRunless
<1> QED BY <1>2, <1>3, <1>4, <1>5

LEMMA XSameKeeps ==
    ASSUME app'.stdin = app.stdin, app'.turn = app.turn,
           xcount'["turns"] = xcount["turns"], xpast'.ended = xpast.ended
    PROVE  /\ XStartsFresh => XStartsFresh'
           /\ XStartsDiffer => XStartsDiffer'
           /\ \A S : (XStartsIn(S) => XStartsIn(S)') /\ (XRunsIn(S) => XRunsIn(S)')
           /\ \A n : XRunless(n) => XRunless(n)'
    BY DEF XStartsFresh, XStartsDiffer, XStartsIn, XRunsIn, XRunless

(* Steps that leave the queues as they are, or take from them *)
LEMMA XInputsAre ==
    XAppType => \A i \in DOMAIN app.stdin : app.stdin[i] \in XReqs /\ app.stdin[i].turn \in 0 .. MaxTurns
<1>1. XAppType => \A i \in DOMAIN app.stdin : app.stdin[i] \in XReqs
  BY DEF XAppType, XApps
<1> QED BY <1>1 DEF XReqs

LEMMA XOldNumbers ==
    ASSUME XNumbers, xpast'.ended = xpast.ended, xcount'["turns"] = xcount["turns"],
           app'.turn = app.turn, xturn'.id = xturn.id, xturn'.end = xturn.end,
           xturn'.pc = "starts" \/ XInTurn' => xturn'.id # 0
    PROVE  XNumbers'
    BY DEF XNumbers

LEMMA XHandlesTypes ==
    ASSUME XTypes, Codex!Handles
    PROVE  XTypes'
<1> USE XBounds DEF XTypes
<1> DEFINE r == Head(app.stdin)
           rest == [app EXCEPT !.stdin = Tail(@)]
<1>1. /\ r \in XReqs /\ rest \in XApps
      /\ \A t \in 0 .. MaxTurns : [rest EXCEPT !.turn = t] \in XApps
  <2>1. app \in XApps /\ app.stdin # <<>>
    BY DEF Codex!Handles, XAppType
  <2>2. Head(app.stdin) \in XReqs
    BY <2>1, XTakesIs
  <2>3. [app EXCEPT !.stdin = Tail(@)] \in XApps
    BY <2>1, XTakesIs
  <2>4. \A t \in 0 .. MaxTurns : [[app EXCEPT !.stdin = Tail(@)] EXCEPT !.turn = t] \in XApps
    BY <2>1, XTakesIs
  <2> QED BY <2>2, <2>3, <2>4
<1>2. r.turn \in 0 .. MaxTurns /\ app.turn \in 0 .. MaxTurns /\ 0 \in 0 .. MaxTurns
  <2>1. app.turn \in 0 .. MaxTurns
    BY DEF XApps, XAppType
  <2>2. MaxTurns \in Nat
    OBVIOUS
  <2>3. r.turn \in 0 .. MaxTurns
    <3>1. r \in XReqs
      BY <1>1
    <3> HIDE DEF r, rest
    <3> QED BY <3>1 DEF XReqs
  <2> QED BY <2>1, <2>2, <2>3
<1>3. /\ app' = rest \/ app' = [rest EXCEPT !.turn = r.turn]
      /\ \E a \in {"ok", "refused"}, t \in 0 .. MaxTurns : Codex!Answered(r, a, t)
      /\ UNCHANGED xcount \/ Codex!Upset
      /\ UNCHANGED <<xconn, xturn, agent, halt, xpast>>
  BY <1>2 DEF Codex!Handles
<1> HIDE DEF r, rest
<1>4. PICK a \in {"ok", "refused"}, t \in 0 .. MaxTurns : Codex!Answered(r, a, t)
  BY <1>3
<1>5. XAppType'
  BY <1>1, <1>2, <1>3 DEF XAppType
<1>6. XQueueType'
  <2>1. [what |-> "stray", turn |-> 0] \in XMsgs
    BY <1>2 DEF XMsgs
  <2> QED BY <1>4, <2>1 DEF Codex!Answered, Codex!Said, XQueueType
<1>7. XCallType' /\ XSteerType'
  <2>1. [call EXCEPT !.answer = a, !.turn = t] \in Codex!Calls
    BY DEF XCallType, Codex!Calls, Codex!Answers
  <2>2. [xsteer EXCEPT !.answer = a] \in Codex!Calls
    BY DEF XSteerType, Codex!Calls, Codex!Answers
  <2> QED BY <1>4, <2>1, <2>2 DEF Codex!Answered, XCallType, XSteerType
<1>8. XCountType'
  BY <1>3 DEF XCountType, Codex!Upset, Codex!Counted
<1> QED BY <1>3, <1>5, <1>6, <1>7, <1>8 DEF XConnType, XTurnType, XFlagType, XPastType

LEMMA XHandlesKeeps ==
    ASSUME XIInv, Codex!Handles
    PROVE  XKeeps'
<1> USE XBounds DEF XIInv, XKeeps
<1> DEFINE r == app.stdin[1]
<1>0. XTypes
  OBVIOUS
<1>1. /\ app.stdin \in Seq(XReqs) /\ app.stdin # <<>> /\ app.state = "up" /\ app \in XApps
      /\ Head(app.stdin) = r
  BY <1>0, TailIs DEF XTypes, XAppType, XApps, Codex!Handles
<1>2. /\ app'.state = "up" /\ app'.stdin = Tail(app.stdin) /\ xcount'["turns"] = xcount["turns"]
      /\ UNCHANGED <<xconn, xturn, agent, halt, xpast>>
      /\ app' \in XApps
  <2>1. app' = [app EXCEPT !.stdin = Tail(@)]
        \/ app' = [[app EXCEPT !.stdin = Tail(@)] EXCEPT !.turn = r.turn]
    BY <1>1 DEF Codex!Handles
  <2>2. XAppType'
    BY <1>0, XHandlesTypes DEF XTypes
  <2>3. UNCHANGED xcount \/ Codex!Upset
    BY DEF Codex!Handles
  <2>4. xcount'["turns"] = xcount["turns"]
    BY <2>3, <1>0 DEF Codex!Upset, Codex!Counted, XTypes, XCountType
  <2> QED BY <1>1, <2>1, <2>2, <2>4 DEF Codex!Handles, XApps, XAppType
<1>3. /\ Len(app'.stdin) = Len(app.stdin) - 1 /\ Len(app.stdin) \in Nat
      /\ DOMAIN app.stdin = 1 .. Len(app.stdin) /\ DOMAIN app'.stdin = 1 .. Len(app.stdin) - 1
      /\ \A i \in DOMAIN app'.stdin : i + 1 \in DOMAIN app.stdin /\ i + 1 # 1
                                      /\ app'.stdin[i] = app.stdin[i + 1]
      /\ 1 \in DOMAIN app.stdin
  BY <1>1, <1>2, TailIs
<1>4. \/ r.kind = "start" /\ app.turn = 0 /\ app'.turn = r.turn /\ Codex!Answered(r, "ok", r.turn)
      \/ r.kind = "start" /\ app'.turn = app.turn /\ Codex!Answered(r, "refused", 0)
      \/ r.kind = "steer" /\ app'.turn = app.turn
         /\ \E a \in {"ok", "refused"} : Codex!Answered(r, a, 0)
      \/ r.kind \in {"read", "resume"} /\ app'.turn = app.turn /\ Codex!Answered(r, "ok", app.turn)
  <2>0. r \in XReqs
    BY <1>1, TailIs
  <2>1. r.kind \in {"start", "steer", "read", "resume"}
    BY <2>0 DEF XReqs
  <2> QED BY <1>1, <2>1 DEF Codex!Handles, XApps
<1>5. /\ call' \in Codex!Calls /\ call'.kind = call.kind /\ xsteer' \in Codex!Calls
      /\ ~ Codex!Awaits(call, r) => call' = call
      /\ Codex!Awaits(call, r) => call'.answer # Codex!None
  <2>1. XCallType' /\ XSteerType'
    BY <1>0, XHandlesTypes DEF XTypes
  <2>2. \E a \in {"ok", "refused"}, t \in 0 .. MaxTurns :
           call' = IF Codex!Awaits(call, r) THEN [call EXCEPT !.answer = a, !.turn = t] ELSE call
    <3>1. 0 \in 0 .. MaxTurns /\ app.turn \in 0 .. MaxTurns
      BY <1>1 DEF XApps
    <3>2. r \in XReqs
      BY <1>1, TailIs
    <3>3. r.turn \in 0 .. MaxTurns
      BY <3>2 DEF XReqs
    <3>4. \E a \in {"ok", "refused"} :
             Codex!Answered(r, a, 0) \/ Codex!Answered(r, a, r.turn) \/ Codex!Answered(r, a, app.turn)
      BY <1>4
    <3>5. PICK a \in {"ok", "refused"} :
             Codex!Answered(r, a, 0) \/ Codex!Answered(r, a, r.turn) \/ Codex!Answered(r, a, app.turn)
      BY <3>4
    <3>6. \E t \in 0 .. MaxTurns : Codex!Answered(r, a, t)
      BY <3>1, <3>3, <3>5
    <3>7. PICK t \in 0 .. MaxTurns : Codex!Answered(r, a, t)
      BY <3>6
    <3> QED BY <3>7 DEF Codex!Answered
  <2>3. PICK a \in {"ok", "refused"}, t \in 0 .. MaxTurns :
           call' = IF Codex!Awaits(call, r) THEN [call EXCEPT !.answer = a, !.turn = t] ELSE call
    BY <2>2
  <2>4. DOMAIN call = {"kind", "answer", "turn"}
    BY <1>0 DEF XTypes, XCallType, Codex!Calls
  <2>5. call'.kind = call.kind /\ (Codex!Awaits(call, r) => call'.answer = a)
    BY <2>3, <2>4
  <2> QED BY <2>1, <2>3, <2>5 DEF XCallType, XSteerType, Codex!None
<1>6. XConnInv'
  BY <1>1, <1>2 DEF XConnInv, XInTurn, XAsking, XUp
<1>7. XStartsFresh'
  BY <1>2, <1>3, <1>4 DEF XStartsFresh, XStartsDiffer
<1>8. XStartsDiffer'
  <2>1. SUFFICES ASSUME NEW i \in DOMAIN app'.stdin, NEW j \in DOMAIN app'.stdin,
                        app'.stdin[i].kind = "start", app'.stdin[j].kind = "start", i # j
                 PROVE  app'.stdin[i].turn # app'.stdin[j].turn
    BY DEF XStartsDiffer
  <2>2. /\ i + 1 \in DOMAIN app.stdin /\ app'.stdin[i] = app.stdin[i + 1]
        /\ j + 1 \in DOMAIN app.stdin /\ app'.stdin[j] = app.stdin[j + 1]
    BY <1>3
  <2>3. i + 1 # j + 1
    <3>1. i \in 1 .. Len(app.stdin) - 1 /\ j \in 1 .. Len(app.stdin) - 1 /\ Len(app.stdin) \in Nat
      BY <1>3
    <3> QED BY <2>1, <3>1
  <2> QED BY <2>1, <2>2, <2>3 DEF XStartsDiffer
<1>9. XReadsLast'
  <2>1. ASSUME NEW i \in DOMAIN app'.stdin, app'.stdin[i].kind = "read"
        PROVE  /\ i = Len(app'.stdin)
               /\ xturn'.pc = "drops" \/ (xturn'.pc = "rereads" /\ call'.answer = Codex!None)
    <3>1. i + 1 = Len(app.stdin) /\ (xturn.pc = "drops" \/ (xturn.pc = "rereads" /\ call.answer = Codex!None))
      BY <1>1, <1>3, <2>1 DEF XReadsLast, XUp
    <3>2. r.kind # "read"
      BY <1>1, <1>3, <3>1 DEF XReadsLast, XUp
    <3>3. CASE xturn.pc = "rereads"
      <4>1. call.kind = "read"
        BY <3>3 DEF XReadInv
      <4>2. call' = call
        BY <1>5, <3>2, <4>1 DEF Codex!Awaits
      <4> QED BY <1>2, <1>3, <3>1, <4>2
    <3> QED BY <1>2, <1>3, <3>1, <3>3
  <2>2. ASSUME xturn'.pc = "rereads", call'.answer = Codex!None
        PROVE  app'.stdin # <<>> /\ app'.stdin[Len(app'.stdin)].kind = "read"
    <3>1. xturn.pc = "rereads" /\ call' = call
      BY <1>2, <1>5, <2>2
    <3>2. app.stdin[Len(app.stdin)].kind = "read" /\ call.kind = "read" /\ call.turn = 0
      BY <1>1, <2>2, <3>1 DEF XReadsLast, XReadInv, XUp
    <3>3. Len(app.stdin) # 1
      <4>1. SUFFICES ASSUME Len(app.stdin) = 1 PROVE FALSE
        OBVIOUS
      <4>2. r.kind = "read" /\ r.turn = 0
        BY <1>3, <3>2, <4>1 DEF XReadsLast
      <4> QED BY <1>5, <2>2, <3>1, <3>2, <4>2 DEF Codex!Awaits
    <3>4. Len(app'.stdin) \in DOMAIN app'.stdin /\ app'.stdin[Len(app'.stdin)] = app.stdin[Len(app.stdin)]
      <4>1. Len(app.stdin) - 1 \in DOMAIN app'.stdin
        <5>1. Len(app.stdin) \in Nat /\ 1 \in 1 .. Len(app.stdin)
          BY <1>3
        <5>2. Len(app.stdin) - 1 \in 1 .. Len(app.stdin) - 1
          <6>1. \A n \in Nat : 1 \in 1 .. n /\ n # 1 => n - 1 \in 1 .. n - 1
            OBVIOUS
          <6> QED BY <3>3, <5>1, <6>1
        <5> QED BY <1>3, <5>2
      <4>2. app'.stdin[Len(app.stdin) - 1] = app.stdin[(Len(app.stdin) - 1) + 1]
        BY <1>3, <4>1
      <4>3. (Len(app.stdin) - 1) + 1 = Len(app.stdin)
        BY <1>3
      <4> QED BY <1>3, <4>1, <4>2, <4>3
    <3>5. app'.stdin # <<>>
      BY <3>4
    <3> QED BY <3>2, <3>4, <3>5
  <2>3. \A i \in DOMAIN app'.stdin : app'.stdin[i].kind \in {"read", "resume"} => app'.stdin[i].turn = 0
    BY <1>3 DEF XReadsLast
  <2> QED BY <2>1, <2>2, <2>3 DEF XReadsLast
<1>10. XNumbers'
  <2>1. app'.turn \in 0 .. xcount["turns"] /\ (app'.turn # 0 => xpast.ended[app'.turn] = Codex!None)
    <3>1. CASE r.kind = "start" /\ app'.turn = r.turn
      <4>1. r.turn \in 1 .. xcount["turns"] /\ xpast.ended[r.turn] = Codex!None
        BY <1>3, <3>1 DEF XStartsFresh
      <4> QED BY <3>1, <4>1, <1>0 DEF XTypes, XCountType
    <3>2. CASE app'.turn = app.turn
      BY <3>2 DEF XNumbers
    <3> QED BY <1>4, <3>1, <3>2
  <2> QED BY <1>2, <2>1 DEF XNumbers, XInTurn
<1>11. XOutcomeInv'
  <2>1. queue' = queue \/ queue' = Append(queue, [what |-> "stray", turn |-> 0])
    BY <1>4 DEF Codex!Answered, Codex!Said
  <2>2. CASE queue' = queue
    BY <1>2, <2>2 DEF XOutcomeInv
  <2>3. CASE queue' = Append(queue, [what |-> "stray", turn |-> 0])
    <3>1. queue \in Seq(XMsgs) /\ [what |-> "stray", turn |-> 0] \in XMsgs
      BY <1>0 DEF XTypes, XQueueType, XMsgs
    <3>2. \A i \in DOMAIN queue' : \/ i \in DOMAIN queue /\ queue'[i] = queue[i]
                                   \/ queue'[i] = [what |-> "stray", turn |-> 0]
      BY <2>3, <3>1, AppendIs
    <3>3. "stray" \notin XEnded
      BY DEF XEnded
    <3> QED BY <1>2, <3>2, <3>3 DEF XOutcomeInv
  <2> QED BY <2>1, <2>2, <2>3
<1>12. XRunsInv'
  <2>1. \A S : XRunsIn(S) => XRunsIn(S)'
    BY <1>3, <1>4 DEF XRunsIn, XStartsIn
  <2> QED BY <1>1, <1>2, <2>1 DEF XRunsInv, XUp
<1>13. \A t : t # 0 /\ XRunless(t) => XRunless(t)'
  BY <1>3, <1>4 DEF XRunless
<1>14. XStartInv'
  <2>1. CASE xturn.pc = "starts"
    <3>1. call.kind = "start" /\ xturn.id # 0 /\ xturn.end = Codex!None
          /\ (call.answer = Codex!None => call.turn = xturn.id)
          /\ (call.answer = "refused" => XRunless(xturn.id))
      BY <2>1 DEF XStartInv, XNumbers
    <3>2. CASE ~ Codex!Awaits(call, r)
      BY <1>2, <1>5, <1>13, <2>1, <3>1, <3>2 DEF XStartInv
    <3>3. CASE Codex!Awaits(call, r)
      <4>1. r.kind = "start" /\ r.turn = xturn.id
        BY <3>1, <3>3 DEF Codex!Awaits
      <4>2. call'.answer = "refused" => XRunless(xturn.id)'
        <5>1. CASE app'.turn = r.turn /\ Codex!Answered(r, "ok", r.turn)
          <6>1. call'.answer = "ok"
            BY <3>3, <5>1, <1>0 DEF Codex!Answered
          <6> QED BY <6>1
        <5>2. CASE app'.turn = app.turn
          <6>1. app.turn # xturn.id
            BY <1>3, <4>1 DEF XStartsFresh
          <6>2. ASSUME NEW i \in DOMAIN app'.stdin, app'.stdin[i].kind = "start"
                PROVE  app'.stdin[i].turn # xturn.id
            <7>1. i + 1 \in DOMAIN app.stdin /\ i + 1 # 1 /\ app'.stdin[i] = app.stdin[i + 1]
              BY <1>3
            <7> QED BY <1>3, <4>1, <6>2, <7>1 DEF XStartsDiffer
          <6> QED BY <1>2, <5>2, <6>1, <6>2 DEF XRunless
        <5> QED BY <1>4, <4>1, <5>1, <5>2
      <4> QED BY <1>2, <1>5, <2>1, <3>1, <3>3, <4>2 DEF XStartInv
    <3> QED BY <3>2, <3>3
  <2>2. CASE xturn.pc # "starts"
    <3>1. xturn.pc = "streams" /\ xturn.first = "refused" => xturn.id # 0
      BY DEF XNumbers, XInTurn
    <3> QED BY <1>2, <1>13, <2>2, <3>1 DEF XStartInv
  <2> QED BY <2>1, <2>2
<1>15. XReadInv'
  <2>1. XStartsIn({}) => XStartsIn({})' /\ app'.turn = app.turn
    BY <1>3, <1>4 DEF XStartsIn
  <2>2. ASSUME xturn.pc = "rereads", call.answer = Codex!None, call'.answer = "ok"
        PROVE  XStartsIn({})' /\ app'.turn \in {0, call'.turn}
    <3>1. Codex!Awaits(call, r) /\ call.kind = "read"
      BY <1>5, <2>2 DEF XReadInv, Codex!None
    <3>2. r.kind = "read"
      BY <3>1 DEF Codex!Awaits
    <3>3. Len(app.stdin) = 1
      BY <1>1, <1>3, <3>2 DEF XReadsLast, XUp
    <3>4. app'.turn = app.turn /\ Codex!Answered(r, "ok", app.turn)
      BY <1>4, <3>2
    <3>5. call'.turn = app.turn
      BY <3>1, <3>4, <1>0 DEF Codex!Answered
    <3> QED BY <1>3, <3>3, <3>4, <3>5 DEF XStartsIn
  <2>3. CASE xturn.pc = "rereads"
    <3>1. call.answer # Codex!None => call' = call
      BY <1>5 DEF Codex!Awaits
    <3>2. call'.answer = Codex!None => call' = call
      BY <1>5
    <3> QED BY <1>1, <1>2, <1>5, <2>1, <2>2, <2>3, <3>1, <3>2 DEF XReadInv, XUp, Codex!None
  <2>4. CASE xturn.pc # "rereads"
    BY <1>1, <1>2, <1>5, <2>1, <2>4 DEF XReadInv, XUp
  <2> QED BY <2>3, <2>4
<1> QED BY <1>6, <1>7, <1>8, <1>9, <1>10, <1>11, <1>12, <1>14, <1>15

(* One action at a time *)
LEMMA XAsksTypes ==
    ASSUME XTypes, Codex!Asks
    PROVE  XTypes'
<1> USE XBounds DEF XTypes
<1>1. XAppType'
  BY DEF Codex!Asks, XAppType, XApps
<1>2. XQueueType'
  BY AppendIs DEF Codex!Asks, Codex!Said, XQueueType, XAppType, XMsgs, XApps
<1>3. XCallType'
  BY DEF Codex!Asks, XCallType
<1>4. XSteerType'
  BY DEF Codex!Asks, XSteerType
<1>5. XConnType'
  BY DEF Codex!Asks, XConnType
<1>6. XTurnType'
  BY DEF Codex!Asks, XTurnType
<1>7. XFlagType'
  BY DEF Codex!Asks, XFlagType
<1>8. XCountType'
  BY DEF Codex!Asks, Codex!Counted, XCountType
<1>9. XPastType'
  BY DEF Codex!Asks, XPastType
<1> QED BY <1>1, <1>2, <1>3, <1>4, <1>5, <1>6, <1>7, <1>8, <1>9

LEMMA XAsksKeeps ==
    ASSUME XIInv, Codex!Asks
    PROVE  XKeeps'
<1> USE XBounds DEF XIInv, XKeeps, XTypes
<1>1. XConnInv'
  BY DEF Codex!Asks, XConnInv, XInTurn, XAsking, XUp
<1>2. XStartsFresh'
  BY DEF Codex!Asks, Codex!Counted, XStartsFresh
<1>3. XStartsDiffer'
  <2>1. app'.stdin = app.stdin
    BY DEF Codex!Asks, XAppType, XApps
  <2> QED BY <2>1 DEF XStartsDiffer
<1>4. XReadsLast'
  BY DEF Codex!Asks, XReadsLast, XUp
<1>5. XNumbers'
  BY DEF Codex!Asks, Codex!Counted, XNumbers, XInTurn
<1>6. XOutcomeInv'
  BY DEF Codex!Asks, Codex!Said, XOutcomeInv, XEnded
<1>7. XRunsInv'
  BY DEF Codex!Asks, XRunsInv, XUp, XRunsIn, XStartsIn
<1>8. XStartInv'
  BY DEF Codex!Asks, XStartInv, XRunless
<1>9. XReadInv'
  BY DEF Codex!Asks, XReadInv, XUp, XStartsIn
<1> QED BY <1>1, <1>2, <1>3, <1>4, <1>5, <1>6, <1>7, <1>8, <1>9

LEMMA XTurnEndsTypes ==
    ASSUME XTypes, Codex!TurnEnds
    PROVE  XTypes'
<1> USE XBounds DEF XTypes
<1>1. XAppType'
  <2>1. 0 \in 0 .. MaxTurns
    OBVIOUS
  <2> QED BY <2>1 DEF Codex!TurnEnds, Codex!Ends, XAppType, XApps
<1>2. XQueueType'
  BY DEF Codex!TurnEnds, Codex!Ends, Codex!Said, XQueueType, XAppType, XApps, XMsgs
<1>3. XCallType'
  BY DEF Codex!TurnEnds, Codex!Ends, XCallType
<1>4. XSteerType'
  BY DEF Codex!TurnEnds, Codex!Ends, XSteerType
<1>5. XConnType'
  BY DEF Codex!TurnEnds, Codex!Ends, XConnType
<1>6. XTurnType'
  BY DEF Codex!TurnEnds, Codex!Ends, XTurnType
<1>7. XFlagType'
  BY DEF Codex!TurnEnds, Codex!Ends, XFlagType
<1>8. XCountType'
  BY DEF Codex!TurnEnds, XCountType
<1>9. XPastType'
  <2>1. PICK status \in {"completed", "failed", "interrupted"} :
            xpast' = [xpast EXCEPT !.ended[app.turn] = status]
    BY DEF Codex!TurnEnds, Codex!Ends
  <2> QED BY <2>1 DEF XPastType, Codex!Statuses
<1> QED BY <1>1, <1>2, <1>3, <1>4, <1>5, <1>6, <1>7, <1>8, <1>9

LEMMA XTurnEndsKeeps ==
    ASSUME XIInv, Codex!TurnEnds
    PROVE  XKeeps'
<1> USE XBounds DEF XIInv, XKeeps, XTypes
<1>1. XConnInv'
  BY DEF Codex!TurnEnds, Codex!Ends, XConnInv, XInTurn, XAsking, XUp
<1>2. XStartsFresh'
  BY DEF Codex!TurnEnds, Codex!Ends, XStartsFresh
<1>3. XStartsDiffer'
  <2>1. app'.stdin = app.stdin
    BY DEF Codex!TurnEnds, Codex!Ends
  <2> QED BY <2>1 DEF XStartsDiffer
<1>4. XReadsLast'
  BY DEF Codex!TurnEnds, Codex!Ends, XReadsLast, XUp
<1>5. XNumbers'
  BY DEF Codex!TurnEnds, Codex!Ends, XNumbers, XInTurn, XCountType, Codex!None
<1>6. XOutcomeInv'
  <2>1. PICK status \in {"completed", "failed"} : Codex!Ends(status)
    BY DEF Codex!TurnEnds
  <2>2. app.turn \in Codex!Turns /\ xpast.ended[app.turn] = Codex!None
    BY <2>1 DEF Codex!Ends, XAppType, XApps, Codex!Turns, XNumbers
  <2>3. /\ xpast'.ended = [xpast.ended EXCEPT ![app.turn] = status]
        /\ xpast'.ended[app.turn] = status
        /\ \A t \in Codex!Turns : t # app.turn => xpast'.ended[t] = xpast.ended[t]
    BY <2>1, <2>2 DEF Codex!Ends, XPastType
  <2>4. queue' = Append(queue, [what |-> status, turn |-> app.turn]) /\ queue \in Seq(XMsgs)
    BY <2>1 DEF Codex!Ends, Codex!Said, XQueueType
  <2>5. \A i \in DOMAIN queue' : \/ i \in DOMAIN queue /\ queue'[i] = queue[i]
                                 \/ queue'[i].what = status /\ queue'[i].turn = app.turn
    BY <2>4, AppendIs
  <2>6. Codex!None \notin XEnded
    BY DEF XEnded, Codex!None
  <2> QED BY <2>2, <2>3, <2>5, <2>6 DEF XOutcomeInv
<1>7. XRunsInv'
  BY DEF Codex!TurnEnds, Codex!Ends, XRunsInv, XUp, XRunsIn, XStartsIn
<1>8. XStartInv'
  BY DEF Codex!TurnEnds, Codex!Ends, XStartInv, XRunless, XNumbers, XInTurn
<1>9. XReadInv'
  BY DEF Codex!TurnEnds, Codex!Ends, XReadInv, XUp, XStartsIn
<1> QED BY <1>1, <1>2, <1>3, <1>4, <1>5, <1>6, <1>7, <1>8, <1>9

LEMMA XInterruptedTypes ==
    ASSUME XTypes, Codex!Interrupted
    PROVE  XTypes'
<1> USE XBounds DEF XTypes
<1>1. XAppType'
  <2>1. 0 \in 0 .. MaxTurns
    OBVIOUS
  <2> QED BY <2>1 DEF Codex!Interrupted, Codex!Ends, XAppType, XApps
<1>2. XQueueType'
  BY DEF Codex!Interrupted, Codex!Ends, Codex!Said, XQueueType, XAppType, XApps, XMsgs
<1>3. XCallType'
  BY DEF Codex!Interrupted, Codex!Ends, XCallType
<1>4. XSteerType'
  BY DEF Codex!Interrupted, Codex!Ends, XSteerType
<1>5. XConnType'
  BY DEF Codex!Interrupted, Codex!Ends, XConnType
<1>6. XTurnType'
  BY DEF Codex!Interrupted, Codex!Ends, XTurnType
<1>7. XFlagType'
  BY DEF Codex!Interrupted, Codex!Ends, XFlagType
<1>8. XCountType'
  BY DEF Codex!Interrupted, Codex!Upset, Codex!Counted, XCountType
<1>9. XPastType'
  <2>1. PICK status \in {"completed", "failed", "interrupted"} :
            xpast' = [xpast EXCEPT !.ended[app.turn] = status]
    BY DEF Codex!Interrupted, Codex!Ends
  <2> QED BY <2>1 DEF XPastType, Codex!Statuses
<1> QED BY <1>1, <1>2, <1>3, <1>4, <1>5, <1>6, <1>7, <1>8, <1>9

LEMMA XInterruptedKeeps ==
    ASSUME XIInv, Codex!Interrupted
    PROVE  XKeeps'
<1> USE XBounds DEF XIInv, XKeeps, XTypes
<1>1. XConnInv'
  BY DEF Codex!Interrupted, Codex!Ends, XConnInv, XInTurn, XAsking, XUp
<1>2. XStartsFresh'
  <2>1. app'.stdin = app.stdin /\ app'.turn = 0 /\ app.turn # 0 /\ app.turn \in Codex!Turns
    BY DEF Codex!Interrupted, Codex!Ends, XAppType, XApps, Codex!Turns
  <2>2. xcount'["turns"] = xcount["turns"] /\ xcount["turns"] \in Nat
    BY DEF Codex!Interrupted, Codex!Upset, Codex!Counted, XCountType
  <2>3. \A t \in Codex!Turns : t # app.turn => xpast'.ended[t] = xpast.ended[t]
    BY DEF Codex!Interrupted, Codex!Ends, XPastType
  <2>4. \A i \in DOMAIN app.stdin : app.stdin[i].turn \in 0 .. MaxTurns
    BY XInputsAre
  <2> QED BY <2>1, <2>2, <2>3, <2>4 DEF XStartsFresh, Codex!Turns
<1>3. XStartsDiffer'
  <2>1. app'.stdin = app.stdin
    BY DEF Codex!Interrupted, Codex!Ends
  <2> QED BY <2>1 DEF XStartsDiffer
<1>4. XReadsLast'
  BY DEF Codex!Interrupted, Codex!Ends, XReadsLast, XUp
<1>5. XNumbers'
  BY DEF Codex!Interrupted, Codex!Ends, Codex!Upset, Codex!Counted, XNumbers, XInTurn, XCountType,
  Codex!None
<1>6. XOutcomeInv'
  <2>1. Codex!Ends("interrupted")
    BY DEF Codex!Interrupted
  <2>2. app.turn \in Codex!Turns /\ xpast.ended[app.turn] = Codex!None
    BY <2>1 DEF Codex!Ends, XAppType, XApps, Codex!Turns, XNumbers
  <2>3. /\ xpast'.ended = [xpast.ended EXCEPT ![app.turn] = "interrupted"]
        /\ xpast'.ended[app.turn] = "interrupted"
        /\ \A t \in Codex!Turns : t # app.turn => xpast'.ended[t] = xpast.ended[t]
    BY <2>1, <2>2 DEF Codex!Ends, XPastType
  <2>4. queue' = Append(queue, [what |-> "interrupted", turn |-> app.turn]) /\ queue \in Seq(XMsgs)
    BY <2>1 DEF Codex!Ends, Codex!Said, XQueueType
  <2>5. \A i \in DOMAIN queue' : \/ i \in DOMAIN queue /\ queue'[i] = queue[i]
                                 \/ queue'[i].what = "interrupted" /\ queue'[i].turn = app.turn
    BY <2>4, AppendIs
  <2>6. Codex!None \notin XEnded
    BY DEF XEnded, Codex!None
  <2> QED BY <2>2, <2>3, <2>5, <2>6 DEF XOutcomeInv
<1>7. XRunsInv'
  BY DEF Codex!Interrupted, Codex!Ends, XRunsInv, XUp, XRunsIn, XStartsIn
<1>8. XStartInv'
  BY DEF Codex!Interrupted, Codex!Ends, XStartInv, XRunless, XNumbers, XInTurn
<1>9. XReadInv'
  BY DEF Codex!Interrupted, Codex!Ends, XReadInv, XUp, XStartsIn
<1> QED BY <1>1, <1>2, <1>3, <1>4, <1>5, <1>6, <1>7, <1>8, <1>9

LEMMA XDiesTypes ==
    ASSUME XTypes, Codex!Dies
    PROVE  XTypes'
<1> USE XBounds DEF XTypes
<1>1. XAppType'
  BY XAppsAre DEF Codex!Dies, XAppType
<1>2. XQueueType'
  BY DEF Codex!Dies, XQueueType
<1>3. XCallType'
  BY DEF Codex!Dies, XCallType
<1>4. XSteerType'
  BY DEF Codex!Dies, XSteerType
<1>5. XConnType'
  BY DEF Codex!Dies, XConnType
<1>6. XTurnType'
  BY DEF Codex!Dies, XTurnType
<1>7. XFlagType'
  BY DEF Codex!Dies, XFlagType
<1>8. XCountType'
  BY DEF Codex!Dies, Codex!Upset, Codex!Counted, XCountType
<1>9. XPastType'
  BY DEF Codex!Dies, XPastType
<1> QED BY <1>1, <1>2, <1>3, <1>4, <1>5, <1>6, <1>7, <1>8, <1>9

LEMMA XDiesKeeps ==
    ASSUME XIInv, Codex!Dies
    PROVE  XKeeps'
<1> USE XBounds DEF XIInv, XKeeps, XTypes
<1>1. XConnInv'
  BY DEF Codex!Dies, Codex!Dead, XConnInv, XInTurn, XAsking, XUp
<1>2. XStartsFresh'
  BY DEF Codex!Dies, Codex!Dead, Codex!NoApp, Codex!NewApp, XStartsFresh
<1>3. XStartsDiffer'
  BY DEF Codex!Dies, Codex!Dead, Codex!NoApp, Codex!NewApp, XStartsDiffer
<1>4. XReadsLast'
  BY DEF Codex!Dies, Codex!Dead, Codex!NoApp, Codex!NewApp, XReadsLast, XUp
<1>5. XNumbers'
  BY DEF Codex!Dies, Codex!Dead, Codex!NoApp, Codex!NewApp, Codex!Upset, Codex!Counted, XNumbers, XInTurn,
  XCountType
<1>6. XOutcomeInv'
  BY DEF Codex!Dies, XOutcomeInv
<1>7. XRunsInv'
  BY DEF Codex!Dies, Codex!Dead, XRunsInv, XUp
<1>8. XStartInv'
  BY DEF Codex!Dies, Codex!Dead, Codex!NoApp, Codex!NewApp, XStartInv, XRunless, XNumbers, XInTurn
<1>9. XReadInv'
  BY DEF Codex!Dies, Codex!Dead, XReadInv, XUp
<1> QED BY <1>1, <1>2, <1>3, <1>4, <1>5, <1>6, <1>7, <1>8, <1>9

LEMMA XGarblesTypes ==
    ASSUME XTypes, Codex!Garbles
    PROVE  XTypes'
<1> USE XBounds DEF XTypes
<1>1. XAppType'
  BY DEF Codex!Garbles, XAppType, XApps
<1>2. XQueueType'
  BY DEF Codex!Garbles, XQueueType
<1>3. XCallType'
  BY DEF Codex!Garbles, Codex!FailPending, XCallType, Codex!Answers, Codex!Calls
<1>4. XSteerType'
  BY DEF Codex!Garbles, Codex!FailPending, XSteerType, Codex!Answers, Codex!Calls
<1>5. XConnType'
  BY DEF Codex!Garbles, XConnType
<1>6. XTurnType'
  BY DEF Codex!Garbles, XTurnType
<1>7. XFlagType'
  BY DEF Codex!Garbles, XFlagType
<1>8. XCountType'
  BY DEF Codex!Garbles, Codex!Upset, Codex!Counted, XCountType
<1>9. XPastType'
  BY DEF Codex!Garbles, XPastType
<1> QED BY <1>1, <1>2, <1>3, <1>4, <1>5, <1>6, <1>7, <1>8, <1>9

LEMMA XGarblesKeeps ==
    ASSUME XIInv, Codex!Garbles
    PROVE  XKeeps'
<1> USE XBounds DEF XIInv, XKeeps, XTypes
<1>1. XConnInv'
  BY DEF Codex!Garbles, XConnInv, XInTurn, XAsking, XUp
<1>2. XStartsFresh'
  BY DEF Codex!Garbles, Codex!Upset, Codex!Counted, XStartsFresh
<1>3. XStartsDiffer'
  BY DEF Codex!Garbles, XStartsDiffer
<1>4. XReadsLast'
  BY DEF Codex!Garbles, XReadsLast, XUp
<1>5. XNumbers'
  BY DEF Codex!Garbles, Codex!Upset, Codex!Counted, XNumbers, XInTurn
<1>6. XOutcomeInv'
  BY DEF Codex!Garbles, XOutcomeInv
<1>7. XRunsInv'
  BY DEF Codex!Garbles, XRunsInv, XUp
<1>8. XStartInv'
  BY DEF Codex!Garbles, Codex!FailPending, XStartInv, XRunless
<1>9. XReadInv'
  BY DEF Codex!Garbles, Codex!FailPending, XReadInv, XUp
<1> QED BY <1>1, <1>2, <1>3, <1>4, <1>5, <1>6, <1>7, <1>8, <1>9

LEMMA XExitsTypes ==
    ASSUME XTypes, Codex!Exits
    PROVE  XTypes'
<1> USE XBounds DEF XTypes
<1>1. XAppType'
  BY XAppsAre DEF Codex!Exits, XAppType
<1>2. XQueueType'
  BY DEF Codex!Exits, XQueueType
<1>3. XCallType'
  BY DEF Codex!Exits, XCallType
<1>4. XSteerType'
  BY DEF Codex!Exits, XSteerType
<1>5. XConnType'
  BY DEF Codex!Exits, XConnType
<1>6. XTurnType'
  BY DEF Codex!Exits, XTurnType
<1>7. XFlagType'
  BY DEF Codex!Exits, XFlagType
<1>8. XCountType'
  BY DEF Codex!Exits, XCountType
<1>9. XPastType'
  BY DEF Codex!Exits, XPastType
<1> QED BY <1>1, <1>2, <1>3, <1>4, <1>5, <1>6, <1>7, <1>8, <1>9

LEMMA XExitsKeeps ==
    ASSUME XIInv, Codex!Exits
    PROVE  XKeeps'
<1> USE XBounds DEF XIInv, XKeeps, XTypes
<1>1. XConnInv'
  BY DEF Codex!Exits, Codex!Dead, XConnInv, XInTurn, XAsking, XUp
<1>2. XStartsFresh'
  BY DEF Codex!Exits, Codex!Dead, Codex!NoApp, Codex!NewApp, XStartsFresh
<1>3. XStartsDiffer'
  BY DEF Codex!Exits, Codex!Dead, Codex!NoApp, Codex!NewApp, XStartsDiffer
<1>4. XReadsLast'
  BY DEF Codex!Exits, Codex!Dead, Codex!NoApp, Codex!NewApp, XReadsLast, XUp
<1>5. XNumbers'
  BY DEF Codex!Exits, Codex!Dead, Codex!NoApp, Codex!NewApp, XNumbers, XInTurn, XCountType
<1>6. XOutcomeInv'
  BY DEF Codex!Exits, XOutcomeInv
<1>7. XRunsInv'
  BY DEF Codex!Exits, Codex!Dead, XRunsInv, XUp
<1>8. XStartInv'
  BY DEF Codex!Exits, Codex!Dead, Codex!NoApp, Codex!NewApp, XStartInv, XRunless, XNumbers, XInTurn
<1>9. XReadInv'
  BY DEF Codex!Exits, Codex!Dead, XReadInv, XUp
<1> QED BY <1>1, <1>2, <1>3, <1>4, <1>5, <1>6, <1>7, <1>8, <1>9

LEMMA XWatchedTypes ==
    ASSUME XTypes, Codex!Watched
    PROVE  XTypes'
<1> USE XBounds DEF XTypes
<1>1. XAppType'
  BY XAppsAre DEF Codex!Watched, XAppType
<1>2. XQueueType'
  BY DEF Codex!Watched, Codex!Said, XQueueType, XMsgs
<1>3. XCallType'
  BY DEF Codex!Watched, Codex!FailPending, XCallType, Codex!Answers, Codex!Calls
<1>4. XSteerType'
  BY DEF Codex!Watched, Codex!FailPending, XSteerType, Codex!Answers, Codex!Calls
<1>5. XConnType'
  BY DEF Codex!Watched, XConnType
<1>6. XTurnType'
  BY DEF Codex!Watched, XTurnType
<1>7. XFlagType'
  BY DEF Codex!Watched, XFlagType
<1>8. XCountType'
  BY DEF Codex!Watched, XCountType
<1>9. XPastType'
  BY DEF Codex!Watched, XPastType
<1> QED BY <1>1, <1>2, <1>3, <1>4, <1>5, <1>6, <1>7, <1>8, <1>9

LEMMA XWatchedKeeps ==
    ASSUME XIInv, Codex!Watched
    PROVE  XKeeps'
<1> USE XBounds DEF XIInv, XKeeps, XTypes
<1>1. XConnInv'
  BY DEF Codex!Watched, Codex!NoApp, XConnInv, XInTurn, XAsking, XUp
<1>2. XStartsFresh'
  BY DEF Codex!Watched, Codex!NoApp, Codex!NewApp, XStartsFresh
<1>3. XStartsDiffer'
  BY DEF Codex!Watched, Codex!NoApp, Codex!NewApp, XStartsDiffer
<1>4. XReadsLast'
  BY DEF Codex!Watched, Codex!NoApp, Codex!NewApp, XReadsLast, XUp
<1>5. XNumbers'
  BY DEF Codex!Watched, Codex!NoApp, Codex!NewApp, XNumbers, XInTurn, XCountType
<1>6. XOutcomeInv'
  BY DEF Codex!Watched, Codex!Said, XOutcomeInv, XEnded
<1>7. XRunsInv'
  BY DEF Codex!Watched, Codex!NoApp, XRunsInv, XUp
<1>8. XStartInv'
  BY DEF Codex!Watched, Codex!FailPending, Codex!NoApp, Codex!NewApp, XStartInv, XRunless, XCallType,
  Codex!Calls, XNumbers, XInTurn
<1>9. XReadInv'
  BY DEF Codex!Watched, Codex!FailPending, Codex!NoApp, XReadInv, XUp, XCallType, Codex!Calls
<1> QED BY <1>1, <1>2, <1>3, <1>4, <1>5, <1>6, <1>7, <1>8, <1>9

LEMMA XStartsTurnTypes ==
    ASSUME XTypes, Codex!StartsTurn
    PROVE  XTypes'
<1> USE XBounds DEF XTypes
<1>1. XAppType'
  <2>1. xcount["turns"] + 1 \in 0 .. MaxTurns
    BY DEF Codex!StartsTurn, Codex!Counted, XCountType
  <2>2. Codex!Request("start", xcount["turns"] + 1) \in XReqs
    BY <2>1, XAppsAre
  <2> QED BY <2>2, XSendsIs DEF Codex!StartsTurn, Codex!Sends, XAppType
<1>2. XQueueType'
  BY DEF Codex!StartsTurn, XQueueType
<1>3. XCallType'
  <2>1. xcount["turns"] + 1 \in 0 .. MaxTurns
    BY DEF Codex!StartsTurn, Codex!Counted, XCountType
  <2> QED BY <2>1, XAppsAre DEF Codex!StartsTurn, Codex!Sends, XCallType, Codex!Calls
<1>4. XSteerType'
  BY DEF Codex!StartsTurn, XSteerType
<1>5. XConnType'
  BY DEF Codex!StartsTurn, XConnType
<1>6. XTurnType'
  <2>1. xcount["turns"] + 1 \in 0 .. MaxTurns
    BY DEF Codex!StartsTurn, Codex!Counted, XCountType
  <2> QED BY <2>1 DEF Codex!StartsTurn, XTurnType, XTurnRec, Codex!Statuses, Codex!None
<1>7. XFlagType'
  BY DEF Codex!StartsTurn, XFlagType
<1>8. XCountType'
  BY DEF Codex!StartsTurn, Codex!Counted, XCountType
<1>9. XPastType'
  BY DEF Codex!StartsTurn, XPastType
<1> QED BY <1>1, <1>2, <1>3, <1>4, <1>5, <1>6, <1>7, <1>8, <1>9

LEMMA XStartsTurnKeeps ==
    ASSUME XIInv, Codex!StartsTurn
    PROVE  XKeeps'
<1> USE XBounds DEF XIInv, XKeeps, XTypes
<1>1. XConnInv'
  BY DEF Codex!StartsTurn, XConnInv, XInTurn, XAsking
<1>2. XStartsFresh'
  <2>0. xcount["turns"] \in Nat /\ xcount["turns"] < MaxTurns /\ MaxTurns \in Nat
        /\ xcount'["turns"] = xcount["turns"] + 1
    BY DEF Codex!StartsTurn, Codex!Counted, XCountType
  <2> DEFINE n == xcount["turns"] + 1
  <2>1. n \in 0 .. MaxTurns /\ n \in Codex!Turns /\ n \in 1 .. xcount'["turns"]
    BY <2>0 DEF Codex!Turns
  <2>2. app' = [app EXCEPT !.stdin = Append(@, Codex!Request("start", n))] /\ xpast' = xpast
    BY DEF Codex!StartsTurn, Codex!Sends
  <2>3. n # app.turn /\ xpast.ended[n] = Codex!None
    BY <2>0, <2>1 DEF XNumbers
  <2> HIDE DEF n
  <2>4. /\ app'.state = app.state /\ app'.turn = app.turn
        /\ DOMAIN app.stdin = 1 .. Len(app.stdin) /\ Len(app.stdin) \in Nat
        /\ \A i \in DOMAIN app'.stdin :
              \/ i \in DOMAIN app.stdin /\ app'.stdin[i] = app.stdin[i]
              \/ i = Len(app.stdin) + 1 /\ app'.stdin[i].kind = "start" /\ app'.stdin[i].turn = n
    BY <2>1, <2>2, XSentIs
  <2>5. \A i \in 1 .. xcount["turns"] : i \in 1 .. xcount'["turns"]
    BY <2>0
  <2> QED BY <2>1, <2>2, <2>3, <2>4, <2>5 DEF XStartsFresh
<1>3. XStartsDiffer'
  <2>0. xcount["turns"] \in Nat /\ xcount["turns"] < MaxTurns /\ MaxTurns \in Nat
        /\ xcount'["turns"] = xcount["turns"] + 1
    BY DEF Codex!StartsTurn, Codex!Counted, XCountType
  <2> DEFINE n == xcount["turns"] + 1
  <2>1. n \in 0 .. MaxTurns /\ n \in Codex!Turns /\ n \in 1 .. xcount'["turns"]
    BY <2>0 DEF Codex!Turns
  <2>2. app' = [app EXCEPT !.stdin = Append(@, Codex!Request("start", n))] /\ xpast' = xpast
    BY DEF Codex!StartsTurn, Codex!Sends
  <2>3. n # app.turn /\ xpast.ended[n] = Codex!None
    BY <2>0, <2>1 DEF XNumbers
  <2> HIDE DEF n
  <2>4. /\ app'.state = app.state /\ app'.turn = app.turn
        /\ DOMAIN app.stdin = 1 .. Len(app.stdin) /\ Len(app.stdin) \in Nat
        /\ \A i \in DOMAIN app'.stdin :
              \/ i \in DOMAIN app.stdin /\ app'.stdin[i] = app.stdin[i]
              \/ i = Len(app.stdin) + 1 /\ app'.stdin[i].kind = "start" /\ app'.stdin[i].turn = n
    BY <2>1, <2>2, XSentIs
  <2>5. \A i \in DOMAIN app.stdin : app.stdin[i].kind = "start" => app.stdin[i].turn # n
    BY <2>0 DEF XStartsFresh, n
  <2> QED BY <2>1, <2>4, <2>5 DEF XStartsDiffer
<1>4. XReadsLast'
  <2>0. xcount["turns"] \in Nat /\ xcount["turns"] < MaxTurns /\ MaxTurns \in Nat
        /\ xcount'["turns"] = xcount["turns"] + 1
    BY DEF Codex!StartsTurn, Codex!Counted, XCountType
  <2> DEFINE n == xcount["turns"] + 1
  <2>1. n \in 0 .. MaxTurns /\ n \in Codex!Turns /\ n \in 1 .. xcount'["turns"]
    BY <2>0 DEF Codex!Turns
  <2>2. app' = [app EXCEPT !.stdin = Append(@, Codex!Request("start", n))] /\ xpast' = xpast
    BY DEF Codex!StartsTurn, Codex!Sends
  <2>3. n # app.turn /\ xpast.ended[n] = Codex!None
    BY <2>0, <2>1 DEF XNumbers
  <2> HIDE DEF n
  <2>4. /\ app'.state = app.state /\ app'.turn = app.turn
        /\ DOMAIN app.stdin = 1 .. Len(app.stdin) /\ Len(app.stdin) \in Nat
        /\ \A i \in DOMAIN app'.stdin :
              \/ i \in DOMAIN app.stdin /\ app'.stdin[i] = app.stdin[i]
              \/ i = Len(app.stdin) + 1 /\ app'.stdin[i].kind = "start" /\ app'.stdin[i].turn = n
    BY <2>1, <2>2, XSentIs
  <2>5. /\ xturn.pc = "off" /\ xturn'.pc = "starts"
        /\ (app.state = "up" => \A i \in DOMAIN app.stdin : app.stdin[i].kind # "read")
    BY DEF Codex!StartsTurn, XReadsLast, XUp
  <2> QED BY <2>4, <2>5 DEF XReadsLast, XUp
<1>5. XNumbers'
  BY DEF Codex!StartsTurn, Codex!Sends, Codex!Counted, XNumbers, XCountType, XTurnRec, Codex!Turns,
  XOutcomeInv, XEnded, Codex!None
<1>6. XOutcomeInv'
  BY DEF Codex!StartsTurn, XOutcomeInv
<1>7. XRunsInv'
  BY DEF Codex!StartsTurn, Codex!Sends, Codex!Request, XRunsInv, XUp, XRunsIn, XStartsIn
<1>8. XStartInv'
  BY DEF Codex!StartsTurn, Codex!Sends, Codex!NoCall, XStartInv, Codex!None
<1>9. XReadInv'
  BY DEF Codex!StartsTurn, Codex!Sends, XReadInv
<1> QED BY <1>1, <1>2, <1>3, <1>4, <1>5, <1>6, <1>7, <1>8, <1>9

LEMMA XUnavailableTypes ==
    ASSUME XTypes, Codex!Unavailable
    PROVE  XTypes'
<1> USE XBounds DEF XTypes
<1>1. XAppType'
  BY DEF Codex!Unavailable, XAppType
<1>2. XQueueType'
  BY DEF Codex!Unavailable, XQueueType
<1>3. XCallType'
  BY DEF Codex!Unavailable, XCallType
<1>4. XSteerType'
  BY DEF Codex!Unavailable, XSteerType
<1>5. XConnType'
  BY DEF Codex!Unavailable, XConnType
<1>6. XTurnType'
  BY DEF Codex!Unavailable, XTurnType, XTurnRec
<1>7. XFlagType'
  BY DEF Codex!Unavailable, XFlagType
<1>8. XCountType'
  BY DEF Codex!Unavailable, XCountType
<1>9. XPastType'
  BY DEF Codex!Unavailable, XPastType
<1> QED BY <1>1, <1>2, <1>3, <1>4, <1>5, <1>6, <1>7, <1>8, <1>9

LEMMA XUnavailableKeeps ==
    ASSUME XIInv, Codex!Unavailable
    PROVE  XKeeps'
<1> USE XBounds DEF XIInv, XKeeps, XTypes
<1>1. XConnInv'
  BY DEF Codex!Unavailable, XConnInv, XInTurn, XAsking, XUp
<1>2. XStartsFresh'
  BY DEF Codex!Unavailable, XStartsFresh
<1>3. XStartsDiffer'
  BY DEF Codex!Unavailable, XStartsDiffer
<1>4. XReadsLast'
  BY DEF Codex!Unavailable, XReadsLast, XUp
<1>5. XNumbers'
  BY DEF Codex!Unavailable, XNumbers, XInTurn
<1>6. XOutcomeInv'
  BY DEF Codex!Unavailable, XOutcomeInv
<1>7. XRunsInv'
  BY DEF Codex!Unavailable, Codex!Running, XRunsInv, XUp
<1>8. XStartInv'
  BY DEF Codex!Unavailable, XStartInv
<1>9. XReadInv'
  BY DEF Codex!Unavailable, XReadInv
<1> QED BY <1>1, <1>2, <1>3, <1>4, <1>5, <1>6, <1>7, <1>8, <1>9

LEMMA XStartedTypes ==
    ASSUME XTypes, Codex!Started
    PROVE  XTypes'
<1> USE XBounds DEF XTypes
<1>1. XAppType'
  BY DEF Codex!Started, Codex!HasStream, XAppType
<1>2. XQueueType'
  BY DEF Codex!Started, Codex!HasStream, XQueueType
<1>3. XCallType'
  BY DEF Codex!Started, Codex!HasStream, Codex!NoCall, XCallType, Codex!Answers, Codex!Calls
<1>4. XSteerType'
  BY DEF Codex!Started, Codex!HasStream, XSteerType
<1>5. XConnType'
  BY DEF Codex!Started, Codex!HasStream, XConnType, XTurnType, XTurnRec
<1>6. XTurnType'
  BY DEF Codex!Started, Codex!HasStream, XTurnType, XTurnRec
<1>7. XFlagType'
  BY DEF Codex!Started, Codex!HasStream, XFlagType
<1>8. XCountType'
  BY DEF Codex!Started, XCountType
<1>9. XPastType'
  BY DEF Codex!Started, XPastType
<1> QED BY <1>1, <1>2, <1>3, <1>4, <1>5, <1>6, <1>7, <1>8, <1>9

LEMMA XStartedKeeps ==
    ASSUME XIInv, Codex!Started
    PROVE  XKeeps'
<1> USE XBounds DEF XIInv, XKeeps, XTypes
<1>1. XConnInv'
  BY DEF Codex!Started, Codex!HasStream, XConnInv, XInTurn, XAsking
<1>2. XStartsFresh'
  BY DEF Codex!Started, Codex!HasStream, XStartsFresh
<1>3. XStartsDiffer'
  BY DEF Codex!Started, Codex!HasStream, XStartsDiffer
<1>4. XReadsLast'
  BY DEF Codex!Started, Codex!HasStream, XReadsLast, XUp
<1>5. XNumbers'
  BY DEF Codex!Started, Codex!HasStream, XNumbers
<1>6. XOutcomeInv'
  BY DEF Codex!Started, Codex!HasStream, XOutcomeInv
<1>7. XRunsInv'
  BY DEF Codex!Started, Codex!HasStream, XRunsInv, XUp, XRunsIn, XStartsIn
<1>8. XStartInv'
  BY DEF Codex!Started, Codex!HasStream, XStartInv, XRunless, Codex!None
<1>9. XReadInv'
  BY DEF Codex!Started, Codex!HasStream, Codex!NoCall, XReadInv, Codex!None
<1> QED BY <1>1, <1>2, <1>3, <1>4, <1>5, <1>6, <1>7, <1>8, <1>9

LEMMA XStartUnreadTypes ==
    ASSUME XTypes, Codex!StartUnread
    PROVE  XTypes'
<1> USE XBounds DEF XTypes
<1>1. XAppType'
  BY DEF Codex!StartUnread, Codex!HasStream, XAppType
<1>2. XQueueType'
  BY DEF Codex!StartUnread, Codex!HasStream, XQueueType
<1>3. XCallType'
  BY DEF Codex!StartUnread, Codex!HasStream, Codex!NoCall, XCallType, Codex!Answers, Codex!Calls
<1>4. XSteerType'
  BY DEF Codex!StartUnread, Codex!HasStream, XSteerType
<1>5. XConnType'
  BY DEF Codex!StartUnread, Codex!HasStream, XConnType, XTurnType, XTurnRec
<1>6. XTurnType'
  BY DEF Codex!StartUnread, Codex!HasStream, XTurnType, XTurnRec
<1>7. XFlagType'
  BY DEF Codex!StartUnread, Codex!HasStream, XFlagType
<1>8. XCountType'
  BY DEF Codex!StartUnread, Codex!Upset, Codex!Counted, XCountType
<1>9. XPastType'
  BY DEF Codex!StartUnread, XPastType, XTurnType, XTurnRec
<1> QED BY <1>1, <1>2, <1>3, <1>4, <1>5, <1>6, <1>7, <1>8, <1>9

LEMMA XStartUnreadKeeps ==
    ASSUME XIInv, Codex!StartUnread
    PROVE  XKeeps'
<1> USE XBounds DEF XIInv, XKeeps, XTypes
<1>1. XConnInv'
  BY DEF Codex!StartUnread, Codex!HasStream, XConnInv, XInTurn, XAsking
<1>2. XStartsFresh'
  BY DEF Codex!StartUnread, Codex!HasStream, Codex!Upset, Codex!Counted, XStartsFresh
<1>3. XStartsDiffer'
  <2>1. UNCHANGED <<app>>
    BY DEF Codex!StartUnread, Codex!HasStream
  <2> QED BY <2>1 DEF XStartsDiffer
<1>4. XReadsLast'
  BY DEF Codex!StartUnread, Codex!HasStream, XReadsLast, XUp
<1>5. XNumbers'
  BY DEF Codex!StartUnread, Codex!HasStream, Codex!Upset, Codex!Counted, XNumbers
<1>6. XOutcomeInv'
  BY DEF Codex!StartUnread, Codex!HasStream, XOutcomeInv
<1>7. XRunsInv'
  BY DEF Codex!StartUnread, Codex!HasStream, XRunsInv, XUp, XRunsIn, XStartsIn
<1>8. XStartInv'
  BY DEF Codex!StartUnread, Codex!HasStream, XStartInv
<1>9. XReadInv'
  BY DEF Codex!StartUnread, Codex!HasStream, Codex!NoCall, XReadInv, Codex!None
<1> QED BY <1>1, <1>2, <1>3, <1>4, <1>5, <1>6, <1>7, <1>8, <1>9

LEMMA XStartTimesOutTypes ==
    ASSUME XTypes, Codex!StartTimesOut
    PROVE  XTypes'
<1> USE XBounds DEF XTypes
<1>1. XAppType'
  BY DEF Codex!StartTimesOut, Codex!HasStream, XAppType
<1>2. XQueueType'
  BY DEF Codex!StartTimesOut, Codex!HasStream, XQueueType
<1>3. XCallType'
  BY DEF Codex!StartTimesOut, Codex!HasStream, Codex!NoCall, Codex!TimesOut, XCallType, Codex!Calls
<1>4. XSteerType'
  BY DEF Codex!StartTimesOut, Codex!HasStream, XSteerType
<1>5. XConnType'
  BY DEF Codex!StartTimesOut, Codex!HasStream, XConnType, XTurnType, XTurnRec
<1>6. XTurnType'
  BY DEF Codex!StartTimesOut, Codex!HasStream, XTurnType, XTurnRec
<1>7. XFlagType'
  BY DEF Codex!StartTimesOut, Codex!HasStream, XFlagType
<1>8. XCountType'
  BY DEF Codex!StartTimesOut, Codex!TimesOut, Codex!Upset, Codex!Counted, XCountType
<1>9. XPastType'
  BY DEF Codex!StartTimesOut, XPastType
<1> QED BY <1>1, <1>2, <1>3, <1>4, <1>5, <1>6, <1>7, <1>8, <1>9

LEMMA XStartTimesOutKeeps ==
    ASSUME XIInv, Codex!StartTimesOut
    PROVE  XKeeps'
<1> USE XBounds DEF XIInv, XKeeps, XTypes
<1>1. XConnInv'
  BY DEF Codex!StartTimesOut, Codex!HasStream, XConnInv, XInTurn, XAsking
<1>2. XStartsFresh'
  BY DEF Codex!StartTimesOut, Codex!HasStream, Codex!TimesOut, Codex!Upset, Codex!Counted, XStartsFresh,
  XCountType
<1>3. XStartsDiffer'
  BY DEF Codex!StartTimesOut, Codex!HasStream, Codex!NoCall, Codex!TimesOut, Codex!Upset, Codex!Counted,
  XStartsDiffer, XStartsFresh, XAppType, XCountType, XApps, XReqs, Codex!None
<1>4. XReadsLast'
  BY DEF Codex!StartTimesOut, Codex!HasStream, XReadsLast, XUp
<1>5. XNumbers'
  BY DEF Codex!StartTimesOut, Codex!HasStream, Codex!TimesOut, Codex!Upset, Codex!Counted, XNumbers,
  XCountType
<1>6. XOutcomeInv'
  BY DEF Codex!StartTimesOut, Codex!HasStream, XOutcomeInv
<1>7. XRunsInv'
  BY DEF Codex!StartTimesOut, Codex!HasStream, XRunsInv, XUp, XRunsIn, XStartsIn
<1>8. XStartInv'
  BY DEF Codex!StartTimesOut, Codex!HasStream, XStartInv
<1>9. XReadInv'
  BY DEF Codex!StartTimesOut, Codex!HasStream, Codex!NoCall, XReadInv, Codex!None
<1> QED BY <1>1, <1>2, <1>3, <1>4, <1>5, <1>6, <1>7, <1>8, <1>9

LEMMA XEndsAtOnceTypes ==
    ASSUME XTypes, Codex!EndsAtOnce
    PROVE  XTypes'
<1> USE XBounds DEF XTypes
<1>1. XAppType'
  BY DEF Codex!EndsAtOnce, XAppType
<1>2. XQueueType'
  BY DEF Codex!EndsAtOnce, XQueueType
<1>3. XCallType'
  BY DEF Codex!EndsAtOnce, Codex!Over, XCallType
<1>4. XSteerType'
  BY DEF Codex!EndsAtOnce, Codex!Over, XSteerType
<1>5. XConnType'
  BY DEF Codex!EndsAtOnce, Codex!Over, XConnType
<1>6. XTurnType'
  BY DEF Codex!EndsAtOnce, Codex!Over, XTurnType, XTurnRec
<1>7. XFlagType'
  BY DEF Codex!EndsAtOnce, Codex!Over, XFlagType
<1>8. XCountType'
  BY DEF Codex!EndsAtOnce, XCountType
<1>9. XPastType'
  BY DEF Codex!EndsAtOnce, XPastType
<1> QED BY <1>1, <1>2, <1>3, <1>4, <1>5, <1>6, <1>7, <1>8, <1>9

LEMMA XEndsAtOnceKeeps ==
    ASSUME XIInv, Codex!EndsAtOnce
    PROVE  XKeeps'
<1> USE XBounds DEF XIInv, XKeeps, XTypes
<1>1. XConnInv'
  BY DEF Codex!EndsAtOnce, Codex!Over, XConnInv, XInTurn, XAsking
<1>2. XStartsFresh'
  BY DEF Codex!EndsAtOnce, XStartsFresh
<1>3. XStartsDiffer'
  BY DEF Codex!EndsAtOnce, XStartsDiffer
<1>4. XReadsLast'
  BY DEF Codex!EndsAtOnce, Codex!Over, XReadsLast, XUp
<1>5. XNumbers'
  BY DEF Codex!EndsAtOnce, Codex!Over, XNumbers, XInTurn, XTurnType, XTurnRec
<1>6. XOutcomeInv'
  BY DEF Codex!EndsAtOnce, XOutcomeInv
<1>7. XRunsInv'
  BY DEF Codex!EndsAtOnce, Codex!Over, XRunsInv, XUp, XRunsIn, XStartsIn, XTurnType, XTurnRec, XStartInv,
  XRunless
<1>8. XStartInv'
  BY DEF Codex!EndsAtOnce, Codex!Over, XStartInv
<1>9. XReadInv'
  BY DEF Codex!EndsAtOnce, Codex!Over, XReadInv
<1> QED BY <1>1, <1>2, <1>3, <1>4, <1>5, <1>6, <1>7, <1>8, <1>9

LEMMA XStreamReadsTypes ==
    ASSUME XTypes, Codex!StreamReads
    PROVE  XTypes'
<1> USE XBounds DEF XTypes
<1>1. XAppType'
  <2>1. app' = app \/ app' = Codex!Unasked(Head(queue).turn)
    BY DEF Codex!StreamReads
  <2>2. Codex!Unasked(Head(queue).turn) \in XApps
    BY DEF Codex!Unasked, XAppType, XApps
  <2> QED BY <2>1, <2>2 DEF XAppType
<1>2. XQueueType'
  BY DEF Codex!StreamReads, XQueueType
<1>3. XCallType'
  BY DEF Codex!StreamReads, Codex!Over, XCallType
<1>4. XSteerType'
  BY DEF Codex!StreamReads, Codex!Over, XSteerType
<1>5. XConnType'
  BY DEF Codex!StreamReads, Codex!Over, XConnType
<1>6. XTurnType'
  <2>1. \/ xturn' = xturn \/ Codex!Goes("approves")
        \/ \E e \in {"unknown", "completed", "failed"} : Codex!Over(e)
    BY DEF Codex!StreamReads
  <2>2. ASSUME NEW e \in {"unknown", "completed", "failed"}, Codex!Over(e)
        PROVE  XTurnType'
    BY <2>2 DEF Codex!Over, XTurnType, XTurnRec, Codex!Statuses
  <2>3. CASE Codex!Goes("approves")
    BY <2>3 DEF Codex!Goes, XTurnType, XTurnRec
  <2> QED BY <2>1, <2>2, <2>3 DEF XTurnType
<1>7. XFlagType'
  BY DEF Codex!StreamReads, Codex!Over, XFlagType
<1>8. XCountType'
  BY DEF Codex!StreamReads, XCountType
<1>9. XPastType'
  BY DEF Codex!StreamReads, XPastType
<1> QED BY <1>1, <1>2, <1>3, <1>4, <1>5, <1>6, <1>7, <1>8, <1>9

LEMMA XStreamReadsKeeps ==
    ASSUME XIInv, Codex!StreamReads
    PROVE  XKeeps'
<1> USE XBounds DEF XIInv, XKeeps
<1>0. XTypes
  OBVIOUS
<1>1. /\ xturn.pc = "streams" /\ xturn.first = Codex!None /\ queue # <<>> /\ queue' = Tail(queue)
      /\ UNCHANGED <<xcount, xpast>>
  BY DEF Codex!StreamReads
<1>2. UNCHANGED <<call, xsteer, halt>>
  BY DEF Codex!StreamReads, Codex!Over
<1>3. app'.stdin = app.stdin /\ app'.turn = app.turn /\ app'.state = app.state
  <2>1. app' = app \/ app' = Codex!Unasked(Head(queue).turn)
    BY DEF Codex!StreamReads
  <2> QED BY <1>0, <2>1 DEF Codex!Unasked, XTypes, XAppType, XApps
<1>4. /\ Head(queue) = queue[1] /\ 1 \in DOMAIN queue
      /\ \A i \in DOMAIN Tail(queue) : i + 1 \in DOMAIN queue /\ Tail(queue)[i] = queue[i + 1]
  BY <1>0, <1>1, TailIs DEF XTypes, XQueueType
<1>5. \/ UNCHANGED <<xturn, xconn, agent>>
      \/ xturn' = [xturn EXCEPT !.pc = "approves"] /\ UNCHANGED <<xconn, agent>>
      \/ Codex!Over("unknown")
      \/ \E e \in {"completed", "failed"} : queue[1].what = e /\ queue[1].turn = xturn.id /\ Codex!Over(e)
  BY <1>4 DEF Codex!StreamReads, Codex!Goes, Codex!IsOwn
<1>6. XStartsFresh' /\ XStartsDiffer' /\ (\A S : XRunsIn(S) => XRunsIn(S)') /\ (\A n : XRunless(n) => XRunless(n)')
  BY <1>1, <1>3, XSameKeeps
<1>7. XOutcomeInv'
  BY <1>1, <1>4 DEF XOutcomeInv
<1>8. xturn.id # 0 /\ xturn.id \in Codex!Turns /\ xconn.registered /\ xconn.active = xturn.id
  BY <1>0, <1>1 DEF XNumbers, XConnInv, XInTurn, XTypes, XTurnType, XTurnRec, Codex!Turns
<1>9. XReadsLast' /\ XReadInv'
  <2>1. xturn'.pc \notin {"drops", "rereads", "resumes"}
    BY <1>0, <1>1, <1>5 DEF Codex!Over, XTypes, XTurnType, XTurnRec
  <2>2. XReadsLast'
    BY <1>1, <1>3, <2>1 DEF XReadsLast, XUp
  <2>3. XReadInv'
    BY <1>1, <1>2, <2>1 DEF XReadInv
  <2> QED BY <2>2, <2>3
<1>10. CASE xturn'.pc \in {"streams", "approves"} /\ xturn'.id = xturn.id /\ xturn'.end = xturn.end
            /\ xturn'.first = xturn.first /\ UNCHANGED <<xconn, agent>>
  <2>1. XConnInv'
    BY <1>1, <1>2, <1>3, <1>8, <1>10 DEF XConnInv, XInTurn, XAsking
  <2>2. XNumbers'
    BY <1>1, <1>3, <1>8, <1>10, XOldNumbers
  <2>3. XStartInv'
    BY <1>1, <1>10 DEF XStartInv, Codex!None
  <2>4. XRunsInv'
    BY <1>1, <1>3, <1>6, <1>10 DEF XRunsInv, XUp
  <2> QED BY <1>6, <1>7, <1>9, <2>1, <2>2, <2>3, <2>4
<1>11. CASE \E e \in {"unknown", "completed", "failed"} : Codex!Over(e)
              /\ (e # "unknown" => xpast.ended[xturn.id] = e)
  <2>1. PICK e \in {"unknown", "completed", "failed"} : Codex!Over(e)
              /\ (e # "unknown" => xpast.ended[xturn.id] = e)
    BY <1>11
  <2>2. /\ xturn'.pc = "off" /\ xturn'.end = e /\ xturn'.id = xturn.id
        /\ xconn'.active = 0 /\ xconn'.registered = TRUE
        /\ agent' = IF e = "unknown" THEN "lost" ELSE "idle"
    BY <1>0, <1>8, <2>1 DEF Codex!Over
  <2>3. XConnInv'
    BY <2>2 DEF XConnInv, XInTurn, XAsking
  <2>4. XNumbers'
    BY <1>1, <1>3, <1>8, <2>1, <2>2 DEF XNumbers, XInTurn
  <2>5. XStartInv'
    BY <2>2 DEF XStartInv
  <2>6. XRunsInv'
    <3>1. XUp' => XRunsIn({0, xturn.id} \cup xpast.astray)'
      BY <1>1, <1>3, <1>6, <2>2 DEF XRunsInv, XUp
    <3>2. ASSUME XUp, agent' = "idle"
          PROVE  XRunsIn({0} \cup xpast.astray)'
      <4>1. xpast.ended[xturn.id] # Codex!None
        BY <2>1, <2>2, <3>2 DEF Codex!None
      <4>2. app.turn # xturn.id
        BY <4>1, <1>8 DEF XNumbers
      <4>3. \A i \in DOMAIN app.stdin : app.stdin[i].kind = "start" => app.stdin[i].turn # xturn.id
        BY <4>1 DEF XStartsFresh
      <4>4. XRunsIn({0, xturn.id} \cup xpast.astray)
        BY <3>2 DEF XRunsInv
      <4>5. XRunsIn({0} \cup xpast.astray)
        BY <4>2, <4>3, <4>4 DEF XRunsIn, XStartsIn
      <4> QED BY <1>1, <1>6, <4>5
    <3> QED BY <1>1, <1>3, <2>2, <3>1, <3>2 DEF XRunsInv, XUp
  <2> QED BY <1>6, <1>7, <1>9, <2>3, <2>4, <2>5, <2>6
<1>12. ASSUME queue[1].what \in {"completed", "failed"}, queue[1].turn = xturn.id
       PROVE  xpast.ended[xturn.id] = queue[1].what
  BY <1>4, <1>12 DEF XOutcomeInv, XEnded
<1> QED
  <2>1. CASE UNCHANGED <<xturn, xconn, agent>>
    BY <1>1, <1>10, <2>1
  <2>2. CASE xturn' = [xturn EXCEPT !.pc = "approves"] /\ UNCHANGED <<xconn, agent>>
    BY <1>0, <1>10, <2>2 DEF XTypes, XTurnType, XTurnRec
  <2> QED BY <1>5, <1>11, <1>12, <2>1, <2>2

LEMMA XApprovesTypes ==
    ASSUME XTypes, Codex!Approves
    PROVE  XTypes'
<1> USE XBounds DEF XTypes
<1>1. XAppType'
  BY DEF Codex!Approves, Codex!Unasked, XAppType, XApps
<1>2. XQueueType'
  BY DEF Codex!Approves, XQueueType
<1>3. XCallType'
  BY DEF Codex!Approves, XCallType
<1>4. XSteerType'
  BY DEF Codex!Approves, XSteerType
<1>5. XConnType'
  BY DEF Codex!Approves, XConnType
<1>6. XTurnType'
  BY DEF Codex!Approves, Codex!Goes, XTurnType, XTurnRec
<1>7. XFlagType'
  BY DEF Codex!Approves, XFlagType
<1>8. XCountType'
  BY DEF Codex!Approves, XCountType
<1>9. XPastType'
  BY DEF Codex!Approves, XPastType
<1> QED BY <1>1, <1>2, <1>3, <1>4, <1>5, <1>6, <1>7, <1>8, <1>9

LEMMA XApprovesKeeps ==
    ASSUME XIInv, Codex!Approves
    PROVE  XKeeps'
<1> USE XBounds DEF XIInv, XKeeps, XTypes
<1>1. XConnInv'
  BY DEF Codex!Approves, Codex!Goes, XConnInv, XInTurn, XAsking
<1>2. XStartsFresh'
  BY DEF Codex!Approves, Codex!Unasked, XStartsFresh
<1>3. XStartsDiffer'
  BY DEF Codex!Approves, Codex!Unasked, XStartsDiffer
<1>4. XReadsLast'
  BY DEF Codex!Approves, Codex!Unasked, Codex!Goes, XReadsLast, XUp
<1>5. XNumbers'
  BY DEF Codex!Approves, Codex!Unasked, Codex!Goes, XNumbers, XInTurn
<1>6. XOutcomeInv'
  BY DEF Codex!Approves, XOutcomeInv
<1>7. XRunsInv'
  BY DEF Codex!Approves, Codex!Unasked, Codex!Goes, XRunsInv, XUp, XRunsIn, XStartsIn
<1>8. XStartInv'
  <2>1. app'.stdin = app.stdin /\ app'.turn = app.turn /\ xturn.pc = "approves" /\ xturn'.pc = "streams"
        /\ xturn'.first = xturn.first
    BY DEF Codex!Approves, Codex!Unasked, Codex!Goes
  <2> QED BY <2>1 DEF XStartInv, XConnInv, Codex!None
<1>9. XReadInv'
  BY DEF Codex!Approves, Codex!Goes, XReadInv
<1> QED BY <1>1, <1>2, <1>3, <1>4, <1>5, <1>6, <1>7, <1>8, <1>9

LEMMA XApprovalFailsTypes ==
    ASSUME XTypes, Codex!ApprovalFails
    PROVE  XTypes'
<1> USE XBounds DEF XTypes
<1>1. XAppType'
  BY DEF Codex!ApprovalFails, Codex!Unasked, XAppType, XApps
<1>2. XQueueType'
  BY DEF Codex!ApprovalFails, XQueueType
<1>3. XCallType'
  BY DEF Codex!ApprovalFails, Codex!Over, XCallType
<1>4. XSteerType'
  BY DEF Codex!ApprovalFails, Codex!Over, XSteerType
<1>5. XConnType'
  BY DEF Codex!ApprovalFails, Codex!Over, XConnType
<1>6. XTurnType'
  BY DEF Codex!ApprovalFails, Codex!Over, XTurnType, XTurnRec
<1>7. XFlagType'
  BY DEF Codex!ApprovalFails, Codex!Over, XFlagType
<1>8. XCountType'
  BY DEF Codex!ApprovalFails, Codex!Upset, Codex!Counted, XCountType
<1>9. XPastType'
  BY DEF Codex!ApprovalFails, XPastType
<1> QED BY <1>1, <1>2, <1>3, <1>4, <1>5, <1>6, <1>7, <1>8, <1>9

LEMMA XApprovalFailsKeeps ==
    ASSUME XIInv, Codex!ApprovalFails
    PROVE  XKeeps'
<1> USE XBounds DEF XIInv, XKeeps, XTypes
<1>1. XConnInv'
  BY DEF Codex!ApprovalFails, Codex!Over, XConnInv, XInTurn, XAsking
<1>2. XStartsFresh'
  BY DEF Codex!ApprovalFails, Codex!Unasked, Codex!Upset, Codex!Counted, XStartsFresh, XCountType
<1>3. XStartsDiffer'
  BY DEF Codex!ApprovalFails, Codex!Unasked, Codex!Over, Codex!Upset, Codex!Counted, Codex!Running,
  XStartsDiffer, XStartsFresh, XAppType, XCountType, XApps, XReqs, Codex!None
<1>4. XReadsLast'
  BY DEF Codex!ApprovalFails, Codex!Unasked, Codex!Over, XReadsLast, XUp
<1>5. XNumbers'
  BY DEF Codex!ApprovalFails, Codex!Unasked, Codex!Over, Codex!Upset, Codex!Counted, XNumbers, XInTurn,
  XCountType
<1>6. XOutcomeInv'
  BY DEF Codex!ApprovalFails, XOutcomeInv
<1>7. XRunsInv'
  BY DEF Codex!ApprovalFails, Codex!Unasked, Codex!Over, XRunsInv, XUp, XRunsIn, XStartsIn
<1>8. XStartInv'
  BY DEF Codex!ApprovalFails, Codex!Over, XStartInv
<1>9. XReadInv'
  BY DEF Codex!ApprovalFails, Codex!Over, XReadInv
<1> QED BY <1>1, <1>2, <1>3, <1>4, <1>5, <1>6, <1>7, <1>8, <1>9

LEMMA XStreamCutTypes ==
    ASSUME XTypes, Codex!StreamCut
    PROVE  XTypes'
<1> USE XBounds DEF XTypes
<1>1. XAppType'
  BY DEF Codex!StreamCut, XAppType
<1>2. XQueueType'
  BY DEF Codex!StreamCut, XQueueType
<1>3. XCallType'
  BY DEF Codex!StreamCut, Codex!Over, XCallType
<1>4. XSteerType'
  BY DEF Codex!StreamCut, Codex!Over, XSteerType
<1>5. XConnType'
  BY DEF Codex!StreamCut, Codex!Over, XConnType
<1>6. XTurnType'
  BY DEF Codex!StreamCut, Codex!Over, XTurnType, XTurnRec
<1>7. XFlagType'
  BY DEF Codex!StreamCut, Codex!Over, XFlagType
<1>8. XCountType'
  BY DEF Codex!StreamCut, Codex!Upset, Codex!Counted, XCountType
<1>9. XPastType'
  BY DEF Codex!StreamCut, XPastType, XTurnType, XTurnRec
<1> QED BY <1>1, <1>2, <1>3, <1>4, <1>5, <1>6, <1>7, <1>8, <1>9

LEMMA XStreamCutKeeps ==
    ASSUME XIInv, Codex!StreamCut
    PROVE  XKeeps'
<1> USE XBounds DEF XIInv, XKeeps, XTypes
<1>1. XConnInv'
  BY DEF Codex!StreamCut, Codex!Over, XConnInv, XInTurn, XAsking
<1>2. XStartsFresh'
  BY DEF Codex!StreamCut, Codex!Upset, Codex!Counted, XStartsFresh
<1>3. XStartsDiffer'
  <2>1. UNCHANGED <<app>>
    BY DEF Codex!StreamCut
  <2> QED BY <2>1 DEF XStartsDiffer
<1>4. XReadsLast'
  BY DEF Codex!StreamCut, Codex!Over, XReadsLast, XUp
<1>5. XNumbers'
  BY DEF Codex!StreamCut, Codex!Over, Codex!Upset, Codex!Counted, XNumbers, XInTurn
<1>6. XOutcomeInv'
  BY DEF Codex!StreamCut, XOutcomeInv
<1>7. XRunsInv'
  BY DEF Codex!StreamCut, XRunsInv, XUp, XRunsIn, XStartsIn
<1>8. XStartInv'
  BY DEF Codex!StreamCut, Codex!Over, XStartInv
<1>9. XReadInv'
  BY DEF Codex!StreamCut, Codex!Over, XReadInv
<1> QED BY <1>1, <1>2, <1>3, <1>4, <1>5, <1>6, <1>7, <1>8, <1>9

LEMMA XSteerStartsTypes ==
    ASSUME XTypes, Codex!SteerStarts
    PROVE  XTypes'
<1> USE XBounds DEF XTypes
<1>1. XAppType'
  <2>1. Codex!Request("steer", xturn.id) \in XReqs
    BY XAppsAre DEF XTurnType, XTurnRec
  <2> QED BY <2>1, XSendsIs DEF Codex!SteerStarts, XAppType
<1>2. XQueueType'
  BY DEF Codex!SteerStarts, XQueueType
<1>3. XCallType'
  BY DEF Codex!SteerStarts, XCallType
<1>4. XSteerType'
  BY DEF Codex!SteerStarts, XSteerType, XTurnType, Codex!Calls, XTurnRec
<1>5. XConnType'
  BY DEF Codex!SteerStarts, XConnType
<1>6. XTurnType'
  BY DEF Codex!SteerStarts, XTurnType
<1>7. XFlagType'
  BY DEF Codex!SteerStarts, XFlagType
<1>8. XCountType'
  BY DEF Codex!SteerStarts, Codex!Counted, XCountType
<1>9. XPastType'
  BY DEF Codex!SteerStarts, XPastType
<1> QED BY <1>1, <1>2, <1>3, <1>4, <1>5, <1>6, <1>7, <1>8, <1>9

LEMMA XSteerStartsKeeps ==
    ASSUME XIInv, Codex!SteerStarts
    PROVE  XKeeps'
<1> USE XBounds DEF XIInv, XKeeps, XTypes
<1>1. XConnInv'
  BY DEF Codex!SteerStarts, XConnInv, XInTurn, XAsking
<1>2. XStartsFresh'
  <2>1. xturn.id \in 0 .. MaxTurns /\ app' = [app EXCEPT !.stdin = Append(@, Codex!Request("steer", xturn.id))]
        /\ xpast' = xpast
    BY DEF Codex!SteerStarts, XTurnType, XTurnRec
  <2>2. xcount'["turns"] = xcount["turns"]
    BY DEF Codex!SteerStarts, Codex!Counted, XCountType
  <2> QED BY <2>1, <2>2, XSentKeeps
<1>3. XStartsDiffer'
  <2>1. xturn.id \in 0 .. MaxTurns /\ app' = [app EXCEPT !.stdin = Append(@, Codex!Request("steer", xturn.id))]
        /\ xpast' = xpast
    BY DEF Codex!SteerStarts, XTurnType, XTurnRec
  <2>2. xcount'["turns"] = xcount["turns"]
    BY DEF Codex!SteerStarts, Codex!Counted, XCountType
  <2> QED BY <2>1, <2>2, XSentKeeps
<1>4. XReadsLast'
  <2>1. xturn.pc \in {"streams", "approves"} /\ UNCHANGED <<xturn, call>> /\ app'.state = app.state
    BY DEF Codex!SteerStarts, XAppType, XApps
  <2>2. app'.stdin = Append(app.stdin, Codex!Request("steer", xturn.id)) /\ app.stdin \in Seq(XReqs)
    BY DEF Codex!SteerStarts, XAppType, XApps
  <2>3. \A i \in DOMAIN app'.stdin : \/ i \in DOMAIN app.stdin /\ app'.stdin[i] = app.stdin[i]
                                     \/ app'.stdin[i].kind = "steer"
    BY <2>2, AppendIs DEF Codex!Request
  <2>4. XUp' => \A i \in DOMAIN app'.stdin : app'.stdin[i].kind # "read"
    BY <2>1, <2>3 DEF XReadsLast, XUp
  <2>5. \A i \in DOMAIN app'.stdin : app'.stdin[i].kind \in {"read", "resume"} => app'.stdin[i].turn = 0
    BY <2>3 DEF XReadsLast
  <2> QED BY <2>1, <2>4, <2>5 DEF XReadsLast
<1>5. XNumbers'
  BY DEF Codex!SteerStarts, Codex!Counted, XNumbers, XInTurn
<1>6. XOutcomeInv'
  BY DEF Codex!SteerStarts, XOutcomeInv
<1>7. XRunsInv'
  BY DEF Codex!SteerStarts, Codex!Request, XRunsInv, XUp, XRunsIn, XStartsIn
<1>8. XStartInv'
  BY DEF Codex!SteerStarts, Codex!Request, XStartInv, XRunless
<1>9. XReadInv'
  BY DEF Codex!SteerStarts, XReadInv
<1> QED BY <1>1, <1>2, <1>3, <1>4, <1>5, <1>6, <1>7, <1>8, <1>9

LEMMA XSteerEndsTypes ==
    ASSUME XTypes, Codex!SteerEnds
    PROVE  XTypes'
<1> USE XBounds DEF XTypes
<1>1. XAppType'
  BY DEF Codex!SteerEnds, XAppType
<1>2. XQueueType'
  BY DEF Codex!SteerEnds, XQueueType
<1>3. XCallType'
  BY DEF Codex!SteerEnds, XCallType
<1>4. XSteerType'
  BY DEF Codex!SteerEnds, Codex!NoCall, XSteerType, Codex!Answers, Codex!Calls
<1>5. XConnType'
  BY DEF Codex!SteerEnds, XConnType
<1>6. XTurnType'
  BY DEF Codex!SteerEnds, XTurnType
<1>7. XFlagType'
  BY DEF Codex!SteerEnds, XFlagType
<1>8. XCountType'
  BY DEF Codex!SteerEnds, Codex!Upset, Codex!Counted, XCountType
<1>9. XPastType'
  BY DEF Codex!SteerEnds, XPastType
<1> QED BY <1>1, <1>2, <1>3, <1>4, <1>5, <1>6, <1>7, <1>8, <1>9

LEMMA XSteerEndsKeeps ==
    ASSUME XIInv, Codex!SteerEnds
    PROVE  XKeeps'
<1> USE XBounds DEF XIInv, XKeeps, XTypes
<1>1. XConnInv'
  BY DEF Codex!SteerEnds, XConnInv, XInTurn, XAsking, XUp
<1>2. XStartsFresh'
  BY DEF Codex!SteerEnds, Codex!Upset, Codex!Counted, XStartsFresh, XCountType
<1>3. XStartsDiffer'
  BY DEF Codex!SteerEnds, XStartsDiffer
<1>4. XReadsLast'
  BY DEF Codex!SteerEnds, XReadsLast, XUp
<1>5. XNumbers'
  BY DEF Codex!SteerEnds, Codex!Upset, Codex!Counted, XNumbers, XInTurn, XCountType
<1>6. XOutcomeInv'
  BY DEF Codex!SteerEnds, XOutcomeInv
<1>7. XRunsInv'
  BY DEF Codex!SteerEnds, XRunsInv, XUp, XRunsIn, XStartsIn
<1>8. XStartInv'
  BY DEF Codex!SteerEnds, XStartInv, XRunless
<1>9. XReadInv'
  BY DEF Codex!SteerEnds, XReadInv, XUp, XStartsIn
<1> QED BY <1>1, <1>2, <1>3, <1>4, <1>5, <1>6, <1>7, <1>8, <1>9

LEMMA XReconcilesTypes ==
    ASSUME XTypes, Codex!Reconciles
    PROVE  XTypes'
<1> USE XBounds DEF XTypes
<1>1. XAppType'
  <2>1. Codex!Request("read", 0) \in XReqs /\ Codex!Request("resume", 0) \in XReqs
    BY XAppsAre
  <2> QED BY <2>1, XSendsIs DEF Codex!Reconciles, Codex!Sends, XAppType
<1>2. XQueueType'
  BY DEF Codex!Reconciles, XQueueType
<1>3. XCallType'
  <2>1. 0 \in 0 .. MaxTurns
    OBVIOUS
  <2> QED BY <2>1, XAppsAre DEF Codex!Reconciles, Codex!Sends, XCallType, Codex!Calls
<1>4. XSteerType'
  BY DEF Codex!Reconciles, XSteerType
<1>5. XConnType'
  BY DEF Codex!Reconciles, XConnType
<1>6. XTurnType'
  <2>1. xturn \in XTurnRec /\ 0 \in 0 .. 1
    BY DEF XTurnType
  <2>2. CASE xturn' = [xturn EXCEPT !.pc = "rereads", !.attempt = 0]
    BY <2>1, <2>2, XTurnIs DEF XTurnType
  <2>3. CASE xturn' = [xturn EXCEPT !.pc = "drops", !.attempt = 0, !.then = "reopen"]
    BY <2>1, <2>3, XTurnIs DEF XTurnType
  <2>4. CASE xturn' = [xturn EXCEPT !.pc = "opens", !.attempt = 0, !.then = "reopen"]
    BY <2>1, <2>4, XTurnIs DEF XTurnType
  <2> QED BY <2>2, <2>3, <2>4 DEF Codex!Reconciles
<1>7. XFlagType'
  BY DEF Codex!Reconciles, XFlagType
<1>8. XCountType'
  BY DEF Codex!Reconciles, XCountType
<1>9. XPastType'
  BY DEF Codex!Reconciles, XPastType
<1> QED BY <1>1, <1>2, <1>3, <1>4, <1>5, <1>6, <1>7, <1>8, <1>9

LEMMA XReconcilesKeeps ==
    ASSUME XIInv, Codex!Reconciles
    PROVE  XKeeps'
<1> USE XBounds DEF XIInv, XKeeps
<1>0. XTypes /\ 0 \in 0 .. MaxTurns
  OBVIOUS
<1>1. /\ xturn.pc = "off" /\ UNCHANGED <<queue, xsteer, agent, halt, xcount, xpast>>
      /\ xconn'.registered = FALSE /\ xconn'.active = xconn.active
  BY <1>0 DEF Codex!Reconciles, XTypes, XConnType
<1>2. \/ /\ app' = [app EXCEPT !.stdin = Append(@, Codex!Request("read", 0))]
         /\ call' = [Codex!NoCall EXCEPT !.kind = "read", !.turn = 0]
         /\ xturn' = [xturn EXCEPT !.pc = "rereads", !.attempt = 0]
      \/ /\ UNCHANGED <<app, call>>
         /\ xturn' = [xturn EXCEPT !.pc = IF xconn.registered THEN "drops" ELSE "opens",
                                    !.attempt = 0, !.then = "reopen"]
  BY DEF Codex!Reconciles, Codex!Sends
<1>3. /\ xturn'.id = xturn.id /\ xturn'.end = xturn.end
      /\ xturn'.pc \in {"rereads", "drops", "opens"} /\ (xturn'.pc = "opens" => ~ xconn.registered)
  BY <1>0, <1>2 DEF XTypes, XTurnType, XTurnRec, XConnType
<1>4. CASE app' = [app EXCEPT !.stdin = Append(@, Codex!Request("read", 0))]
           /\ call' = [Codex!NoCall EXCEPT !.kind = "read", !.turn = 0]
           /\ xturn' = [xturn EXCEPT !.pc = "rereads", !.attempt = 0]
  <2>1. /\ app'.state = app.state /\ app'.turn = app.turn
        /\ DOMAIN app.stdin = 1 .. Len(app.stdin) /\ Len(app.stdin) \in Nat
        /\ Len(app'.stdin) = Len(app.stdin) + 1
        /\ DOMAIN app'.stdin = 1 .. Len(app.stdin) + 1
        /\ \A i \in DOMAIN app'.stdin :
              \/ i \in DOMAIN app.stdin /\ app'.stdin[i] = app.stdin[i]
              \/ i = Len(app.stdin) + 1 /\ app'.stdin[i].kind = "read" /\ app'.stdin[i].turn = 0
        /\ app'.stdin[Len(app.stdin) + 1].kind = "read"
    BY <1>0, <1>4, XSentIs DEF XTypes
  <2>2. /\ XStartsFresh => XStartsFresh'
        /\ XStartsDiffer => XStartsDiffer'
        /\ \A S : XRunsIn(S) => XRunsIn(S)'
    BY <1>0, <1>1, <1>4, XSentKeeps DEF XTypes
  <2>3. xturn'.pc = "rereads" /\ call'.kind = "read" /\ call'.turn = 0 /\ call'.answer = Codex!None
    BY <1>0, <1>4 DEF Codex!NoCall
  <2>4. XConnInv'
    BY <1>1, <2>3, <2>1 DEF XConnInv, XInTurn
  <2>5. XReadsLast'
    <3>1. app'.stdin # <<>>
      BY <2>1
    <3>2. XUp => \A i \in DOMAIN app.stdin : app.stdin[i].kind # "read"
      BY <1>1 DEF XReadsLast
    <3>3. \A i \in DOMAIN app'.stdin : app'.stdin[i].kind \in {"read", "resume"} => app'.stdin[i].turn = 0
      BY <2>1 DEF XReadsLast
    <3> QED BY <2>1, <2>3, <3>1, <3>2, <3>3 DEF XReadsLast, XUp
  <2>6. XNumbers'
    BY <1>1, <1>3, <2>1, XOldNumbers DEF XInTurn
  <2>7. XOutcomeInv'
    BY <1>1 DEF XOutcomeInv
  <2>8. XStartInv' /\ XReadInv'
    BY <2>3 DEF XStartInv, XReadInv, Codex!None
  <2>9. XRunsInv'
    BY <1>1, <1>3, <2>1, <2>2, <2>3 DEF XRunsInv, XUp
  <2> QED BY <2>2, <2>4, <2>5, <2>6, <2>7, <2>8, <2>9
<1>5. CASE UNCHANGED <<app, call>> /\ xturn'.pc \in {"drops", "opens"}
  <2>1. XStartsFresh' /\ XStartsDiffer' /\ \A S : XRunsIn(S) => XRunsIn(S)'
    BY <1>1, <1>5, XSameKeeps
  <2>2. XConnInv'
    BY <1>1, <1>3, <1>5 DEF XConnInv, XInTurn, XUp
  <2>3. XReadsLast'
    BY <1>1, <1>5 DEF XReadsLast, XUp
  <2>4. XNumbers'
    BY <1>1, <1>3, <1>5, XOldNumbers DEF XInTurn
  <2>5. XOutcomeInv'
    BY <1>1 DEF XOutcomeInv
  <2>6. XStartInv' /\ XReadInv'
    BY <1>1, <1>5 DEF XStartInv, XReadInv
  <2>7. XRunsInv'
    BY <1>1, <1>3, <1>5, <2>1 DEF XRunsInv, XUp
  <2> QED BY <2>1, <2>2, <2>3, <2>4, <2>5, <2>6, <2>7
<1>6. xturn' = [xturn EXCEPT !.pc = IF xconn.registered THEN "drops" ELSE "opens",
                           !.attempt = 0, !.then = "reopen"] => xturn'.pc \in {"drops", "opens"}
  BY <1>0 DEF XTypes, XTurnType, XTurnRec
<1> QED BY <1>2, <1>4, <1>5, <1>6

LEMMA XRereadsTypes ==
    ASSUME XTypes, Codex!Rereads
    PROVE  XTypes'
<1> USE XBounds DEF XTypes
<1>1. XAppType'
  <2>1. Codex!Request("read", 0) \in XReqs /\ Codex!Request("resume", 0) \in XReqs
    BY XAppsAre
  <2> QED BY <2>1, XSendsIs DEF Codex!Rereads, Codex!Sends, XAppType
<1>2. XQueueType'
  BY DEF Codex!Rereads, XQueueType
<1>3. XCallType'
  <2>1. 0 \in 0 .. MaxTurns
    OBVIOUS
  <2> QED BY <2>1, XAppsAre DEF Codex!Rereads, Codex!Sends, XCallType, Codex!Calls
<1>4. XSteerType'
  BY DEF Codex!Rereads, XSteerType
<1>5. XConnType'
  <2>1. CASE UNCHANGED xconn
    BY <2>1 DEF XConnType
  <2>2. CASE xconn' = [registered |-> TRUE, active |-> xturn.id]
    <3>1. xturn.id \in 0 .. MaxTurns
      BY DEF XTurnType, XTurnRec
    <3> QED BY <2>2, <3>1 DEF XConnType
  <2> QED BY <2>1, <2>2 DEF Codex!Rereads
<1>6. XTurnType'
  <2>1. \/ Codex!Goes("resumes") \/ Codex!Drops(Codex!None)
        \/ xturn' = [xturn EXCEPT !.pc = "streams", !.first = Codex!None, !.lost = FALSE, !.end = Codex!None]
    BY DEF Codex!Rereads
  <2>2. CASE Codex!Goes("resumes")
    BY <2>2 DEF Codex!Goes, XTurnType, XTurnRec
  <2>3. CASE Codex!Drops(Codex!None)
    BY <2>3 DEF Codex!Drops, XTurnType, XTurnRec
  <2>4. CASE xturn' = [xturn EXCEPT !.pc = "streams", !.first = Codex!None, !.lost = FALSE, !.end = Codex!None]
    BY <2>4 DEF XTurnType, XTurnRec, Codex!Statuses
  <2> QED BY <2>1, <2>2, <2>3, <2>4
<1>7. XFlagType'
  BY DEF Codex!Rereads, XFlagType
<1>8. XCountType'
  BY DEF Codex!Rereads, XCountType
<1>9. XPastType'
  BY DEF Codex!Rereads, XPastType
<1> QED BY <1>1, <1>2, <1>3, <1>4, <1>5, <1>6, <1>7, <1>8, <1>9

LEMMA XRereadsKeeps ==
    ASSUME XIInv, Codex!Rereads
    PROVE  XKeeps'
<1> USE XBounds DEF XIInv, XKeeps
<1>0. XTypes /\ 0 \in 0 .. MaxTurns
  OBVIOUS
<1>1. xturn.pc = "rereads" /\ call.answer = "ok" /\ UNCHANGED <<queue, xsteer, halt, xcount, xpast>>
  BY DEF Codex!Rereads
<1>2. XUp => /\ \A i \in DOMAIN app.stdin : app.stdin[i].kind # "read"
             /\ XStartsIn({}) /\ app.turn \in {0, call.turn}
  BY <1>1 DEF XReadsLast, XReadInv, Codex!None
<1>3. XOutcomeInv'
  BY <1>1 DEF XOutcomeInv
<1>4. ~ xconn.registered /\ xconn.active = 0
  BY <1>1 DEF XConnInv, XInTurn, XAsking
<1>5. CASE /\ call.turn = 0 /\ app' = [app EXCEPT !.stdin = Append(@, Codex!Request("resume", 0))]
           /\ call' = [Codex!NoCall EXCEPT !.kind = "resume", !.turn = 0]
           /\ xturn' = [xturn EXCEPT !.pc = "resumes"] /\ UNCHANGED <<xconn, agent>>
  <2>1. /\ app'.state = app.state /\ app'.turn = app.turn
        /\ \A i \in DOMAIN app'.stdin :
              \/ i \in DOMAIN app.stdin /\ app'.stdin[i] = app.stdin[i]
              \/ app'.stdin[i].kind = "resume" /\ app'.stdin[i].turn = 0
    BY <1>0, <1>5, XSentIs DEF XTypes
  <2>2. /\ XStartsFresh => XStartsFresh'
        /\ XStartsDiffer => XStartsDiffer'
        /\ \A S : (XStartsIn(S) => XStartsIn(S)') /\ (XRunsIn(S) => XRunsIn(S)')
    BY <1>0, <1>1, <1>5, XSentKeeps DEF XTypes
  <2>3. /\ xturn'.pc = "resumes" /\ xturn'.id = xturn.id /\ xturn'.end = xturn.end
        /\ call'.kind = "resume" /\ call'.turn = 0 /\ call'.answer = Codex!None
    BY <1>0, <1>5 DEF Codex!NoCall
  <2>4. XConnInv'
    BY <1>4, <1>5, <2>3, <2>1 DEF XConnInv, XInTurn
  <2>5. XReadsLast'
    BY <1>2, <2>1, <2>3 DEF XReadsLast, XUp
  <2>6. XNumbers'
    BY <1>1, <2>1, <2>3, XOldNumbers DEF XInTurn
  <2>7. XStartInv' /\ XReadInv'
    <3>1. XUp' => XStartsIn({})' /\ app'.turn = 0
      BY <1>2, <1>5, <2>1, <2>2 DEF XUp
    <3> QED BY <2>3, <3>1 DEF XStartInv, XReadInv
  <2>8. XRunsInv'
    BY <1>1, <2>1, <2>2, <2>3 DEF XRunsInv, XUp
  <2> QED BY <1>3, <2>2, <2>4, <2>5, <2>6, <2>7, <2>8
<1>6. CASE /\ call.turn # 0 /\ call.turn = xturn.id /\ agent' = "idle" /\ call' = Codex!NoCall /\ UNCHANGED app
           /\ xturn' = [xturn EXCEPT !.pc = "streams", !.first = Codex!None, !.lost = FALSE, !.end = Codex!None]
           /\ xconn' = [registered |-> TRUE, active |-> xturn.id]
  <2>1. XStartsFresh' /\ XStartsDiffer' /\ \A S : XRunsIn(S) => XRunsIn(S)'
    BY <1>1, <1>6, XSameKeeps
  <2>2. /\ xturn'.pc = "streams" /\ xturn'.id = xturn.id /\ xturn'.end = Codex!None /\ xturn'.first = Codex!None
        /\ call'.kind = Codex!None
    BY <1>0, <1>6 DEF Codex!NoCall
  <2>3. XConnInv'
    BY <1>6, <2>2 DEF XConnInv, XInTurn, XAsking
  <2>4. XReadsLast'
    BY <1>2, <1>6, <2>2 DEF XReadsLast, XUp
  <2>5. XNumbers'
    BY <1>1, <1>6, <2>2 DEF XNumbers, XInTurn, Codex!None
  <2>6. XStartInv' /\ XReadInv'
    BY <2>2 DEF XStartInv, XReadInv, Codex!None
  <2>7. XRunsInv'
    BY <1>6, <2>1, <2>2, <1>1 DEF XRunsInv, XUp
  <2> QED BY <1>3, <2>1, <2>3, <2>4, <2>5, <2>6, <2>7
<1>7. CASE /\ xturn' = [xturn EXCEPT !.pc = "drops", !.then = Codex!None] /\ call' = Codex!NoCall
           /\ UNCHANGED <<app, xconn, agent>>
  <2>1. XStartsFresh' /\ XStartsDiffer' /\ \A S : XRunsIn(S) => XRunsIn(S)'
    BY <1>1, <1>7, XSameKeeps
  <2>2. xturn'.pc = "drops" /\ xturn'.id = xturn.id /\ xturn'.end = xturn.end /\ call'.kind = Codex!None
    BY <1>0, <1>7 DEF Codex!NoCall
  <2>3. XConnInv'
    BY <1>4, <1>7, <2>2 DEF XConnInv, XInTurn, XAsking
  <2>4. XReadsLast'
    BY <1>2, <1>7, <2>2 DEF XReadsLast, XUp
  <2>5. XNumbers'
    BY <1>1, <1>7, <2>2, XOldNumbers DEF XInTurn
  <2>6. XStartInv' /\ XReadInv'
    BY <2>2 DEF XStartInv, XReadInv, Codex!None
  <2>7. XRunsInv'
    BY <1>7, <2>1, <2>2, <1>1 DEF XRunsInv, XUp
  <2> QED BY <1>3, <2>1, <2>3, <2>4, <2>5, <2>6, <2>7
<1> QED BY <1>5, <1>6, <1>7 DEF Codex!Rereads, Codex!Sends, Codex!Goes, Codex!Drops

LEMMA XResumesTypes ==
    ASSUME XTypes, Codex!Resumes
    PROVE  XTypes'
<1> USE XBounds DEF XTypes
<1>1. XAppType'
  BY DEF Codex!Resumes, XAppType
<1>2. XQueueType'
  BY DEF Codex!Resumes, XQueueType
<1>3. XCallType'
  BY DEF Codex!Resumes, Codex!NoCall, XCallType, Codex!Answers, Codex!Calls
<1>4. XSteerType'
  BY DEF Codex!Resumes, XSteerType
<1>5. XConnType'
  BY DEF Codex!Resumes, Codex!Registered, XConnType
<1>6. XTurnType'
  BY DEF Codex!Resumes, Codex!Registered, Codex!Goes, XTurnType, XTurnRec
<1>7. XFlagType'
  BY DEF Codex!Resumes, Codex!Registered, XFlagType
<1>8. XCountType'
  BY DEF Codex!Resumes, XCountType
<1>9. XPastType'
  BY DEF Codex!Resumes, XPastType
<1> QED BY <1>1, <1>2, <1>3, <1>4, <1>5, <1>6, <1>7, <1>8, <1>9

LEMMA XResumesKeeps ==
    ASSUME XIInv, Codex!Resumes
    PROVE  XKeeps'
<1> USE XBounds DEF XIInv, XKeeps, XTypes
<1>1. XConnInv'
  BY DEF Codex!Resumes, Codex!Registered, Codex!Goes, XConnInv, XInTurn, XAsking
<1>2. XStartsFresh'
  BY DEF Codex!Resumes, XStartsFresh
<1>3. XStartsDiffer'
  BY DEF Codex!Resumes, Codex!NoCall, Codex!Registered, Codex!Goes, XStartsDiffer, XStartsFresh, XAppType,
  XCountType, XApps, XReqs, Codex!None
<1>4. XReadsLast'
  BY DEF Codex!Resumes, Codex!Registered, Codex!Goes, XReadsLast, XUp
<1>5. XNumbers'
  BY DEF Codex!Resumes, Codex!Registered, Codex!Goes, XNumbers, XInTurn
<1>6. XOutcomeInv'
  BY DEF Codex!Resumes, XOutcomeInv
<1>7. XRunsInv'
  BY DEF Codex!Resumes, XRunsInv, XUp, XRunsIn, XStartsIn, XReadInv
<1>8. XStartInv'
  BY DEF Codex!Resumes, Codex!Registered, Codex!Goes, XStartInv
<1>9. XReadInv'
  BY DEF Codex!Resumes, Codex!NoCall, Codex!Registered, Codex!Goes, XReadInv, Codex!None
<1> QED BY <1>1, <1>2, <1>3, <1>4, <1>5, <1>6, <1>7, <1>8, <1>9

LEMMA XReconcileFailsTypes ==
    ASSUME XTypes, Codex!ReconcileFails
    PROVE  XTypes'
<1> USE XBounds DEF XTypes
<1>1. XAppType'
  BY DEF Codex!ReconcileFails, XAppType
<1>2. XQueueType'
  BY DEF Codex!ReconcileFails, XQueueType
<1>3. XCallType'
  BY DEF Codex!ReconcileFails, Codex!NoCall, XCallType, Codex!Answers, Codex!Calls
<1>4. XSteerType'
  BY DEF Codex!ReconcileFails, XSteerType
<1>5. XConnType'
  BY DEF Codex!ReconcileFails, XConnType
<1>6. XTurnType'
  <2>1. PICK e \in {Codex!None, "reopen"} : xturn' = [xturn EXCEPT !.pc = "drops", !.attempt = 1, !.then = e]
    BY DEF Codex!ReconcileFails
  <2>2. xturn \in XTurnRec /\ 1 \in 0 .. 1
    BY DEF XTurnType
  <2> QED BY <2>1, <2>2, XTurnIs DEF XTurnType
<1>7. XFlagType'
  BY DEF Codex!ReconcileFails, XFlagType
<1>8. XCountType'
  BY DEF Codex!ReconcileFails, Codex!TimesOut, Codex!Upset, Codex!Counted, XCountType
<1>9. XPastType'
  BY DEF Codex!ReconcileFails, XPastType
<1> QED BY <1>1, <1>2, <1>3, <1>4, <1>5, <1>6, <1>7, <1>8, <1>9

LEMMA XReconcileFailsKeeps ==
    ASSUME XIInv, Codex!ReconcileFails
    PROVE  XKeeps'
<1> USE XBounds DEF XIInv, XKeeps, XTypes
<1>1. XConnInv'
  BY DEF Codex!ReconcileFails, XConnInv, XInTurn, XAsking
<1>2. XStartsFresh'
  BY DEF Codex!ReconcileFails, Codex!TimesOut, Codex!Upset, Codex!Counted, XStartsFresh, XCountType
<1>3. XStartsDiffer'
  BY DEF Codex!ReconcileFails, XStartsDiffer
<1>4. XReadsLast'
  BY DEF Codex!ReconcileFails, XReadsLast, XUp
<1>5. XNumbers'
  <2>1. /\ UNCHANGED <<app, xpast>> /\ xturn'.id = xturn.id /\ xturn'.end = xturn.end /\ xturn'.pc = "drops"
        /\ xcount'["turns"] = xcount["turns"]
    BY DEF Codex!ReconcileFails, Codex!TimesOut, Codex!Upset, Codex!Counted, XCountType
  <2> QED BY <2>1 DEF XNumbers, XInTurn
<1>6. XOutcomeInv'
  BY DEF Codex!ReconcileFails, XOutcomeInv
<1>7. XRunsInv'
  BY DEF Codex!ReconcileFails, XRunsInv, XUp, XRunsIn, XStartsIn
<1>8. XStartInv'
  BY DEF Codex!ReconcileFails, XStartInv
<1>9. XReadInv'
  BY DEF Codex!ReconcileFails, Codex!NoCall, XReadInv, Codex!None
<1> QED BY <1>1, <1>2, <1>3, <1>4, <1>5, <1>6, <1>7, <1>8, <1>9

LEMMA XDroppedTypes ==
    ASSUME XTypes, Codex!Dropped
    PROVE  XTypes'
<1> USE XBounds DEF XTypes
<1>1. XAppType'
  BY XAppsAre DEF Codex!Dropped, XAppType
<1>2. XQueueType'
  BY DEF Codex!Dropped, XQueueType
<1>3. XCallType'
  BY DEF Codex!Dropped, Codex!FailPending, XCallType, Codex!Answers, Codex!Calls
<1>4. XSteerType'
  BY DEF Codex!Dropped, Codex!FailPending, XSteerType, Codex!Answers, Codex!Calls
<1>5. XConnType'
  BY DEF Codex!Dropped, XConnType
<1>6. XTurnType'
  BY DEF Codex!Dropped, Codex!Goes, XTurnType, XTurnRec
<1>7. XFlagType'
  BY DEF Codex!Dropped, XFlagType
<1>8. XCountType'
  BY DEF Codex!Dropped, XCountType
<1>9. XPastType'
  BY DEF Codex!Dropped, XPastType
<1> QED BY <1>1, <1>2, <1>3, <1>4, <1>5, <1>6, <1>7, <1>8, <1>9

LEMMA XDroppedKeeps ==
    ASSUME XIInv, Codex!Dropped
    PROVE  XKeeps'
<1> USE XBounds DEF XIInv, XKeeps, XTypes
<1>1. XConnInv'
  BY DEF Codex!Dropped, Codex!NoApp, Codex!Goes, XConnInv, XInTurn, XUp, XTurnType, XTurnRec
<1>2. XStartsFresh'
  BY DEF Codex!Dropped, Codex!NoApp, Codex!NewApp, XStartsFresh
<1>3. XStartsDiffer'
  BY DEF Codex!Dropped, Codex!NoApp, Codex!NewApp, XStartsDiffer
<1>4. XReadsLast'
  BY DEF Codex!Dropped, Codex!NoApp, Codex!NewApp, XReadsLast, XUp
<1>5. XNumbers'
  BY DEF Codex!Dropped, Codex!NoApp, Codex!NewApp, Codex!Goes, XNumbers, XInTurn, XCountType, XTurnType,
  XTurnRec
<1>6. XOutcomeInv'
  BY DEF Codex!Dropped, XOutcomeInv
<1>7. XRunsInv'
  BY DEF Codex!Dropped, Codex!NoApp, XRunsInv, XUp
<1>8. XStartInv'
  BY DEF Codex!Dropped, Codex!Goes, XStartInv, XTurnType, XTurnRec
<1>9. XReadInv'
  BY DEF Codex!Dropped, Codex!FailPending, Codex!Goes, XReadInv, XTurnType, XTurnRec
<1> QED BY <1>1, <1>2, <1>3, <1>4, <1>5, <1>6, <1>7, <1>8, <1>9

LEMMA XStartsSessionTypes ==
    ASSUME XTypes, Codex!StartsSession
    PROVE  XTypes'
<1> USE XBounds DEF XTypes
<1>1. XAppType'
  BY DEF Codex!StartsSession, XAppType
<1>2. XQueueType'
  BY DEF Codex!StartsSession, XQueueType
<1>3. XCallType'
  BY DEF Codex!StartsSession, XCallType
<1>4. XSteerType'
  BY DEF Codex!StartsSession, XSteerType
<1>5. XConnType'
  BY DEF Codex!StartsSession, XConnType
<1>6. XTurnType'
  BY DEF Codex!StartsSession, XTurnType, XTurnRec
<1>7. XFlagType'
  BY DEF Codex!StartsSession, XFlagType, Codex!None
<1>8. XCountType'
  BY DEF Codex!StartsSession, XCountType, Codex!None
<1>9. XPastType'
  BY DEF Codex!StartsSession, XPastType
<1> QED BY <1>1, <1>2, <1>3, <1>4, <1>5, <1>6, <1>7, <1>8, <1>9

LEMMA XStartsSessionKeeps ==
    ASSUME XIInv, Codex!StartsSession
    PROVE  XKeeps'
<1> USE XBounds DEF XIInv, XKeeps, XTypes
<1>1. XConnInv'
  BY DEF Codex!StartsSession, XConnInv, XInTurn, XUp
<1>2. XStartsFresh'
  BY DEF Codex!StartsSession, XStartsFresh
<1>3. XStartsDiffer'
  BY DEF Codex!StartsSession, XStartsDiffer, XStartsFresh, XAppType, XCountType, XApps, XReqs, Codex!None
<1>4. XReadsLast'
  BY DEF Codex!StartsSession, XReadsLast, XUp
<1>5. XNumbers'
  BY DEF Codex!StartsSession, XNumbers, XInTurn
<1>6. XOutcomeInv'
  BY DEF Codex!StartsSession, XOutcomeInv
<1>7. XRunsInv'
  BY DEF Codex!StartsSession, XRunsInv, XUp, XRunsIn, XStartsIn
<1>8. XStartInv'
  BY DEF Codex!StartsSession, XStartInv
<1>9. XReadInv'
  BY DEF Codex!StartsSession, XReadInv
<1> QED BY <1>1, <1>2, <1>3, <1>4, <1>5, <1>6, <1>7, <1>8, <1>9

LEMMA XOpensTypes ==
    ASSUME XTypes, Codex!Opens
    PROVE  XTypes'
<1> USE XBounds DEF XTypes
<1>1. XAppType'
  BY XAppsAre DEF Codex!Opens, XAppType
<1>2. XQueueType'
  BY DEF Codex!Opens, XQueueType
<1>3. XCallType'
  BY DEF Codex!Opens, Codex!NoCall, XCallType, Codex!Answers, Codex!Calls
<1>4. XSteerType'
  BY DEF Codex!Opens, XSteerType
<1>5. XConnType'
  BY DEF Codex!Opens, XConnType
<1>6. XTurnType'
  BY DEF Codex!Opens, Codex!Goes, XTurnType, XTurnRec
<1>7. XFlagType'
  BY DEF Codex!Opens, XFlagType
<1>8. XCountType'
  BY DEF Codex!Opens, XCountType
<1>9. XPastType'
  BY DEF Codex!Opens, XPastType
<1> QED BY <1>1, <1>2, <1>3, <1>4, <1>5, <1>6, <1>7, <1>8, <1>9

LEMMA XOpensKeeps ==
    ASSUME XIInv, Codex!Opens
    PROVE  XKeeps'
<1> USE XBounds DEF XIInv, XKeeps, XTypes
<1>1. XConnInv'
  <2>1. /\ xconn'.active = 0 /\ (xconn'.registered <=> xturn.then = "start") /\ halt' = halt
        /\ \/ xturn.then = "start" /\ agent' = "idle" /\ xturn'.pc = "off"
           \/ xturn.then # "start" /\ agent' = agent /\ xturn'.pc = "rereads"
    BY DEF Codex!Opens, Codex!Goes, XTurnType, XTurnRec
  <2> QED BY <2>1 DEF XConnInv, XInTurn, XAsking
<1>2. XStartsFresh'
  BY DEF Codex!Opens, Codex!NewApp, Codex!Request, XStartsFresh
<1>3. XStartsDiffer'
  BY DEF Codex!Opens, Codex!NewApp, XStartsDiffer
<1>4. XReadsLast'
  <2>1. \/ app' = Codex!NewApp /\ xturn'.pc = "off"
        \/ /\ app' = [Codex!NewApp EXCEPT !.stdin = <<Codex!Request("read", 0)>>]
           /\ xturn'.pc = "rereads" /\ call'.answer = Codex!None
    BY DEF Codex!Opens, Codex!Goes, Codex!NoCall, XTurnType, XTurnRec
  <2>2. CASE app' = Codex!NewApp /\ xturn'.pc = "off"
    BY <2>2 DEF Codex!NewApp, XReadsLast, XUp
  <2>3. CASE /\ app' = [Codex!NewApp EXCEPT !.stdin = <<Codex!Request("read", 0)>>]
             /\ xturn'.pc = "rereads" /\ call'.answer = Codex!None
    <3>1. /\ app'.stdin = <<Codex!Request("read", 0)>>
          /\ Codex!Request("read", 0).kind = "read" /\ Codex!Request("read", 0).turn = 0
      BY <2>3 DEF Codex!NewApp, Codex!Request
    <3>2. Len(app'.stdin) = 1 /\ app'.stdin[1] = Codex!Request("read", 0) /\ DOMAIN app'.stdin = {1}
      BY <3>1
    <3> QED BY <2>3, <3>1, <3>2 DEF XReadsLast
  <2> QED BY <2>1, <2>2, <2>3
<1>5. XNumbers'
  <2>1. /\ app'.turn = 0 /\ xturn'.id = xturn.id /\ xturn'.end = xturn.end
        /\ xturn.pc \notin {"streams", "asks", "approves"} /\ xturn'.pc \in {"off", "rereads"}
        /\ xpast' = xpast /\ xcount' = xcount
    BY DEF Codex!Opens, Codex!Goes, Codex!NewApp, XTurnType, XTurnRec
  <2>2. xcount["turns"] \in Nat /\ 0 \in 0 .. xcount["turns"]
    BY DEF XCountType
  <2> QED BY <2>1, <2>2 DEF XNumbers, XInTurn
<1>6. XOutcomeInv'
  BY DEF Codex!Opens, XOutcomeInv
<1>7. XRunsInv'
  BY DEF Codex!Opens, Codex!NewApp, Codex!Request, XRunsInv, XRunsIn, XStartsIn
<1>8. XStartInv'
  BY DEF Codex!Opens, Codex!Goes, XStartInv, XTurnType, XTurnRec
<1>9. XReadInv'
  BY DEF Codex!Opens, Codex!NewApp, Codex!NoCall, Codex!Request, Codex!Goes, XReadInv, XStartsIn, XTurnType,
  XTurnRec
<1> QED BY <1>1, <1>2, <1>3, <1>4, <1>5, <1>6, <1>7, <1>8, <1>9

LEMMA XOpenFailsTypes ==
    ASSUME XTypes, Codex!OpenFails
    PROVE  XTypes'
<1> USE XBounds DEF XTypes
<1>1. XAppType'
  BY DEF Codex!OpenFails, XAppType
<1>2. XQueueType'
  BY DEF Codex!OpenFails, XQueueType
<1>3. XCallType'
  BY DEF Codex!OpenFails, XCallType
<1>4. XSteerType'
  BY DEF Codex!OpenFails, XSteerType
<1>5. XConnType'
  BY DEF Codex!OpenFails, XConnType
<1>6. XTurnType'
  BY DEF Codex!OpenFails, Codex!Goes, XTurnType, XTurnRec
<1>7. XFlagType'
  BY DEF Codex!OpenFails, XFlagType
<1>8. XCountType'
  BY DEF Codex!OpenFails, Codex!Upset, Codex!Counted, XCountType
<1>9. XPastType'
  BY DEF Codex!OpenFails, XPastType
<1> QED BY <1>1, <1>2, <1>3, <1>4, <1>5, <1>6, <1>7, <1>8, <1>9

LEMMA XOpenFailsKeeps ==
    ASSUME XIInv, Codex!OpenFails
    PROVE  XKeeps'
<1> USE XBounds DEF XIInv, XKeeps, XTypes
<1>1. XConnInv'
  BY DEF Codex!OpenFails, Codex!Goes, XConnInv, XInTurn, XUp
<1>2. XStartsFresh'
  BY DEF Codex!OpenFails, Codex!Upset, Codex!Counted, XStartsFresh
<1>3. XStartsDiffer'
  <2>1. UNCHANGED <<app>>
    BY DEF Codex!OpenFails
  <2> QED BY <2>1 DEF XStartsDiffer
<1>4. XReadsLast'
  BY DEF Codex!OpenFails, Codex!Goes, XReadsLast, XUp
<1>5. XNumbers'
  BY DEF Codex!OpenFails, Codex!Upset, Codex!Counted, Codex!Goes, XNumbers, XInTurn
<1>6. XOutcomeInv'
  BY DEF Codex!OpenFails, XOutcomeInv
<1>7. XRunsInv'
  BY DEF Codex!OpenFails, Codex!Goes, XRunsInv, XUp, XRunsIn, XStartsIn
<1>8. XStartInv'
  BY DEF Codex!OpenFails, Codex!Goes, XStartInv
<1>9. XReadInv'
  BY DEF Codex!OpenFails, Codex!Goes, XReadInv
<1> QED BY <1>1, <1>2, <1>3, <1>4, <1>5, <1>6, <1>7, <1>8, <1>9

LEMMA XStopsSessionTypes ==
    ASSUME XTypes, Codex!StopsSession
    PROVE  XTypes'
<1> USE XBounds DEF XTypes
<1>1. XAppType'
  BY DEF Codex!StopsSession, XAppType
<1>2. XQueueType'
  BY DEF Codex!StopsSession, XQueueType
<1>3. XCallType'
  BY DEF Codex!StopsSession, XCallType
<1>4. XSteerType'
  BY DEF Codex!StopsSession, XSteerType
<1>5. XConnType'
  BY DEF Codex!StopsSession, XConnType
<1>6. XTurnType'
  BY DEF Codex!StopsSession, Codex!Drops, XTurnType, XTurnRec
<1>7. XFlagType'
  BY DEF Codex!StopsSession, XFlagType
<1>8. XCountType'
  BY DEF Codex!StopsSession, Codex!Upset, Codex!Counted, XCountType
<1>9. XPastType'
  BY DEF Codex!StopsSession, XPastType
<1> QED BY <1>1, <1>2, <1>3, <1>4, <1>5, <1>6, <1>7, <1>8, <1>9

LEMMA XStopsSessionKeeps ==
    ASSUME XIInv, Codex!StopsSession
    PROVE  XKeeps'
<1> USE XBounds DEF XIInv, XKeeps, XTypes
<1>1. XConnInv'
  BY DEF Codex!StopsSession, Codex!Drops, XConnInv, XInTurn
<1>2. XStartsFresh'
  BY DEF Codex!StopsSession, Codex!Upset, Codex!Counted, XStartsFresh
<1>3. XStartsDiffer'
  BY DEF Codex!StopsSession, XStartsDiffer
<1>4. XReadsLast'
  BY DEF Codex!StopsSession, Codex!Drops, XReadsLast, XUp
<1>5. XNumbers'
  BY DEF Codex!StopsSession, Codex!Upset, Codex!Counted, Codex!Drops, XNumbers, XInTurn
<1>6. XOutcomeInv'
  BY DEF Codex!StopsSession, XOutcomeInv
<1>7. XRunsInv'
  BY DEF Codex!StopsSession, XRunsInv, XUp, XRunsIn, XStartsIn
<1>8. XStartInv'
  BY DEF Codex!StopsSession, Codex!Drops, XStartInv
<1>9. XReadInv'
  BY DEF Codex!StopsSession, Codex!Drops, XReadInv
<1> QED BY <1>1, <1>2, <1>3, <1>4, <1>5, <1>6, <1>7, <1>8, <1>9

LEMMA XCancelledTypes ==
    ASSUME XTypes, Codex!Cancelled
    PROVE  XTypes'
<1> USE XBounds DEF XTypes
<1>1. XAppType'
  <2>1. app' = app \/ app' = [app EXCEPT !.state = "dying"]
    BY DEF Codex!Cancelled
  <2> QED BY <2>1 DEF XAppType, XApps
<1>2. XQueueType'
  BY DEF Codex!Cancelled, XQueueType
<1>3. XCallType'
  BY DEF Codex!Cancelled, Codex!NoCall, XCallType, Codex!Answers, Codex!Calls
<1>4. XSteerType'
  BY DEF Codex!Cancelled, Codex!NoCall, XSteerType, Codex!Answers, Codex!Calls
<1>5. XConnType'
  BY DEF Codex!Cancelled, XConnType
<1>6. XTurnType'
  <2>1. Codex!Goes("off") \/ Codex!Drops(Codex!None)
    BY DEF Codex!Cancelled
  <2> QED BY <2>1 DEF Codex!Goes, Codex!Drops, XTurnType, XTurnRec
<1>7. XFlagType'
  BY DEF Codex!Cancelled, XFlagType
<1>8. XCountType'
  BY DEF Codex!Cancelled, XCountType
<1>9. XPastType'
  BY DEF Codex!Cancelled, XPastType, XTurnType, XTurnRec
<1> QED BY <1>1, <1>2, <1>3, <1>4, <1>5, <1>6, <1>7, <1>8, <1>9

LEMMA XCancelledKeeps ==
    ASSUME XIInv, Codex!Cancelled
    PROVE  XKeeps'
<1> USE XBounds DEF XIInv, XKeeps
<1>0. XTypes
  OBVIOUS
<1>1. /\ halt' = "cancelled" /\ UNCHANGED <<queue, agent, xcount>>
      /\ xpast'.ended = xpast.ended /\ xpast'.astray = xpast.astray \cup {xturn.id}
  BY <1>0 DEF Codex!Cancelled, XTypes, XPastType
<1>2. app' = app \/ app' = [app EXCEPT !.state = "dying"]
  BY DEF Codex!Cancelled
<1>3. /\ app'.stdin = app.stdin /\ app'.turn = app.turn
      /\ (XUp' => XUp /\ xturn.pc # "drops")
  <2>1. app'.stdin = app.stdin /\ app'.turn = app.turn /\ (app' = app \/ app'.state = "dying")
    BY <1>0, <1>2 DEF XTypes, XAppType, XApps
  <2>2. xturn.pc = "drops" => app' = IF Codex!Running THEN [app EXCEPT !.state = "dying"] ELSE app
    BY DEF Codex!Cancelled
  <2>3. xturn.pc = "drops" => app'.state # "up"
    BY <1>0, <2>2 DEF Codex!Running, XTypes, XAppType, XApps
  <2> QED BY <2>1, <2>3 DEF XUp
<1>4. \/ xturn' = [xturn EXCEPT !.pc = "off"] /\ ~ XAsking
      \/ xturn' = [xturn EXCEPT !.pc = "drops", !.then = Codex!None] /\ XAsking
  <2>1. XAsking => Codex!Drops(Codex!None)
    BY DEF Codex!Cancelled, XAsking
  <2>2. ~ XAsking => Codex!Goes("off")
    BY DEF Codex!Cancelled, XAsking
  <2> QED BY <2>1, <2>2 DEF Codex!Drops, Codex!Goes
<1>5. /\ xturn'.id = xturn.id /\ xturn'.end = xturn.end
      /\ xturn'.pc = IF XAsking THEN "drops" ELSE "off"
  BY <1>0, <1>4 DEF XTypes, XTurnType, XTurnRec
<1>6. /\ xconn'.registered = xconn.registered /\ xconn'.active = 0
  <2>1. XInTurn => xconn' = [xconn EXCEPT !.active = 0]
    BY DEF Codex!Cancelled, XInTurn
  <2>2. ~ XInTurn => xconn' = xconn
    BY DEF Codex!Cancelled, XInTurn
  <2> QED BY <1>0, <2>1, <2>2 DEF XConnInv, XTypes, XConnType
<1>7. XStartsFresh' /\ XStartsDiffer' /\ (\A S : XRunsIn(S) => XRunsIn(S)')
  BY <1>1, <1>3, XSameKeeps
<1>8. XConnInv'
  <2>1. XUp /\ xturn.pc # "drops" /\ ~ XAsking => xconn.registered
    BY <1>0 DEF XConnInv, XInTurn, XAsking, XTypes, XTurnType, XTurnRec
  <2>2. XAsking => ~ xconn.registered
    BY DEF XConnInv
  <2> QED BY <1>1, <1>3, <1>5, <1>6, <2>1, <2>2 DEF XConnInv, XInTurn, XAsking
<1>9. XReadsLast'
  BY <1>3, <1>5 DEF XReadsLast, XAsking
<1>10. XNumbers'
  BY <1>1, <1>3, <1>5, XOldNumbers DEF XInTurn
<1>11. XOutcomeInv'
  BY <1>1 DEF XOutcomeInv
<1>12. XStartInv'
  BY <1>5 DEF XStartInv
<1>13. XReadInv'
  <2>1. call'.kind # "read"
    <3>1. XAsking => call' = Codex!NoCall
      BY DEF Codex!Cancelled, XAsking
    <3>2. xturn.pc = "starts" => call' = Codex!NoCall
      BY DEF Codex!Cancelled
    <3>3. ~ XAsking /\ xturn.pc # "starts" => call' = call
      BY DEF Codex!Cancelled, XAsking
    <3> QED BY <3>1, <3>2, <3>3 DEF XReadInv, Codex!NoCall, Codex!None, XAsking
  <2> QED BY <1>5, <2>1 DEF XReadInv
<1>14. XRunsInv'
  <2>1. XUp' => XRunsIn({0, xturn.id} \cup xpast.astray)'
    <3>1. XUp' => XRunsIn({0, xturn.id} \cup xpast.astray)
      BY <1>3 DEF XRunsInv
    <3> QED BY <1>1, <1>3, <3>1 DEF XRunsIn, XStartsIn
  <2> QED BY <1>1, <1>5, <2>1 DEF XRunsInv
<1> QED BY <1>7, <1>8, <1>9, <1>10, <1>11, <1>12, <1>13, <1>14

LEMMA XStopsTypes ==
    ASSUME XTypes, Codex!Stops
    PROVE  XTypes'
<1> USE XBounds DEF XTypes
<1>1. XAppType'
  BY XAppsAre DEF Codex!Stops, XAppType
<1>2. XQueueType'
  BY DEF Codex!Stops, XQueueType
<1>3. XCallType'
  BY DEF Codex!Stops, XCallType
<1>4. XSteerType'
  BY DEF Codex!Stops, XSteerType
<1>5. XConnType'
  BY DEF Codex!Stops, XConnType
<1>6. XTurnType'
  BY DEF Codex!Stops, XTurnType
<1>7. XFlagType'
  BY DEF Codex!Stops, XFlagType
<1>8. XCountType'
  BY DEF Codex!Stops, XCountType
<1>9. XPastType'
  BY DEF Codex!Stops, XPastType
<1> QED BY <1>1, <1>2, <1>3, <1>4, <1>5, <1>6, <1>7, <1>8, <1>9

LEMMA XStopsKeeps ==
    ASSUME XIInv, Codex!Stops
    PROVE  XKeeps'
<1> USE XBounds DEF XIInv, XKeeps, XTypes
<1>1. XConnInv'
  BY DEF Codex!Stops, Codex!NoApp, XConnInv, XInTurn, XUp
<1>2. XStartsFresh'
  BY DEF Codex!Stops, Codex!NoApp, Codex!NewApp, XStartsFresh
<1>3. XStartsDiffer'
  BY DEF Codex!Stops, Codex!NoApp, Codex!NewApp, XStartsDiffer, XStartsFresh, XAppType, XCountType, XApps,
  XReqs, Codex!None
<1>4. XReadsLast'
  BY DEF Codex!Stops, Codex!NoApp, Codex!NewApp, XReadsLast, XUp
<1>5. XNumbers'
  BY DEF Codex!Stops, Codex!NoApp, Codex!NewApp, XNumbers, XInTurn, XCountType
<1>6. XOutcomeInv'
  BY DEF Codex!Stops, XOutcomeInv
<1>7. XRunsInv'
  BY DEF Codex!Stops, Codex!NoApp, XRunsInv, XUp, XRunsIn, XStartsIn
<1>8. XStartInv'
  BY DEF Codex!Stops, XStartInv
<1>9. XReadInv'
  BY DEF Codex!Stops, XReadInv
<1> QED BY <1>1, <1>2, <1>3, <1>4, <1>5, <1>6, <1>7, <1>8, <1>9

LEMMA XInitTypes == ASSUME Codex!Init PROVE XTypes
<1> USE XBounds
<1>0. 0 \in 0 .. MaxTurns
  OBVIOUS
<1>1. XAppType
  BY XAppsAre DEF Codex!Init, XAppType
<1>2. XQueueType
  BY DEF Codex!Init, XQueueType
<1>3. XCallType /\ XSteerType
  BY XAppsAre DEF Codex!Init, XCallType, XSteerType
<1>4. XConnType
  BY <1>0 DEF Codex!Init, XConnType
<1>5. XTurnType
  BY <1>0 DEF Codex!Init, XTurnType, XTurnRec, Codex!Statuses
<1>6. XFlagType
  BY DEF Codex!Init, XFlagType
<1>7. XCountType
  BY DEF Codex!Init, XCountType
<1>8. XPastType
  BY DEF Codex!Init, XPastType, Codex!Statuses
<1> QED BY <1>1, <1>2, <1>3, <1>4, <1>5, <1>6, <1>7, <1>8 DEF XTypes

LEMMA XInitKeeps == ASSUME Codex!Init PROVE XKeeps
<1> USE XBounds
<1>1. app.stdin = <<>> /\ app.turn = 0 /\ app.state = "gone" /\ DOMAIN app.stdin = {} /\ queue = <<>>
  BY DEF Codex!Init, Codex!NoApp, Codex!NewApp
<1>2. xturn.pc = "off" /\ xturn.id = 0 /\ xturn.end = Codex!None /\ xcount["turns"] = 0
  BY DEF Codex!Init
<1>3. XConnInv
  BY <1>1, <1>2 DEF Codex!Init, XConnInv, XInTurn, XUp
<1>4. XStartsFresh /\ XStartsDiffer /\ XReadsLast
  BY <1>1, <1>2 DEF XStartsFresh, XStartsDiffer, XReadsLast
<1>5. XNumbers
  BY <1>1, <1>2 DEF Codex!Init, XNumbers, XInTurn, Codex!None
<1>6. XOutcomeInv
  BY <1>1 DEF XOutcomeInv
<1>7. XStartInv /\ XReadInv
  BY <1>2 DEF Codex!Init, XStartInv, XReadInv, Codex!NoCall, Codex!None
<1>8. XRunsInv
  BY <1>1 DEF XRunsInv, XUp
<1> QED BY <1>3, <1>4, <1>5, <1>6, <1>7, <1>8 DEF XKeeps

LEMMA XStutterKeeps == ASSUME XIInv, UNCHANGED Codex!vars PROVE XIInv'
<1>1. XTypes'
  BY DEF XIInv, XTypes, Codex!vars, XAppType, XQueueType, XCallType, XConnType, XTurnType, XSteerType,
  XFlagType, XCountType, XPastType
<1>2. XKeeps'
  BY DEF XIInv, XKeeps, Codex!vars, XConnInv, XStartsFresh, XStartsDiffer, XReadsLast, XNumbers,
  XOutcomeInv, XStartInv,
         XReadInv, XRunsInv, XRunsIn, XStartsIn, XRunless, XUp, XInTurn, XAsking
<1> QED BY <1>1, <1>2 DEF XIInv

LEMMA XNextKeeps == ASSUME XIInv, Codex!Next PROVE XIInv'
<1> USE DEF XIInv
<1>1. CASE Codex!Handles
  BY <1>1, XHandlesTypes, XHandlesKeeps
<1>2. CASE Codex!Asks
  BY <1>2, XAsksTypes, XAsksKeeps
<1>3. CASE Codex!TurnEnds
  BY <1>3, XTurnEndsTypes, XTurnEndsKeeps
<1>4. CASE Codex!Interrupted
  BY <1>4, XInterruptedTypes, XInterruptedKeeps
<1>5. CASE Codex!Dies
  BY <1>5, XDiesTypes, XDiesKeeps
<1>6. CASE Codex!Garbles
  BY <1>6, XGarblesTypes, XGarblesKeeps
<1>7. CASE Codex!Exits
  BY <1>7, XExitsTypes, XExitsKeeps
<1>8. CASE Codex!Watched
  BY <1>8, XWatchedTypes, XWatchedKeeps
<1>9. CASE Codex!StartsTurn
  BY <1>9, XStartsTurnTypes, XStartsTurnKeeps
<1>10. CASE Codex!Unavailable
  BY <1>10, XUnavailableTypes, XUnavailableKeeps
<1>11. CASE Codex!Started
  BY <1>11, XStartedTypes, XStartedKeeps
<1>12. CASE Codex!StartUnread
  BY <1>12, XStartUnreadTypes, XStartUnreadKeeps
<1>13. CASE Codex!StartTimesOut
  BY <1>13, XStartTimesOutTypes, XStartTimesOutKeeps
<1>14. CASE Codex!EndsAtOnce
  BY <1>14, XEndsAtOnceTypes, XEndsAtOnceKeeps
<1>15. CASE Codex!StreamReads
  BY <1>15, XStreamReadsTypes, XStreamReadsKeeps
<1>16. CASE Codex!Approves
  BY <1>16, XApprovesTypes, XApprovesKeeps
<1>17. CASE Codex!ApprovalFails
  BY <1>17, XApprovalFailsTypes, XApprovalFailsKeeps
<1>18. CASE Codex!StreamCut
  BY <1>18, XStreamCutTypes, XStreamCutKeeps
<1>19. CASE Codex!SteerStarts
  BY <1>19, XSteerStartsTypes, XSteerStartsKeeps
<1>20. CASE Codex!SteerEnds
  BY <1>20, XSteerEndsTypes, XSteerEndsKeeps
<1>21. CASE Codex!Reconciles
  BY <1>21, XReconcilesTypes, XReconcilesKeeps
<1>22. CASE Codex!Rereads
  BY <1>22, XRereadsTypes, XRereadsKeeps
<1>23. CASE Codex!Resumes
  BY <1>23, XResumesTypes, XResumesKeeps
<1>24. CASE Codex!ReconcileFails
  BY <1>24, XReconcileFailsTypes, XReconcileFailsKeeps
<1>25. CASE Codex!Dropped
  BY <1>25, XDroppedTypes, XDroppedKeeps
<1>26. CASE Codex!StartsSession
  BY <1>26, XStartsSessionTypes, XStartsSessionKeeps
<1>27. CASE Codex!Opens
  BY <1>27, XOpensTypes, XOpensKeeps
<1>28. CASE Codex!OpenFails
  BY <1>28, XOpenFailsTypes, XOpenFailsKeeps
<1>29. CASE Codex!StopsSession
  BY <1>29, XStopsSessionTypes, XStopsSessionKeeps
<1>30. CASE Codex!Cancelled
  BY <1>30, XCancelledTypes, XCancelledKeeps
<1>31. CASE Codex!Stops
  BY <1>31, XStopsTypes, XStopsKeeps
<1> QED
  BY <1>1, <1>2, <1>3, <1>4, <1>5, <1>6, <1>7, <1>8, <1>9, <1>10, <1>11, <1>12, <1>13, <1>14, <1>15, <1>16,
    <1>17, <1>18, <1>19, <1>20, <1>21, <1>22, <1>23, <1>24, <1>25, <1>26, <1>27, <1>28, <1>29, <1>30, <1>31
    DEF Codex!Next, Codex!Serves, Codex!Streams, Codex!Reopens

(* What the invariant is for *)
LEMMA XHolds == ASSUME XIInv PROVE Codex!NothingLeft /\ Codex!OutcomeIsOwn
<1>1. Codex!TypeOK
  <2>1. {call, xsteer} \subseteq Codex!Calls
    BY DEF XIInv, XTypes, XCallType, XSteerType
  <2> QED BY <2>1 DEF XIInv, XTypes, Codex!TypeOK, XAppType, XApps, XReqs, XQueueType, XMsgs, XConnType,
      XTurnType, XTurnRec, XFlagType, XCountType, XPastType
<1>2. xturn.pc = "off" /\ XUp => xconn.registered
  BY DEF XIInv, XKeeps, XConnInv
<1>3. xturn.pc = "off" => xconn.active = 0
  BY DEF XIInv, XKeeps, XConnInv, XInTurn
<1>4. ASSUME XRunsIn({0} \cup xpast.astray) PROVE Codex!Runs \subseteq {0} \cup xpast.astray
  BY <1>4 DEF Codex!Runs, XRunsIn, XStartsIn
<1>5. halt = "no" /\ xturn.pc = "off" /\ agent = "idle" /\ XUp => XRunsIn({0} \cup xpast.astray)
  BY DEF XIInv, XKeeps, XRunsInv
<1>6. Codex!NothingLeft
  BY <1>1, <1>2, <1>3, <1>4, <1>5 DEF Codex!NothingLeft, XUp
<1>7. Codex!OutcomeIsOwn
  BY DEF XIInv, XKeeps, XNumbers, Codex!OutcomeIsOwn
<1> QED BY <1>6, <1>7

-----------------------------------------------------------------------------
(* The two side by side: one of them moves, the other keeps still *)

Both == IInv /\ XIInv

LEMMA BothStart == MCInit => Both
BY InitTypes, InitKeeps, XInitTypes, XInitKeeps DEF MCInit, Both, IInv, XIInv

LEMMA BothGoOn ==
    ASSUME Both, [MCNext]_<<runtime, claude, codex>>
    PROVE  Both'
<1> USE DEF Both
<1>1. CASE Next /\ UNCHANGED codex
  <2>1. UNCHANGED Codex!vars
    BY <1>1 DEF codex, Codex!vars
  <2> QED BY <1>1, <2>1, NextKeeps, XStutterKeeps
<1>2. CASE Codex!Next /\ UNCHANGED claude
  <2>1. UNCHANGED vars
    BY <1>2 DEF claude
  <2> QED BY <1>2, <2>1, XNextKeeps, StutterKeeps
<1>3. CASE UNCHANGED <<runtime, claude, codex>>
  <2>1. UNCHANGED vars /\ UNCHANGED Codex!vars
    BY <1>3 DEF claude, codex, Codex!vars
  <2> QED BY <2>1, StutterKeeps, XStutterKeeps
<1> QED BY <1>1, <1>2, <1>3 DEF MCNext

LEMMA BothAlways == MCSpec => []Both
<1>1. Both /\ [MCNext]_<<runtime, claude, codex>> => Both'
  BY BothGoOn
<1> QED BY BothStart, <1>1, PTL DEF MCSpec

(* Whatever the process, its wakes, the steering and the stops do, between *)
(* two turns a connection of Claude's has no input of a person left to     *)
(* work on and no result left to read, unless a turn went astray           *)
(* (runtime.py:340 and :392, client.py:268).                               *)
THEOREM ClaudeLeavesNothing == MCSpec => []NothingLeftBehind
<1>1. Both => NothingLeftBehind
  BY NothingLeft DEF Both
<1> QED BY <1>1, BothAlways, PTL

(* A second process of Claude's is started beside one still being stopped  *)
(* only after a reset between turns, and no turn opens on a connection     *)
(* whose reader has gone (runtime.py:176, :224).                           *)
THEOREM OneProcessAtATime == MCSpec => OneProcess
<1>1. Both /\ [MCNext]_<<runtime, claude, codex>> =>
        [/\ old' /\ ~ old => conn.doomed
         /\ turn'.pc = "opens" /\ turn.pc # "opens" => client.reader]_vars
  <2> SUFFICES ASSUME Both, [MCNext]_<<runtime, claude, codex>>
               PROVE  [/\ old' /\ ~ old => conn.doomed
                       /\ turn'.pc = "opens" /\ turn.pc # "opens" => client.reader]_vars
    OBVIOUS
  <2>1. [Next]_vars
    BY DEF MCNext, claude
  <2> QED BY <2>1, StepIsSafe DEF Both
<1> QED BY <1>1, BothAlways, PTL DEF MCSpec, OneProcess

(* Between two operations on a session of Codex's no turn is active, the   *)
(* process that is up is the one registered, and it runs nothing but turns *)
(* that went astray (runtime.py:266, :399, :500).                          *)
THEOREM CodexRests == MCSpec => []CodexLeavesNothing
<1>1. Both => CodexLeavesNothing
  BY XHolds DEF Both, CodexLeavesNothing
<1> QED BY <1>1, BothAlways, PTL

(* A turn of Codex's is reported as completed or failed only if the server *)
(* ended that very turn so (events.py:236, runtime.py:255).                *)
THEOREM CodexTellsTheTruth == MCSpec => []CodexOutcomeIsOwn
<1>1. Both => CodexOutcomeIsOwn
  BY XHolds DEF Both, CodexOutcomeIsOwn
<1> QED BY <1>1, BothAlways, PTL

=============================================================================

--------------------------- MODULE TimerWheelProofs ---------------------------
(***************************************************************************)
(* Proofs about the timer wheel, for rings and levels of any sizes: it is  *)
(* well typed, it holds exactly the active timers, and it fires each at its *)
(* deadline, whatever stalls, resets and cancellations come.                *)
(***************************************************************************)
EXTENDS TimerWheel, NaturalsInduction, WellFoundedInduction, TLAPS

-----------------------------------------------------------------------------
(* Arithmetic of buckets *)

LEMMA Quotients ==
  ASSUME NEW a \in Nat, NEW b \in Nat, NEW w \in Nat \ {0}
  PROVE  /\ a \div w \in Nat
         /\ a - b >= w => a \div w > b \div w
         /\ a \div w > b \div w => a > b
         /\ (a + 1) \div w <= (a \div w) + 1
         /\ (a + 1) \div w = (a \div w) + 1 => (a + 1) % w = 0
         /\ a % w \in Nat
<1>1. a \div w \in Nat /\ a % w \in Nat
  OBVIOUS
<1>2. a - b >= w => a \div w > b \div w
  OBVIOUS
<1>3. a \div w > b \div w => a > b
  OBVIOUS
<1>4. (a + 1) \div w <= (a \div w) + 1
  OBVIOUS
<1>5. (a + 1) \div w = (a \div w) + 1 => (a + 1) % w = 0
  OBVIOUS
<1>6. QED
  BY <1>1, <1>2, <1>3, <1>4, <1>5

LEMMA Multiples ==
  ASSUME NEW q \in Nat, NEW w \in Nat \ {0}
  PROVE  /\ (w * q) \div w = q
         /\ (w * q) % w = 0
OBVIOUS

LEMMA Factor ==
  ASSUME NEW a \in Nat, NEW w \in Nat \ {0}, a % w = 0
  PROVE  /\ a \div w \in Nat
         /\ a = w * (a \div w)
OBVIOUS

(* What is a multiple of a bucket of level l makes the ring and every level *)
(* below l come around (the recursion of _cascade).                         *)
LEMMA WidthDivides ==
  ASSUME NEW l \in 0 .. LevelCount, NEW tick \in Nat, tick % Width[l] = 0
  PROVE  \A j \in 0 .. l : tick % Width[j] = 0
<1> USE SizesAssumption, WidthAssumption
<1> DEFINE Bad == {i \in Nat : i <= l /\ tick % Width[l - i] # 0}
<1>1. SUFFICES ASSUME NEW j \in 0 .. l, tick % Width[j] # 0 PROVE FALSE
  OBVIOUS
<1>2. l - j \in Bad
  <2>1. l - j \in Nat /\ l - j <= l /\ l - (l - j) = j
    OBVIOUS
  <2> QED BY <1>1, <2>1
<1>3. PICK m \in Bad : \A i \in Bad : <<i, m>> \notin OpToRel(<, Nat)
  BY <1>2, NatLessThanWellFounded, WFMin, Bad \subseteq Nat
<1>4. m # 0
  OBVIOUS
<1>5. m - 1 \in Nat /\ m - 1 \notin Bad
  <2>1. m - 1 \in Nat /\ m - 1 < m
    BY <1>4
  <2>2. <<m - 1, m>> \in OpToRel(<, Nat)
    BY <2>1 DEF OpToRel
  <2> QED BY <1>3, <2>1, <2>2
<1>6. tick % Width[l - (m - 1)] = 0
  BY <1>5
<1> DEFINE k == l - m
<1>7. k \in Levels /\ l - (m - 1) = k + 1
  BY <1>4 DEF Levels
<1>8. Width[k + 1] = Width[k] * LevelSize /\ Width[k] \in Nat \ {0} /\ Width[k + 1] \in Nat \ {0}
  BY <1>7 DEF Levels
<1>9. tick = Width[k + 1] * (tick \div Width[k + 1]) /\ tick \div Width[k + 1] \in Nat
  BY <1>6, <1>7, <1>8, Factor
<1>10. tick = Width[k] * (LevelSize * (tick \div Width[k + 1]))
  BY <1>8, <1>9
<1>11. LevelSize * (tick \div Width[k + 1]) \in Nat
  BY <1>9
<1>12. tick % Width[k] = 0
  BY <1>8, <1>10, <1>11, Multiples, SMTT(30)
<1> QED BY <1>12

LEMMA CascadeReaches ==
  ASSUME NEW l \in Levels, NEW tick \in Nat, tick % Width[l] = 0
  PROVE  l \in Cascades(tick)
<1> USE SizesAssumption, WidthAssumption
<1>1. l \in 0 .. LevelCount /\ l \in Nat
  BY DEF Levels
<1>2. \A j \in 0 .. l : tick % Width[j] = 0
  BY <1>1, WidthDivides
<1>3. tick % NearSize = 0
  BY <1>1, <1>2
<1>4. ASSUME NEW j \in 0 .. l - 1 PROVE Slot(j, tick) = 0
  <2>1. j \in Levels /\ j + 1 \in 0 .. l /\ j + 1 \in 0 .. LevelCount
    BY <1>1 DEF Levels
  <2>2. tick % Width[j + 1] = 0
    BY <1>2, <2>1
  <2>3. Width[j + 1] = Width[j] * LevelSize /\ Width[j] \in Nat \ {0} /\ Width[j + 1] \in Nat \ {0}
    BY <2>1, SMTT(30) DEF Levels
  <2> DEFINE q == tick \div Width[j + 1]
  <2>4. q \in Nat /\ tick = Width[j + 1] * q
    BY <2>2, <2>3, Factor
  <2>5. tick = Width[j] * (LevelSize * q) /\ LevelSize * q \in Nat
    BY <2>3, <2>4, SMTT(30)
  <2>6. tick \div Width[j] = LevelSize * q
    BY <2>3, <2>5, Multiples
  <2>7. (LevelSize * q) % LevelSize = 0
    BY <2>4, Multiples
  <2> QED BY <2>6, <2>7 DEF Slot
<1> QED BY <1>3, <1>4 DEF Cascades

(* _insert finds a level for every delay that is beyond the near ring *)
LEMMA LevelExists ==
  ASSUME NEW delta \in Nat, delta >= NearSize
  PROVE  /\ LevelOf(delta) \in Levels
         /\ Width[LevelOf(delta)] <= delta
<1> USE SizesAssumption, WidthAssumption
<1> DEFINE Fits(l) == Width[l] <= delta /\ (l + 1 \in Levels => delta < Width[l + 1])
           Gap == {i \in Nat : i \in 1 .. LevelCount /\ Width[LevelCount - i] <= delta}
<1>1. LevelCount \in Gap
  <2>1. LevelCount - LevelCount = 0 /\ LevelCount \in 1 .. LevelCount
    OBVIOUS
  <2> QED BY <2>1
<1>2. PICK m \in Gap : \A i \in Gap : <<i, m>> \notin OpToRel(<, Nat)
  BY <1>1, NatLessThanWellFounded, WFMin, Gap \subseteq Nat
<1> DEFINE k == LevelCount - m
<1>3. k \in Levels /\ Width[k] <= delta
  BY DEF Levels
<1>4. k + 1 \in Levels => delta < Width[k + 1]
  <2> SUFFICES ASSUME k + 1 \in Levels PROVE delta < Width[k + 1]
    OBVIOUS
  <2>1. m - 1 \in 1 .. LevelCount /\ m - 1 \in Nat /\ m - 1 < m /\ LevelCount - (m - 1) = k + 1
    BY DEF Levels
  <2>2. <<m - 1, m>> \in OpToRel(<, Nat)
    BY <2>1 DEF OpToRel
  <2>3. ~ (Width[k + 1] <= delta)
    BY <1>2, <2>1, <2>2
  <2>4. Width[k + 1] \in Nat
    BY DEF Levels
  <2> QED BY <2>3, <2>4
<1>5. \E l \in Levels : Fits(l)
  BY <1>3, <1>4
<1>6. LevelOf(delta) = CHOOSE l \in Levels : Fits(l)
  BY DEF LevelOf
<1> HIDE DEF Fits
<1>7. LevelOf(delta) \in Levels /\ Fits(LevelOf(delta))
  BY <1>5, <1>6
<1> QED BY <1>7 DEF Fits

(* An entry inserted for a moment ahead is one that the driver comes by *)
LEMMA PlaceReachable ==
  ASSUME NEW deadline \in Nat, NEW generation \in Nat \ {0}, NEW now \in Nat, deadline > now
  PROVE  /\ Place(deadline, generation, now) \in Entry
         /\ Place(deadline, generation, now).deadline = deadline
         /\ Place(deadline, generation, now).generation = generation
         /\ Reachable(Place(deadline, generation, now), now)
<1> USE SizesAssumption, WidthAssumption
<1> DEFINE e == Place(deadline, generation, now)
<1>1. CASE deadline - now < NearSize
  <2>1. e = [level |-> Near, slot |-> NearSlot(deadline),
             deadline |-> deadline, generation |-> generation]
    BY <1>1 DEF Place
  <2>2. NearSlot(deadline) \in Nat
    BY Quotients DEF NearSlot
  <2>3. Near \notin Levels
    BY DEF Near, Levels
  <2> QED BY <2>1, <2>2, <2>3 DEF Entry, Reachable
<1>2. CASE ~ (deadline - now < NearSize)
  <2> DEFINE l == LevelOf(deadline - now)
  <2>1. deadline - now \in Nat /\ deadline - now >= NearSize
    BY <1>2
  <2>2. l \in Levels /\ Width[l] <= deadline - now
    BY <2>1, LevelExists
  <2>3. e = [level |-> l, slot |-> Slot(l, deadline),
             deadline |-> deadline, generation |-> generation]
    BY <1>2 DEF Place
  <2> HIDE DEF l
  <2>4. Width[l] \in Nat \ {0}
    BY <2>2 DEF Levels
  <2>5. Slot(l, deadline) \in Nat
    BY <2>4, Quotients DEF Slot
  <2>6. deadline \div Width[l] > now \div Width[l]
    BY <2>2, <2>4, Quotients
  <2>7. l # Near
    BY <2>2 DEF Near, Levels
  <2> QED BY <2>2, <2>3, <2>5, <2>6, <2>7 DEF Entry, Reachable
<1> QED BY <1>1, <1>2

(* An entry put down at its very moment is in the bucket that is emptied now *)
LEMMA PlaceNow ==
  ASSUME NEW tick \in Nat, NEW generation \in Nat \ {0}
  PROVE  /\ Place(tick, generation, tick) \in Entry
         /\ Place(tick, generation, tick).deadline = tick
         /\ Place(tick, generation, tick).generation = generation
         /\ AtHand(Place(tick, generation, tick), tick)
<1> USE SizesAssumption
<1>1. tick - tick < NearSize
  OBVIOUS
<1>2. Place(tick, generation, tick) =
        [level |-> Near, slot |-> NearSlot(tick), deadline |-> tick, generation |-> generation]
  BY <1>1 DEF Place
<1>3. NearSlot(tick) \in Nat
  BY Quotients DEF NearSlot
<1> QED BY <1>2, <1>3 DEF Entry, AtHand

(* One tick of the wheel: an entry that is due at the new tick is found in  *)
(* the near bucket, and any other one stays where the driver comes by.      *)
LEMMA CascadedReachable ==
  ASSUME NEW e \in Entry, NEW now \in Nat, Reachable(e, now)
  PROVE  /\ Cascaded(e, now + 1) \in Entry
         /\ Cascaded(e, now + 1).deadline = e.deadline
         /\ Cascaded(e, now + 1).generation = e.generation
         /\ e.deadline >= now + 1
         /\ e.deadline = now + 1 => AtHand(Cascaded(e, now + 1), now + 1)
         /\ e.deadline # now + 1 => Reachable(Cascaded(e, now + 1), now + 1)
<1> USE SizesAssumption, WidthAssumption
<1> DEFINE m == Cascaded(e, now + 1)
<1>0. /\ e.level \in {Near} \cup Levels /\ e.slot \in Nat
      /\ e.deadline \in Nat /\ e.generation \in Nat \ {0}
  BY DEF Entry
<1>1. e.deadline > now /\ now + 1 \in Nat
  BY DEF Reachable
<1>2. CASE e.level = Near
  <2>1. Near \notin Cascades(now + 1) /\ Near \notin Levels
    BY DEF Near, Cascades, Levels
  <2>2. m = e
    BY <1>2, <2>1 DEF Cascaded
  <2>3. e.slot = NearSlot(e.deadline)
    BY <1>2 DEF Reachable
  <2> HIDE DEF m
  <2>4. CASE e.deadline = now + 1
    BY <1>0, <1>1, <1>2, <2>2, <2>3, <2>4 DEF AtHand, m
  <2>5. CASE e.deadline # now + 1
    <3>1. e.deadline > now + 1
      BY <1>0, <1>1, <2>5
    <3> QED BY <1>0, <1>1, <1>2, <2>1, <2>2, <2>3, <2>5, <3>1 DEF Reachable, m
  <2> QED BY <2>4, <2>5
<1>3. CASE e.level \in Levels
  <2> DEFINE w == Width[e.level]
  <2>1. w \in Nat \ {0}
    BY <1>3 DEF Levels
  <2>2. e.slot = Slot(e.level, e.deadline) /\ e.deadline \div w > now \div w
    BY <1>3 DEF Reachable
  <2>3. e.level # Near
    BY <1>3 DEF Near, Levels
  <2> HIDE DEF w
  <2>4. /\ now \div w \in Nat /\ (now + 1) \div w \in Nat /\ e.deadline \div w \in Nat
        /\ (now + 1) \div w <= (now \div w) + 1
    BY <1>0, <1>1, <2>1, Quotients
  <2>5. CASE e.deadline \div w = (now + 1) \div w
    <3>1. (now + 1) \div w = (now \div w) + 1
      BY <2>2, <2>4, <2>5
    <3>2. (now + 1) % w = 0
      BY <2>1, <3>1, Quotients
    <3>3. e.level \in Cascades(now + 1)
      BY <1>1, <1>3, <3>2, CascadeReaches DEF w
    <3>4. e.slot = Slot(e.level, now + 1)
      BY <2>2, <2>5 DEF Slot, w
    <3>5. m = Place(e.deadline, e.generation, now + 1)
      BY <3>3, <3>4 DEF Cascaded
    <3> HIDE DEF m
    <3>6. CASE e.deadline = now + 1
      BY <1>0, <1>1, <3>5, <3>6, PlaceNow DEF m
    <3>7. CASE e.deadline # now + 1
      <4>1. e.deadline > now + 1
        BY <1>0, <1>1, <3>7
      <4> QED BY <1>0, <1>1, <3>5, <3>7, <4>1, PlaceReachable DEF m
    <3> QED BY <3>6, <3>7
  <2>6. CASE e.deadline \div w # (now + 1) \div w
    <3>1. e.deadline \div w > (now + 1) \div w
      BY <2>2, <2>4, <2>6
    <3>2. e.deadline > now + 1
      BY <1>0, <1>1, <2>1, <3>1, Quotients
    <3>3. CASE e.level \in Cascades(now + 1) /\ e.slot = Slot(e.level, now + 1)
      <4>1. m = Place(e.deadline, e.generation, now + 1)
        BY <3>3 DEF Cascaded
      <4> HIDE DEF m
      <4> QED BY <1>0, <1>1, <3>2, <4>1, PlaceReachable DEF m
    <3>4. CASE ~ (e.level \in Cascades(now + 1) /\ e.slot = Slot(e.level, now + 1))
      <4>1. m = e
        BY <3>4 DEF Cascaded
      <4> HIDE DEF m
      <4>2. Reachable(e, now + 1)
        BY <2>2, <2>3, <3>1, <3>2 DEF Reachable, w
      <4> QED BY <1>0, <1>1, <3>2, <4>1, <4>2 DEF m
    <3> QED BY <3>3, <3>4
  <2> QED BY <2>5, <2>6
<1> QED BY <1>0, <1>2, <1>3

-----------------------------------------------------------------------------
(* The inductive invariant, and the moves of the wheel as one kind of step *)

(* A timer is made when its creation is over *)
CallInv == call \notin {NoCall, ByDriver} /\ call.by = "create" => timer[call.timer] = Unmade

IInv == TypeOK /\ WheelHoldsActive /\ WheelInv /\ NeverEarly /\ CallInv

(* The same, timer by timer *)
TimerOK(o, e, now) ==
  /\ o \in Timer
  /\ e \in Entry \cup {NoEntry}
  /\ o.active <=> e # NoEntry
  /\ o.active => /\ e.deadline = o.deadline /\ e.generation = o.generation
                 /\ o.expired = 0
                 /\ Reachable(e, now)
  /\ o.expired # 0 => o.deadline <= now /\ o.expired = o.generation

TimersOK ==
  /\ entries = [t \in Timers |-> entries[t]]
  /\ timer = [t \in Timers |-> timer[t]]
  /\ \A t \in Timers : TimerOK(timer[t], entries[t], current)

Scalars ==
  /\ clock \in Nat
  /\ current \in Nat
  /\ driver \in {"parked", "poked", "sleeping", "off"}
  /\ call \in Calls
  /\ target \in Nat
  /\ closed \in {"open", "closing", "closed"}

LEMMA Whole == IInv <=> Scalars /\ TimersOK /\ CallInv
<1>1. ASSUME IInv PROVE Scalars /\ TimersOK /\ CallInv
  <2>1. Scalars /\ CallInv
    BY <1>1 DEF IInv, TypeOK, Scalars
  <2>2. /\ entries = [t \in Timers |-> entries[t]]
        /\ timer = [t \in Timers |-> timer[t]]
    BY <1>1 DEF IInv, TypeOK
  <2>3. ASSUME NEW t \in Timers PROVE TimerOK(timer[t], entries[t], current)
    BY <1>1 DEF IInv, TypeOK, WheelHoldsActive, WheelInv, OnWheel, NeverEarly, TimerOK
  <2> QED BY <2>1, <2>2, <2>3 DEF TimersOK
<1>2. ASSUME Scalars, TimersOK, CallInv PROVE IInv
  <2>1. /\ entries \in [Timers -> Entry \cup {NoEntry}]
        /\ timer \in [Timers -> Timer]
    BY <1>2 DEF TimersOK, TimerOK
  <2>2. TypeOK
    BY <1>2, <2>1 DEF TypeOK, Scalars
  <2>3. WheelHoldsActive /\ WheelInv /\ NeverEarly
    BY <1>2 DEF TimersOK, TimerOK, WheelHoldsActive, WheelInv, OnWheel, NeverEarly
  <2> QED BY <1>2, <2>2, <2>3 DEF IInv
<1> QED BY <1>1, <1>2

LEMMA EntryIsOne == NoEntry \notin Entry
<1>1. -2 \notin {Near} \cup Levels
  BY DEF Near, Levels
<1> QED BY <1>1 DEF NoEntry, Entry

LEMMA ExpiredTimer ==
  ASSUME NEW o \in Timer
  PROVE  /\ Expired(o) \in Timer
         /\ ~ Expired(o).active
         /\ Expired(o).expired = o.generation
         /\ Expired(o).generation = o.generation
         /\ Expired(o).deadline = o.deadline
BY DEF Expired, Timer, Waiters

(* What a bucket or a rebuild does to the wheel as it comes to a new tick *)
Sweep(tick) ==
  /\ tick \in Nat /\ tick > current /\ current' = tick
  /\ entries' = [t \in Timers |-> entries'[t]]
  /\ timer' = [t \in Timers |-> timer'[t]]
  /\ \A t \in Timers :
        /\ t \notin OnWheel => entries'[t] = NoEntry /\ timer'[t] = timer[t]
        /\ t \in OnWheel /\ entries[t].deadline <= tick =>
              entries'[t] = NoEntry /\ timer'[t] = Expired(timer[t])
        /\ t \in OnWheel /\ entries[t].deadline > tick =>
              /\ timer'[t] = timer[t]
              /\ entries'[t] \in Entry
              /\ entries'[t].deadline = entries[t].deadline
              /\ entries'[t].generation = entries[t].generation
              /\ Reachable(entries'[t], tick)

LEMMA OnWheelFacts ==
  ASSUME IInv, NEW t \in Timers
  PROVE  /\ timer[t] \in Timer
         /\ t \in OnWheel <=> timer[t].active
         /\ t \notin OnWheel => entries[t] = NoEntry
         /\ t \in OnWheel =>
              /\ entries[t] \in Entry
              /\ entries[t].deadline = timer[t].deadline
              /\ entries[t].generation = timer[t].generation
              /\ entries[t].deadline \in Nat
              /\ entries[t].generation \in Nat \ {0}
              /\ Reachable(entries[t], current)
              /\ Expires(t, entries[t].generation)
<1>1. timer[t] \in Timer /\ entries[t] \in Entry \cup {NoEntry}
  BY DEF IInv, TypeOK
<1>2. t \in OnWheel <=> entries[t] # NoEntry
  BY DEF OnWheel
<1>3. /\ timer[t].active <=> entries[t] # NoEntry
      /\ timer[t].active => /\ entries[t].deadline = timer[t].deadline
                            /\ entries[t].generation = timer[t].generation
  BY DEF IInv, WheelHoldsActive
<1>4. t \in OnWheel => Reachable(entries[t], current)
  BY DEF IInv, WheelInv
<1>5. \A e \in Entry : e.deadline \in Nat /\ e.generation \in Nat \ {0}
  BY DEF Entry
<1> QED BY <1>1, <1>2, <1>3, <1>4, <1>5 DEF Expires

LEMMA RebuildSweeps ==
  ASSUME IInv, Lagging, Rebuild
  PROVE  Sweep(clock)
<1> USE SizesAssumption
<1>1. clock \in Nat /\ current \in Nat /\ clock > current /\ current' = clock
  BY DEF IInv, TypeOK, Lagging, Rebuild
<1> DEFINE due == {t \in OnWheel : Due(entries[t], clock)}
<1>2. /\ entries' = [t \in Timers |->
               IF t \in due \/ t \notin OnWheel THEN NoEntry
               ELSE Place(entries[t].deadline, entries[t].generation, clock)]
      /\ timer' = [t \in Timers |-> IF t \in Expiring(due) THEN Expired(timer[t]) ELSE timer[t]]
  BY DEF Rebuild
<1>3. ASSUME NEW t \in Timers
      PROVE  /\ t \in due <=> t \in OnWheel /\ entries[t].deadline <= clock
             /\ t \in Expiring(due) <=> t \in due
  BY OnWheelFacts DEF Expiring, Due
<1> HIDE DEF due
<1>4. ASSUME NEW t \in Timers, t \in OnWheel, entries[t].deadline > clock
      PROVE  /\ entries'[t] \in Entry
             /\ entries'[t].deadline = entries[t].deadline
             /\ entries'[t].generation = entries[t].generation
             /\ Reachable(entries'[t], clock)
  <2>1. entries[t].deadline \in Nat /\ entries[t].generation \in Nat \ {0}
    BY <1>4, OnWheelFacts
  <2>2. t \notin due
    BY <1>1, <1>3, <1>4, <2>1
  <2>3. entries'[t] = Place(entries[t].deadline, entries[t].generation, clock)
    BY <1>2, <1>4, <2>2
  <2> QED BY <1>1, <1>4, <2>1, <2>3, PlaceReachable
<1>5. ASSUME NEW t \in Timers
      PROVE  /\ t \notin OnWheel => entries'[t] = NoEntry /\ timer'[t] = timer[t]
             /\ t \in OnWheel /\ entries[t].deadline <= clock =>
                   entries'[t] = NoEntry /\ timer'[t] = Expired(timer[t])
             /\ t \in OnWheel /\ entries[t].deadline > clock => timer'[t] = timer[t]
  <2>1. t \in OnWheel /\ entries[t].deadline > clock => ~ (entries[t].deadline <= clock)
    BY <1>1, OnWheelFacts
  <2> QED BY <1>2, <1>3, <2>1
<1> QED BY <1>1, <1>2, <1>4, <1>5 DEF Sweep

LEMMA TickSweeps ==
  ASSUME IInv, Tick
  PROVE  Sweep(current + 1)
<1>1. current \in Nat /\ current + 1 \in Nat /\ current + 1 > current /\ current' = current + 1
  BY DEF IInv, TypeOK, Tick
<1> DEFINE tick == current + 1
           moved == [t \in Timers |-> IF t \in OnWheel THEN Cascaded(entries[t], tick) ELSE NoEntry]
           found == {t \in OnWheel : AtHand(moved[t], tick)}
           due == {t \in found : Due(moved[t], tick)}
<1>2. /\ entries' = [t \in Timers |->
               IF t \in due THEN NoEntry
               ELSE IF t \in found THEN Place(moved[t].deadline, moved[t].generation, tick)
               ELSE moved[t]]
      /\ timer' = [t \in Timers |-> IF t \in Expiring(due) THEN Expired(timer[t]) ELSE timer[t]]
  BY DEF Tick
<1>3. ASSUME NEW t \in Timers, t \in OnWheel
      PROVE  /\ moved[t] = Cascaded(entries[t], tick)
             /\ moved[t] \in Entry
             /\ moved[t].deadline = entries[t].deadline
             /\ moved[t].generation = entries[t].generation
             /\ entries[t].deadline >= tick
             /\ entries[t].deadline = tick => AtHand(moved[t], tick)
             /\ entries[t].deadline # tick => Reachable(moved[t], tick)
             /\ entries[t].deadline \in Nat /\ entries[t].generation \in Nat \ {0}
  <2>1. moved[t] = Cascaded(entries[t], tick)
    BY <1>3
  <2>2. /\ entries[t] \in Entry /\ Reachable(entries[t], current)
        /\ entries[t].deadline \in Nat /\ entries[t].generation \in Nat \ {0}
    BY <1>3, OnWheelFacts
  <2> HIDE DEF moved
  <2> QED BY <1>1, <2>1, <2>2, CascadedReachable
<1> HIDE DEF moved
<1>4. ASSUME NEW t \in Timers
      PROVE  /\ t \in due <=> t \in OnWheel /\ entries[t].deadline <= tick
             /\ t \in Expiring(due) <=> t \in due
  <2>1. t \in due <=> t \in OnWheel /\ entries[t].deadline <= tick
    BY <1>1, <1>3 DEF Due
  <2>2. t \in OnWheel => Expires(t, entries[t].generation)
    BY OnWheelFacts
  <2> HIDE DEF due
  <2> QED BY <2>1, <2>2 DEF Expiring
<1>5. ASSUME NEW t \in Timers, t \in OnWheel, entries[t].deadline > tick
      PROVE  /\ entries'[t] \in Entry
             /\ entries'[t].deadline = entries[t].deadline
             /\ entries'[t].generation = entries[t].generation
             /\ Reachable(entries'[t], tick)
  <2>1. t \notin due
    <3>1. ~ (entries[t].deadline <= tick)
      BY <1>1, <1>3, <1>5
    <3> HIDE DEF due
    <3> QED BY <1>4, <3>1
  <2>2. CASE t \in found
    <3>1. entries'[t] = Place(moved[t].deadline, moved[t].generation, tick)
      BY <1>2, <2>1, <2>2
    <3> HIDE DEF found, due
    <3> QED BY <1>1, <1>3, <1>5, <3>1, PlaceReachable
  <2>3. CASE t \notin found
    <3>1. entries'[t] = moved[t]
      BY <1>2, <2>1, <2>3
    <3>2. entries[t].deadline # tick
      BY <1>1, <1>3, <1>5
    <3> QED BY <1>3, <1>5, <3>1, <3>2
  <2> QED BY <2>2, <2>3
<1>6. ASSUME NEW t \in Timers
      PROVE  /\ t \notin OnWheel => entries'[t] = NoEntry /\ timer'[t] = timer[t]
             /\ t \in OnWheel /\ entries[t].deadline <= tick =>
                   entries'[t] = NoEntry /\ timer'[t] = Expired(timer[t])
             /\ t \in OnWheel /\ entries[t].deadline > tick => timer'[t] = timer[t]
  <2>1. t \in OnWheel /\ entries[t].deadline > tick => ~ (entries[t].deadline <= tick)
    BY <1>1, <1>3
  <2>2. t \notin OnWheel => moved[t] = NoEntry /\ t \notin found
    BY DEF moved
  <2>3. timer'[t] = IF t \in due THEN Expired(timer[t]) ELSE timer[t]
    BY <1>2, <1>4
  <2>4. t \notin OnWheel => entries'[t] = NoEntry
    BY <1>2, <1>4, <2>2
  <2>5. t \in due => entries'[t] = NoEntry
    BY <1>2
  <2> HIDE DEF found, due
  <2> QED BY <1>4, <2>1, <2>3, <2>4, <2>5
<1>7. /\ entries' = [t \in Timers |-> entries'[t]]
      /\ timer' = [t \in Timers |-> timer'[t]]
  BY <1>2
<1> HIDE DEF found, due
<1> QED BY <1>1, <1>5, <1>6, <1>7 DEF Sweep

-----------------------------------------------------------------------------
(* Every action preserves it *)

LEMMA InitInv == Init => IInv
<1> SUFFICES ASSUME Init PROVE Scalars /\ TimersOK /\ CallInv
  BY Whole
<1>1. Unmade \in Timer
  BY DEF Unmade, Timer, Waiters
<1>2. Scalars /\ CallInv
  BY DEF Init, Scalars, CallInv, Calls
<1>3. TimersOK
  BY <1>1 DEF Init, TimersOK, TimerOK, Unmade
<1> QED BY <1>2, <1>3

LEMMA SweepKeeps ==
  ASSUME Scalars, TimersOK, Sweep(current')
  PROVE  /\ TimersOK'
         /\ \A t \in Timers : ~ timer[t].active => timer'[t] = timer[t]
<1>0. current \in Nat /\ current' \in Nat /\ current' > current
  BY DEF Sweep, Scalars
<1>1. ASSUME NEW t \in Timers
      PROVE  /\ TimerOK(timer'[t], entries'[t], current')
             /\ ~ timer[t].active => timer'[t] = timer[t]
  <2>1. TimerOK(timer[t], entries[t], current)
    BY DEF TimersOK
  <2>2. /\ timer[t] \in Timer /\ timer[t].deadline \in Nat
        /\ timer[t].expired \in Nat /\ timer[t].generation \in Nat
    BY <2>1 DEF TimerOK, Timer
  <2>3. t \in OnWheel <=> entries[t] # NoEntry
    BY DEF OnWheel
  <2>4. CASE t \notin OnWheel
    <3>1. entries'[t] = NoEntry /\ timer'[t] = timer[t] /\ entries[t] = NoEntry
      BY <2>3, <2>4 DEF Sweep
    <3>2. timer[t].deadline <= current => timer[t].deadline <= current'
      BY <1>0, <2>2
    <3> QED BY <2>1, <3>1, <3>2 DEF TimerOK
  <2>5. CASE t \in OnWheel
    <3>1. /\ entries[t] \in Entry /\ timer[t].active
          /\ entries[t].deadline = timer[t].deadline
          /\ entries[t].generation = timer[t].generation
          /\ timer[t].expired = 0
      BY <2>1, <2>3, <2>5 DEF TimerOK
    <3>2. CASE entries[t].deadline <= current'
      <4>1. entries'[t] = NoEntry /\ timer'[t] = Expired(timer[t])
        BY <2>5, <3>2 DEF Sweep
      <4>2. /\ timer'[t] \in Timer /\ ~ timer'[t].active
            /\ timer'[t].expired = timer'[t].generation
            /\ timer'[t].deadline = timer[t].deadline
        BY <2>2, <4>1, ExpiredTimer
      <4> QED BY <3>1, <3>2, <4>1, <4>2 DEF TimerOK
    <3>3. CASE entries[t].deadline > current'
      <4>1. /\ timer'[t] = timer[t]
            /\ entries'[t] \in Entry
            /\ entries'[t].deadline = entries[t].deadline
            /\ entries'[t].generation = entries[t].generation
            /\ Reachable(entries'[t], current')
        BY <2>5, <3>3 DEF Sweep
      <4> QED BY <2>2, <3>1, <4>1, EntryIsOne DEF TimerOK
    <3> QED BY <1>0, <2>2, <3>1, <3>2, <3>3
  <2> QED BY <2>4, <2>5
<1>2. /\ entries' = [t \in Timers |-> entries'[t]]
      /\ timer' = [t \in Timers |-> timer'[t]]
  BY DEF Sweep
<1> QED BY <1>1, <1>2 DEF TimersOK

(* One timer is changed, and with it its place on the wheel *)
LEMMA OneTimer ==
  ASSUME TimersOK, NEW t \in Timers, NEW o, NEW e,
         TimerOK(o, e, current),
         timer' = [timer EXCEPT ![t] = o],
         entries' = [entries EXCEPT ![t] = e],
         current' = current
  PROVE  TimersOK'
<1>1. \A u \in Timers : timer'[u] = IF u = t THEN o ELSE timer[u]
  BY DEF TimersOK
<1>2. \A u \in Timers : entries'[u] = IF u = t THEN e ELSE entries[u]
  BY DEF TimersOK
<1>3. /\ entries' = [u \in Timers |-> entries'[u]]
      /\ timer' = [u \in Timers |-> timer'[u]]
  BY DEF TimersOK
<1>4. \A u \in Timers : TimerOK(timer[u], entries[u], current)
  BY DEF TimersOK
<1>5. ASSUME NEW u \in Timers PROVE TimerOK(timer'[u], entries'[u], current')
  <2>1. CASE u = t
    BY <1>1, <1>2, <2>1
  <2>2. CASE u # t
    BY <1>1, <1>2, <1>4, <2>2
  <2> QED BY <2>1, <2>2
<1> QED BY <1>3, <1>5 DEF TimersOK

LEMMA AdvanceKeeps ==
  ASSUME IInv, NEW caller \in Calls, Advance(caller),
         caller \notin {NoCall, ByDriver} /\ caller.by = "create" => timer[caller.timer] = Unmade
  PROVE  IInv'
<1>0. Scalars /\ TimersOK /\ CallInv
  BY Whole
<1>1. CASE Lagging
  <2>1. Sweep(clock) /\ target' = clock /\ current' = clock
    BY <1>1, RebuildSweeps DEF Advance, Rebuild
  <2>2. Sweep(current')
    BY <2>1
  <2>3. /\ TimersOK' /\ \A t \in Timers : ~ timer[t].active => timer'[t] = timer[t]
    BY <1>0, <2>2, SweepKeeps
  <2>4. Scalars'
    BY <1>0, <2>1 DEF Advance, Scalars
  <2>5. CallInv'
    <3>1. call' = caller
      BY DEF Advance
    <3>2. caller \notin {NoCall, ByDriver} /\ caller.by = "create" => caller.timer \in Timers
      BY DEF Calls
    <3> QED BY <2>3, <3>1, <3>2 DEF CallInv, Unmade
  <2> QED BY <2>3, <2>4, <2>5, Whole, PTL
<1>2. CASE ~ Lagging
  <2>1. /\ UNCHANGED <<current, entries, timer, clock, driver, closed>>
        /\ call' = caller /\ target' = IF clock > current THEN clock ELSE current
    BY <1>2 DEF Advance
  <2>2. Scalars'
    BY <1>0, <2>1 DEF Scalars
  <2>3. TimersOK'
    BY <1>0, <2>1 DEF TimersOK
  <2>4. CallInv'
    BY <2>1 DEF CallInv
  <2> QED BY <2>2, <2>3, <2>4, Whole, PTL
<1> QED BY <1>1, <1>2

LEMMA DelayPositive ==
  ASSUME NEW ms \in Delays
  PROVE  DelayTicks(ms) \in Nat \ {0}
<1>1. ms \in Nat /\ TickMs \in Nat \ {0}
  BY InputsAssumption, SizesAssumption
<1>2. (ms + TickMs - 1) \div TickMs \in Nat
  <2>1. ms + TickMs - 1 \in Nat
    BY <1>1
  <2> QED BY <1>1, <2>1, Quotients
<1> QED BY <1>2 DEF DelayTicks

LEMMA CreateFacts ==
  ASSUME IInv, CreateDone
  PROVE  /\ call.timer \in Timers /\ call.ticks \in Nat \ {0}
         /\ timer[call.timer] = Unmade
         /\ current + call.ticks \in Nat
         /\ current + call.ticks > current
BY DEF IInv, TypeOK, Calls, CallInv, CreateDone, Returns, NoCall, ByDriver

LEMMA ResetFacts ==
  ASSUME IInv, ResetDone
  PROVE  /\ call.timer \in Timers /\ call.ticks \in Nat \ {0}
         /\ current + call.ticks \in Nat
         /\ current + call.ticks > current
BY DEF IInv, TypeOK, Calls, ResetDone, Returns, NoCall, ByDriver

LEMMA CreateKeeps ==
  ASSUME IInv, CreateDone
  PROVE  IInv'
<1>0. Scalars /\ TimersOK /\ CallInv
  BY Whole
<1> DEFINE t == call.timer
           deadline == current + call.ticks
           o == [Unmade EXCEPT !.generation = 1, !.active = TRUE, !.deadline = deadline]
           e == Place(deadline, 1, current)
<1>1. t \in Timers /\ deadline \in Nat /\ deadline > current /\ current \in Nat
  BY <1>0, CreateFacts DEF Scalars
<1>2. timer' = [timer EXCEPT ![t] = o] /\ entries' = [entries EXCEPT ![t] = e]
  BY DEF CreateDone
<1>3. current' = current /\ clock' = clock /\ call' = NoCall /\ driver' = Poke
      /\ target' = target /\ closed' = closed
  BY DEF CreateDone
<1> HIDE DEF deadline
<1>4. TimerOK(o, e, current)
  <2>1. /\ e \in Entry /\ e.deadline = deadline /\ e.generation = 1 /\ Reachable(e, current)
    BY <1>1, PlaceReachable
  <2>2. /\ o \in Timer /\ o.active /\ o.deadline = deadline /\ o.generation = 1 /\ o.expired = 0
    BY <1>1 DEF Unmade, Timer, Waiters
  <2> HIDE DEF o, e
  <2> QED BY <2>1, <2>2, EntryIsOne DEF TimerOK
<1> HIDE DEF o, e, t
<1>5. TimersOK'
  BY <1>0, <1>1, <1>2, <1>3, <1>4, OneTimer
<1>6. Scalars' /\ CallInv'
  BY <1>0, <1>3 DEF Scalars, Calls, CallInv, Poke
<1> QED BY <1>5, <1>6, Whole, PTL

LEMMA ResetKeeps ==
  ASSUME IInv, ResetDone
  PROVE  IInv'
<1>0. Scalars /\ TimersOK /\ CallInv
  BY Whole
<1> DEFINE t == call.timer
           deadline == current + call.ticks
           o == [timer[t] EXCEPT !.generation = @ + 1, !.deadline = deadline,
                                 !.expired = 0, !.consumed = FALSE]
           e == Moved(t, o)
<1>1. t \in Timers /\ deadline \in Nat /\ deadline > current /\ current \in Nat
  BY <1>0, ResetFacts DEF Scalars
<1>2. IF timer[t].active
      THEN timer' = [timer EXCEPT ![t] = o] /\ entries' = [entries EXCEPT ![t] = e]
      ELSE UNCHANGED <<timer, entries>>
  BY DEF ResetDone
<1>3. current' = current /\ clock' = clock /\ call' = NoCall /\ driver' = driver
      /\ target' = target /\ closed' = closed
  BY DEF ResetDone
<1>4. Scalars' /\ CallInv'
  BY <1>0, <1>3 DEF Scalars, Calls, CallInv
<1>5. CASE timer[t].active
  <2>1. TimerOK(timer[t], entries[t], current)
    BY <1>0, <1>1 DEF TimersOK
  <2> HIDE DEF deadline, t
  <2>7. timer[t] \in Timer /\ timer[t].generation + 1 \in Nat \ {0}
    BY <2>1 DEF TimerOK, Timer
  <2>2. /\ o \in Timer /\ o.active /\ o.deadline = deadline /\ o.expired = 0
        /\ o.generation \in Nat \ {0}
    <3> DEFINE g == timer[t].generation + 1
    <3>1. o = [timer[t] EXCEPT !.generation = g, !.deadline = deadline,
                               !.expired = 0, !.consumed = FALSE]
      BY <2>7 DEF Timer
    <3>2. g \in Nat \ {0}
      BY <2>7
    <3> HIDE DEF g, o
    <3> QED BY <1>1, <1>5, <2>7, <3>1, <3>2 DEF Timer
  <2>3. e = Place(o.deadline, o.generation, current)
    BY DEF Moved
  <2> HIDE DEF o, e
  <2>4. /\ e \in Entry /\ e.deadline = deadline /\ e.generation = o.generation
        /\ Reachable(e, current)
    BY <1>1, <2>2, <2>3, PlaceReachable
  <2>5. TimerOK(o, e, current)
    BY <2>2, <2>4, EntryIsOne DEF TimerOK
  <2>6. TimersOK'
    BY <1>0, <1>1, <1>2, <1>3, <1>5, <2>5, OneTimer
  <2> QED BY <1>4, <2>6, Whole, PTL
<1>6. CASE ~ timer[t].active
  <2>1. TimersOK'
    BY <1>0, <1>2, <1>3, <1>6 DEF TimersOK
  <2> QED BY <1>4, <2>1, Whole, PTL
<1> QED BY <1>5, <1>6

(* The steps of a waiter and of cancel: the timer stays as it is on the     *)
(* wheel, or it is taken off and no longer active                           *)
LEMMA WaiterTimer ==
  ASSUME NEW o \in Timer, NEW e, NEW now, TimerOK(o, e, now), NEW w \in Waiters, NEW b \in BOOLEAN
  PROVE  /\ TimerOK([o EXCEPT !.waiter = w], e, now)
         /\ TimerOK([o EXCEPT !.consumed = b], e, now)
         /\ TimerOK([o EXCEPT !.consumed = b, !.waiter = w], e, now)
BY DEF TimerOK, Timer

LEMMA CancelledTimer ==
  ASSUME NEW o \in Timer, NEW e, NEW now, TimerOK(o, e, now), NEW w \in Waiters
  PROVE  /\ o.active => TimerOK(Cancelled(o), NoEntry, now)
         /\ ~ o.active => TimerOK(Cancelled(o), e, now)
         /\ o.active => TimerOK([Cancelled(o) EXCEPT !.waiter = w], NoEntry, now)
BY DEF TimerOK, Timer, Cancelled, Waiters

LEMMA Unwheeled ==
  ASSUME TimersOK, NEW t \in Timers
  PROVE  /\ Removed({t}) = [entries EXCEPT ![t] = NoEntry]
         /\ entries = [entries EXCEPT ![t] = entries[t]]
BY DEF TimersOK, Removed

LEMMA CallStays ==
  ASSUME Scalars, CallInv, Idle, UNCHANGED <<clock, current, driver, call, target, closed>>
  PROVE  Scalars' /\ CallInv'
BY DEF Scalars, CallInv, Idle

LEMMA TimerStepsKeep ==
  ASSUME IInv, NEW t \in Timers, Cancel(t) \/ Wait(t) \/ DropWait(t) \/ WaitReturns(t)
  PROVE  IInv'
<1>0. Scalars /\ TimersOK /\ CallInv
  BY Whole
<1>1. TimerOK(timer[t], entries[t], current) /\ timer[t] \in Timer
  BY <1>0 DEF TimersOK, TimerOK
<1>2. Idle /\ UNCHANGED <<clock, current, driver, call, target, closed>>
  BY DEF Cancel, Wait, DropWait, WaitReturns
<1>3. Scalars' /\ CallInv'
  BY <1>0, <1>2, CallStays
<1>4. /\ Removed({t}) = [entries EXCEPT ![t] = NoEntry]
      /\ entries = [entries EXCEPT ![t] = entries[t]]
  BY <1>0, Unwheeled
<1>5. \E o, e : /\ TimerOK(o, e, current)
                /\ timer' = [timer EXCEPT ![t] = o]
                /\ entries' = [entries EXCEPT ![t] = e]
  <2>1. CASE Cancel(t)
    <3>1. /\ timer' = [timer EXCEPT ![t] = Cancelled(timer[t])]
          /\ entries' = IF timer[t].active THEN Removed({t}) ELSE entries
      BY <2>1 DEF Cancel
    <3>2. CASE timer[t].active
      BY <1>1, <1>4, <3>1, <3>2, CancelledTimer, "none" \in Waiters DEF Waiters
    <3>3. CASE ~ timer[t].active
      BY <1>1, <1>4, <3>1, <3>3, CancelledTimer, "none" \in Waiters DEF Waiters
    <3> QED BY <3>2, <3>3
  <2>2. CASE Wait(t)
    <3>1. /\ timer' = IF timer[t].expired # 0
                      THEN [timer EXCEPT ![t] = [timer[t] EXCEPT !.consumed = TRUE]]
                      ELSE [timer EXCEPT ![t] = [timer[t] EXCEPT !.waiter = "pending"]]
          /\ entries' = entries
      BY <2>2 DEF Wait
    <3>2. /\ TimerOK([timer[t] EXCEPT !.consumed = TRUE], entries[t], current)
          /\ TimerOK([timer[t] EXCEPT !.waiter = "pending"], entries[t], current)
      BY <1>1, WaiterTimer, "pending" \in Waiters DEF Waiters
    <3> QED BY <1>4, <3>1, <3>2
  <2>3. CASE DropWait(t)
    <3>1. /\ timer' = [timer EXCEPT ![t] = [timer[t] EXCEPT !.waiter = "dropped"]]
          /\ entries' = entries
      BY <2>3 DEF DropWait
    <3>2. TimerOK([timer[t] EXCEPT !.waiter = "dropped"], entries[t], current)
      BY <1>1, WaiterTimer, "dropped" \in Waiters, TRUE \in BOOLEAN DEF Waiters
    <3> QED BY <1>4, <3>1, <3>2
  <2>4. CASE WaitReturns(t)
    <3> DEFINE heard == timer[t].waiter = "expired"
    <3>1. /\ timer' = [timer EXCEPT ![t] =
                IF heard THEN [timer[t] EXCEPT !.consumed = TRUE, !.waiter = "none"]
                ELSE IF timer[t].active THEN [Cancelled(timer[t]) EXCEPT !.waiter = "none"]
                ELSE [timer[t] EXCEPT !.waiter = "none"]]
          /\ entries' = IF ~ heard /\ timer[t].active THEN Removed({t}) ELSE entries
      BY <2>4 DEF WaitReturns
    <3>2. /\ TimerOK([timer[t] EXCEPT !.consumed = TRUE, !.waiter = "none"], entries[t], current)
          /\ TimerOK([timer[t] EXCEPT !.waiter = "none"], entries[t], current)
      BY <1>1, WaiterTimer, "none" \in Waiters, TRUE \in BOOLEAN DEF Waiters
    <3>3. timer[t].active => TimerOK([Cancelled(timer[t]) EXCEPT !.waiter = "none"], NoEntry, current)
      BY <1>1, CancelledTimer, "none" \in Waiters DEF Waiters
    <3>4. CASE heard
      BY <1>4, <3>1, <3>2, <3>4
    <3>5. CASE ~ heard /\ timer[t].active
      BY <1>4, <3>1, <3>3, <3>5
    <3>6. CASE ~ heard /\ ~ timer[t].active
      BY <1>4, <3>1, <3>2, <3>6
    <3> QED BY <3>4, <3>5, <3>6
  <2> QED BY <2>1, <2>2, <2>3, <2>4
<1>6. TimersOK'
  BY <1>0, <1>2, <1>5, OneTimer
<1> QED BY <1>3, <1>6, Whole, PTL

LEMMA CloseKeeps ==
  ASSUME IInv, CloseEnds
  PROVE  IInv'
<1>0. Scalars /\ TimersOK /\ CallInv
  BY Whole
<1>1. /\ timer' = [t \in Timers |-> IF t \in OnWheel THEN Closed(timer[t]) ELSE timer[t]]
      /\ entries' = [t \in Timers |-> IF t \in OnWheel THEN NoEntry ELSE entries[t]]
      /\ UNCHANGED <<clock, current, driver, call, target>> /\ closed' = "closed"
  BY DEF CloseEnds, Removed
<1>2. ASSUME NEW t \in Timers PROVE TimerOK(timer'[t], entries'[t], current')
  <2>1. TimerOK(timer[t], entries[t], current) /\ (t \in OnWheel <=> entries[t] # NoEntry)
    BY <1>0 DEF TimersOK, OnWheel
  <2>2. CASE t \in OnWheel
    <3>1. timer'[t] = Closed(timer[t]) /\ entries'[t] = NoEntry /\ current' = current
      BY <1>1, <2>2
    <3> QED BY <2>1, <3>1 DEF TimerOK, Timer, Closed, Waiters
  <2>3. CASE t \notin OnWheel
    BY <1>0, <1>1, <2>3 DEF TimersOK
  <2> QED BY <2>2, <2>3
<1>3. TimersOK'
  BY <1>1, <1>2 DEF TimersOK
<1>4. CallInv'
  <2>1. \A t \in Timers : timer[t] = Unmade => timer'[t] = Unmade
    <3>1. \A t \in Timers : t \in OnWheel => timer[t].active
      BY <1>0 DEF TimersOK, TimerOK, OnWheel
    <3> QED BY <1>1, <3>1 DEF Unmade
  <2>2. call \notin {NoCall, ByDriver} => call.timer \in Timers
    BY <1>0 DEF Scalars, Calls
  <2> QED BY <1>0, <1>1, <2>1, <2>2 DEF CallInv
<1>5. Scalars'
  BY <1>0, <1>1 DEF Scalars
<1> QED BY <1>3, <1>4, <1>5, Whole, PTL

LEMMA StepInv == IInv /\ [Next]_vars => IInv'
<1> SUFFICES ASSUME IInv, [Next]_vars PROVE IInv'
  OBVIOUS
<1>0. Scalars /\ TimersOK /\ CallInv
  BY Whole
<1>1. CASE Elapse
  <2>1. Scalars' /\ CallInv' /\ TimersOK'
    BY <1>0, <1>1, InputsAssumption DEF Elapse, Scalars, CallInv, Idle, TimersOK
  <2> QED BY <2>1, Whole, PTL
<1>2. CASE Tick
  <2>1. Sweep(current') /\ current' \in Nat
    BY <1>2, TickSweeps DEF Tick, Sweep
  <2>2. TimersOK' /\ \A t \in Timers : ~ timer[t].active => timer'[t] = timer[t]
    BY <1>0, <2>1, SweepKeeps
  <2>3. Scalars'
    BY <1>0, <1>2, <2>1 DEF Tick, Scalars
  <2>4. CallInv'
    <3>1. call \notin {NoCall, ByDriver} => call.timer \in Timers
      BY <1>0 DEF Scalars, Calls
    <3>2. call' = call
      BY <1>2 DEF Tick
    <3> QED BY <1>0, <2>2, <3>1, <3>2 DEF CallInv, Unmade
  <2> QED BY <2>2, <2>3, <2>4, Whole, PTL
<1>3. CASE DriverWakes
  <2>1. Advance(ByDriver) /\ ByDriver \in Calls
    BY <1>3 DEF DriverWakes, Calls
  <2> QED BY <2>1, AdvanceKeeps
<1>4. CASE DriverDone \/ DriverPoked
  <2>1. Scalars' /\ CallInv' /\ TimersOK'
    BY <1>0, <1>4 DEF DriverDone, DriverPoked, DriverLooks, Scalars, Calls, CallInv, Idle, TimersOK
  <2> QED BY <2>1, Whole, PTL
<1>5. CASE CreateDone
  BY <1>5, CreateKeeps
<1>6. CASE ResetDone
  BY <1>6, ResetKeeps
<1>7. ASSUME NEW t \in Timers, NEW ms \in Delays, CreateBegins(t, ms) \/ ResetBegins(t, ms)
      PROVE  IInv'
  <2> DEFINE create == [by |-> "create", timer |-> t, ticks |-> DelayTicks(ms)]
             reset == [by |-> "reset", timer |-> t, ticks |-> DelayTicks(ms)]
  <2>1. create \in Calls /\ reset \in Calls
    BY DelayPositive DEF Calls
  <2>2. CASE CreateBegins(t, ms)
    <3>1. Advance(create) /\ timer[create.timer] = Unmade
      BY <2>2 DEF CreateBegins
    <3> HIDE DEF create
    <3> QED BY <2>1, <3>1, AdvanceKeeps
  <2>3. CASE ResetBegins(t, ms)
    <3>1. Advance(reset) /\ reset.by # "create"
      BY <2>3 DEF ResetBegins
    <3> HIDE DEF reset
    <3> QED BY <2>1, <3>1, AdvanceKeeps
  <2> QED BY <1>7, <2>2, <2>3
<1>8. ASSUME NEW t \in Timers, Cancel(t) \/ Wait(t) \/ DropWait(t) \/ WaitReturns(t)
      PROVE  IInv'
  BY <1>8, TimerStepsKeep
<1>9. CASE CloseBegins
  <2>1. Scalars' /\ CallInv' /\ TimersOK'
    BY <1>0, <1>9 DEF CloseBegins, Scalars, CallInv, TimersOK
  <2> QED BY <2>1, Whole, PTL
<1>10. CASE CloseEnds
  BY <1>10, CloseKeeps
<1>11. CASE UNCHANGED vars
  <2>1. Scalars' /\ CallInv' /\ TimersOK'
    BY <1>0, <1>11 DEF vars, Scalars, CallInv, TimersOK
  <2> QED BY <2>1, Whole, PTL
<1> QED
  BY <1>1, <1>2, <1>3, <1>4, <1>5, <1>6, <1>7, <1>8, <1>9, <1>10, <1>11
  DEF Next, Driver, Callers

LEMMA AlwaysIInv == Spec => []IInv
BY InitInv, StepInv, PTL DEF Spec

-----------------------------------------------------------------------------
(* What follows *)

(* The variables of the wheel keep their types, for wheels of any size.     *)
THEOREM TypeCorrect == Spec => []TypeOK
<1>1. IInv => TypeOK
  BY DEF IInv
<1> QED BY <1>1, AlwaysIInv, PTL

(* The active timers are exactly those on the wheel, each with its current  *)
(* deadline and generation (_remove before _insert in every reset).         *)
THEOREM HoldsActive == Spec => []WheelHoldsActive
<1>1. IInv => WheelHoldsActive
  BY DEF IInv
<1> QED BY <1>1, AlwaysIInv, PTL

(* No timer is ever late: cascades, catching up and rebuilding reach every  *)
(* entry by its deadline, whatever the sizes of the ring and of the levels. *)
THEOREM OnTime == Spec => []NeverLate
<1>1. IInv => NeverLate
  <2> SUFFICES ASSUME IInv, NEW t \in Timers, timer[t].active
               PROVE  timer[t].deadline > current
    BY DEF NeverLate
  <2> QED BY OnWheelFacts DEF Reachable
<1> QED BY <1>1, AlwaysIInv, PTL

(* No timer expires before its deadline or for an earlier reset. *)
THEOREM NotBefore == Spec => []NeverEarly
<1>1. IInv => NeverEarly
  BY DEF IInv
<1> QED BY <1>1, AlwaysIInv, PTL

-----------------------------------------------------------------------------
(* The wheel implements plain deadlines *)


Dues == [t \in Timers |-> DueOf(t)]
Rung == {t \in Timers : timer[t].expired # 0}

(* One timer changes and none goes off *)
LEMMA ChangesOne ==
  ASSUME NEW t \in Timers, NEW o, TimersOK,
         timer' = [timer EXCEPT ![t] = o]
  PROVE  Dues' = [Dues EXCEPT ![t] = IF o.active THEN o.deadline ELSE -1]
<1>1. \A u \in Timers : timer'[u] = IF u = t THEN o ELSE timer[u]
  BY DEF TimersOK
<1>2. \A u \in Timers : DueOf(u)' = IF u = t THEN (IF o.active THEN o.deadline ELSE -1) ELSE DueOf(u)
  BY <1>1 DEF DueOf
<1> QED BY <1>2 DEF Dues

LEMMA SweepReaches ==
  ASSUME IInv, Sweep(current')
  PROVE  PlainDeadlines!Reach
<1>0. TimersOK /\ current \in Nat
  BY Whole DEF Scalars
<1>1. current' > current
  BY DEF Sweep
<1>2. ASSUME NEW t \in Timers
      PROVE  /\ t \in PlainDeadlines!Over(current') <=> t \in OnWheel /\ entries[t].deadline <= current'
             /\ DueOf(t)' = IF t \in PlainDeadlines!Over(current') THEN -1 ELSE DueOf(t)
             /\ timer'[t].expired # 0 <=> timer[t].expired # 0 \/ t \in PlainDeadlines!Over(current')
  <2>1. /\ timer[t] \in Timer
        /\ t \in OnWheel <=> timer[t].active
        /\ t \in OnWheel => entries[t].deadline = timer[t].deadline /\ timer[t].deadline \in Nat
                            /\ entries[t].generation = timer[t].generation
                            /\ timer[t].generation # 0
    BY OnWheelFacts
  <2>2. t \in PlainDeadlines!Over(current') <=> t \in OnWheel /\ entries[t].deadline <= current'
    BY <2>1 DEF PlainDeadlines!Over, PlainDeadlines!Unset, DueOf
  <2>3. CASE t \notin OnWheel
    <3>1. timer'[t] = timer[t]
      BY <2>3 DEF Sweep
    <3> QED BY <2>1, <2>2, <2>3, <3>1 DEF DueOf
  <2>4. CASE t \in OnWheel /\ entries[t].deadline <= current'
    <3>1. timer'[t] = Expired(timer[t])
      BY <2>4 DEF Sweep
    <3>2. ~ timer'[t].active /\ timer'[t].expired = timer[t].generation
      BY <2>1, <3>1, ExpiredTimer
    <3> QED BY <2>1, <2>2, <2>4, <3>2 DEF DueOf
  <2>5. CASE t \in OnWheel /\ entries[t].deadline > current'
    <3>1. timer'[t] = timer[t]
      BY <2>5 DEF Sweep
    <3>2. ~ (entries[t].deadline <= current')
      BY <2>1, <2>5 DEF Sweep
    <3> QED BY <2>1, <2>2, <3>1, <3>2 DEF DueOf
  <2>6. t \in OnWheel => entries[t].deadline <= current' \/ entries[t].deadline > current'
    BY <2>1 DEF Sweep
  <2> QED BY <2>3, <2>4, <2>5, <2>6
<1>3. Dues' = [t \in Timers |-> IF t \in PlainDeadlines!Over(current') THEN -1 ELSE Dues[t]]
  BY <1>2 DEF Dues
<1>4. Rung' = Rung \cup PlainDeadlines!Over(current')
  <2>1. PlainDeadlines!Over(current') \subseteq Timers
    BY DEF PlainDeadlines!Over
  <2> QED BY <1>2, <2>1 DEF Rung
<1> QED BY <1>1, <1>3, <1>4 DEF PlainDeadlines!Reach, PlainDeadlines!Unset, Dues, Rung

Stutters == current' = current /\ Dues' = Dues /\ Rung' = Rung

LEMMA SameRung ==
  ASSUME NEW t \in Timers, NEW o, TimersOK,
         timer' = [timer EXCEPT ![t] = o],
         o.expired = timer[t].expired
  PROVE  Rung' = Rung
<1>1. \A u \in Timers : timer'[u].expired = timer[u].expired
  BY DEF TimersOK
<1> QED BY <1>1 DEF Rung

LEMMA AdvanceMaps ==
  ASSUME IInv, NEW caller, Advance(caller)
  PROVE  PlainDeadlines!Reach \/ Stutters
<1>1. CASE Lagging
  <2>1. Sweep(current')
    BY <1>1, RebuildSweeps DEF Advance, Rebuild
  <2> QED BY <2>1, SweepReaches
<1>2. CASE ~ Lagging
  BY <1>2 DEF Advance, Stutters, Dues, DueOf, Rung
<1> QED BY <1>1, <1>2

LEMMA CreateMaps ==
  ASSUME IInv, CreateDone
  PROVE  PlainDeadlines!Next
<1>0. TimersOK
  BY Whole
<1> DEFINE t == call.timer
           deadline == current + call.ticks
           o == [Unmade EXCEPT !.generation = 1, !.active = TRUE, !.deadline = deadline]
<1>1. t \in Timers /\ deadline \in Nat /\ deadline > current /\ timer[t] = Unmade
  BY CreateFacts
<1>2. timer' = [timer EXCEPT ![t] = o] /\ current' = current
  BY DEF CreateDone
<1>3. o.active /\ o.deadline = deadline /\ o.expired = timer[t].expired /\ timer[t].expired = 0
  BY <1>1 DEF Unmade
<1> HIDE DEF o, t, deadline
<1>4. Dues' = [Dues EXCEPT ![t] = deadline] /\ Rung' = Rung
  BY <1>0, <1>1, <1>2, <1>3, ChangesOne, SameRung
<1>5. Dues'[t] = deadline
  BY <1>1, <1>4 DEF Dues
<1>6. t \notin Rung
  BY <1>3 DEF Rung
<1>7. PlainDeadlines!Arm(t)
  BY <1>1, <1>2, <1>4, <1>5, <1>6 DEF PlainDeadlines!Arm, Dues, Rung
<1> QED BY <1>1, <1>7 DEF PlainDeadlines!Next

LEMMA ResetMaps ==
  ASSUME IInv, ResetDone
  PROVE  PlainDeadlines!Next \/ Stutters
<1>0. TimersOK
  BY Whole
<1> DEFINE t == call.timer
           deadline == current + call.ticks
           o == [timer[t] EXCEPT !.generation = @ + 1, !.deadline = deadline,
                                 !.expired = 0, !.consumed = FALSE]
<1>1. t \in Timers /\ deadline \in Nat /\ deadline > current
  BY ResetFacts
<1>2. timer[t].active => timer' = [timer EXCEPT ![t] = o]
  BY DEF ResetDone
<1>3. ~ timer[t].active => timer' = timer
  BY DEF ResetDone
<1>4. current' = current
  BY DEF ResetDone
<1>5. CASE timer[t].active
  <2>1. TimerOK(timer[t], entries[t], current)
    BY <1>0, <1>1 DEF TimersOK
  <2> HIDE DEF deadline, t
  <2>2. o.active /\ o.deadline = deadline /\ o.expired = 0 /\ timer[t].expired = 0
    BY <1>5, <2>1 DEF TimerOK, Timer
  <2> HIDE DEF o
  <2>3. Dues' = [Dues EXCEPT ![t] = deadline] /\ Rung' = Rung
    BY <1>0, <1>1, <1>2, <1>5, <2>2, ChangesOne, SameRung
  <2>4. Dues'[t] = deadline /\ t \notin Rung
    BY <1>1, <2>2, <2>3 DEF Dues, Rung
  <2>5. PlainDeadlines!Arm(t)
    BY <1>1, <1>4, <2>3, <2>4 DEF PlainDeadlines!Arm, Dues, Rung
  <2> QED BY <1>1, <2>5 DEF PlainDeadlines!Next
<1>6. CASE ~ timer[t].active
  BY <1>3, <1>4, <1>6 DEF Stutters, Dues, DueOf, Rung
<1> QED BY <1>5, <1>6

(* A timer that is cancelled, at once or by the end of its waiter *)
LEMMA CancelMaps ==
  ASSUME TimersOK, NEW t \in Timers, NEW o, ~ o.active, o.expired = timer[t].expired,
         timer' = [timer EXCEPT ![t] = o], current' = current
  PROVE  PlainDeadlines!Next
<1>1. Dues' = [Dues EXCEPT ![t] = -1] /\ Rung' = Rung
  BY ChangesOne, SameRung
<1>2. Dues' = [u \in Timers |-> IF u \in {t} THEN -1 ELSE Dues[u]]
  BY <1>1 DEF Dues
<1>3. PlainDeadlines!CallOff({t})
  BY <1>1, <1>2 DEF PlainDeadlines!CallOff, PlainDeadlines!Unset, Dues, Rung
<1> QED BY <1>3 DEF PlainDeadlines!Next

(* A timer whose waiter alone changed *)
LEMMA WaiterMaps ==
  ASSUME TimersOK, NEW t \in Timers, NEW o,
         o.active = timer[t].active, o.deadline = timer[t].deadline, o.expired = timer[t].expired,
         timer' = [timer EXCEPT ![t] = o], current' = current
  PROVE  Stutters
<1>1. Rung' = Rung
  BY SameRung
<1>2. Dues' = [Dues EXCEPT ![t] = IF o.active THEN o.deadline ELSE -1]
  BY ChangesOne
<1>3. Dues' = Dues
  BY <1>2 DEF Dues, DueOf
<1> QED BY <1>1, <1>3 DEF Stutters

LEMMA TimerStepsMap ==
  ASSUME IInv, NEW t \in Timers, Cancel(t) \/ Wait(t) \/ DropWait(t) \/ WaitReturns(t)
  PROVE  PlainDeadlines!Next \/ Stutters
<1>0. TimersOK /\ timer[t] \in Timer
  BY Whole, OnWheelFacts
<1>1. current' = current
  BY DEF Cancel, Wait, DropWait, WaitReturns
<1>2. CASE Cancel(t)
  <2>1. timer' = [timer EXCEPT ![t] = Cancelled(timer[t])]
    BY <1>2 DEF Cancel
  <2>2. ~ Cancelled(timer[t]).active /\ Cancelled(timer[t]).expired = timer[t].expired
    BY <1>0 DEF Cancelled, Timer
  <2> QED BY <1>0, <1>1, <2>1, <2>2, CancelMaps
<1>3. CASE Wait(t)
  <2> DEFINE o == IF timer[t].expired # 0 THEN [timer[t] EXCEPT !.consumed = TRUE]
                                          ELSE [timer[t] EXCEPT !.waiter = "pending"]
  <2>1. timer' = [timer EXCEPT ![t] = o]
    BY <1>3 DEF Wait
  <2>2. o.active = timer[t].active /\ o.deadline = timer[t].deadline /\ o.expired = timer[t].expired
    BY <1>0 DEF Timer
  <2> HIDE DEF o
  <2> QED BY <1>0, <1>1, <2>1, <2>2, WaiterMaps
<1>4. CASE DropWait(t)
  <2> DEFINE o == [timer[t] EXCEPT !.waiter = "dropped"]
  <2>1. timer' = [timer EXCEPT ![t] = o]
    BY <1>4 DEF DropWait
  <2>2. o.active = timer[t].active /\ o.deadline = timer[t].deadline /\ o.expired = timer[t].expired
    BY <1>0 DEF Timer
  <2> HIDE DEF o
  <2> QED BY <1>0, <1>1, <2>1, <2>2, WaiterMaps
<1>5. CASE WaitReturns(t)
  <2> DEFINE heard == timer[t].waiter = "expired"
             o == IF heard THEN [timer[t] EXCEPT !.consumed = TRUE, !.waiter = "none"]
                  ELSE IF timer[t].active THEN [Cancelled(timer[t]) EXCEPT !.waiter = "none"]
                  ELSE [timer[t] EXCEPT !.waiter = "none"]
  <2>1. timer' = [timer EXCEPT ![t] = o]
    BY <1>5 DEF WaitReturns
  <2>2. CASE ~ heard /\ timer[t].active
    <3>1. ~ o.active /\ o.expired = timer[t].expired
      BY <1>0, <2>2 DEF Timer, Cancelled
    <3> HIDE DEF o
    <3> QED BY <1>0, <1>1, <2>1, <3>1, CancelMaps
  <2>3. CASE heard \/ ~ timer[t].active
    <3>1. o.active = timer[t].active /\ o.deadline = timer[t].deadline /\ o.expired = timer[t].expired
      BY <1>0, <2>3 DEF Timer
    <3> HIDE DEF o
    <3> QED BY <1>0, <1>1, <2>1, <3>1, WaiterMaps
  <2> QED BY <2>2, <2>3
<1> QED BY <1>2, <1>3, <1>4, <1>5

LEMMA CloseMaps ==
  ASSUME IInv, CloseEnds
  PROVE  PlainDeadlines!Next
<1>1. /\ timer' = [t \in Timers |-> IF t \in OnWheel THEN Closed(timer[t]) ELSE timer[t]]
      /\ current' = current
  BY DEF CloseEnds
<1>2. ASSUME NEW t \in Timers
      PROVE  /\ DueOf(t)' = IF t \in OnWheel THEN -1 ELSE DueOf(t)
             /\ timer'[t].expired = timer[t].expired
  <2>1. timer[t] \in Timer
    BY OnWheelFacts
  <2>2. ~ Closed(timer[t]).active /\ Closed(timer[t]).expired = timer[t].expired
    BY <2>1 DEF Closed, Timer
  <2> QED BY <1>1, <2>2 DEF DueOf
<1>3. Dues' = [t \in Timers |-> IF t \in OnWheel THEN -1 ELSE Dues[t]] /\ Rung' = Rung
  BY <1>2 DEF Dues, Rung
<1>4. PlainDeadlines!CallOff(OnWheel) /\ OnWheel \in SUBSET Timers
  BY <1>1, <1>3 DEF PlainDeadlines!CallOff, PlainDeadlines!Unset, Dues, Rung, OnWheel
<1> QED BY <1>4 DEF PlainDeadlines!Next

LEMMA StepMaps == IInv /\ [Next]_vars => PlainDeadlines!Next \/ Stutters
<1> SUFFICES ASSUME IInv, [Next]_vars PROVE PlainDeadlines!Next \/ Stutters
  OBVIOUS
<1>1. CASE Elapse \/ DriverDone \/ DriverPoked \/ CloseBegins \/ UNCHANGED vars
  BY <1>1 DEF Elapse, DriverDone, DriverPoked, CloseBegins, vars, Stutters, Dues, DueOf, Rung
<1>2. CASE Tick
  <2>1. Sweep(current')
    BY <1>2, TickSweeps DEF Tick
  <2> QED BY <2>1, SweepReaches DEF PlainDeadlines!Next
<1>3. ASSUME NEW caller, Advance(caller) PROVE PlainDeadlines!Next \/ Stutters
  BY <1>3, AdvanceMaps DEF PlainDeadlines!Next
<1>4. CASE DriverWakes
  BY <1>3, <1>4 DEF DriverWakes
<1>5. ASSUME NEW t \in Timers, NEW ms \in Delays, CreateBegins(t, ms) \/ ResetBegins(t, ms)
      PROVE  PlainDeadlines!Next \/ Stutters
  BY <1>3, <1>5 DEF CreateBegins, ResetBegins
<1>6. CASE CreateDone
  BY <1>6, CreateMaps
<1>7. CASE ResetDone
  BY <1>7, ResetMaps
<1>8. ASSUME NEW t \in Timers, Cancel(t) \/ Wait(t) \/ DropWait(t) \/ WaitReturns(t)
      PROVE  PlainDeadlines!Next \/ Stutters
  BY <1>8, TimerStepsMap
<1>9. CASE CloseEnds
  BY <1>9, CloseMaps
<1> QED
  BY <1>1, <1>2, <1>4, <1>5, <1>6, <1>7, <1>8, <1>9 DEF Next, Driver, Callers

(* The wheel implements a plain set of deadlines: whatever it does is, to   *)
(* the users of its timers, a deadline set, one called off, or the clock    *)
(* moving over exactly those it has come to.                                *)
THEOREM Implements == Spec => KeepsDeadlines
<1>1. Init => PlainDeadlines!Init
  BY DEF Init, PlainDeadlines!Init, PlainDeadlines!Unset, DueOf, Unmade
<1>2. IInv /\ [Next]_vars =>
        [PlainDeadlines!Next]_<<current, [t \in Timers |-> DueOf(t)],
                                {t \in Timers : timer[t].expired # 0}>>
  BY StepMaps DEF Stutters, Dues, Rung
<1> QED BY <1>1, <1>2, AlwaysIInv, PTL DEF Spec, PlainDeadlines!Spec, KeepsDeadlines
=============================================================================

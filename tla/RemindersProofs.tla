-------------------------- MODULE RemindersProofs --------------------------
(***************************************************************************)
(* Proofs about Reminders and about the worker their wakes go to,           *)
(* RuntimeLoop (the last part).                                             *)
(*                                                                         *)
(* Reminders, for any number of reminders, owners, commands and upsets:     *)
(* SlotsGoForward and WokenOrOwed.  The invariant says of a reminder as it  *)
(* is stored that it was last written at or after the moment it last fired  *)
(* for, and that it is to fire for a later one; and of whoever is about to  *)
(* write one that it holds the owner's lock and what it read is still so.   *)
(***************************************************************************)
EXTENDS Reminders, RuntimeLoop, FiniteSetTheorems, FunctionTheorems, SequenceTheorems,
        WellFoundedInduction, TLAPS

Moments == Nat \cup {Never}
RemRec == [state : {"none", "scheduled", "fired", "canceled"}, next : Moments,
           repeat : BOOLEAN, rev : Nat, updated : Nat]
SchPcs == {"off", "recover", "tell", "list", "fire", "commit", "frontier", "arm",
           "wait", "sleep", "retry"}
Lefts == 0 .. Recheck
SchRec == [pc : SchPcs, due : Seq([r : Rems, m : RemRec]), told : SUBSET Owners, cur : RemRec,
           at : Nat, seen : Moments, left : Lefts, after : {"list", "off", "retry"}]
Scheduling == {"schedule", "schedule_repeat"}

Asked(k) == k.pc = "asked" /\ k.kind \in Kinds /\ k.r \in Rems /\ k.x \in Delays /\ k.at \in Nat
Held(k) == /\ k.pc = "held" /\ k.r \in Rems /\ k.was \in Nat
           /\ k.to \in RemRec /\ k.to.state \in {"scheduled", "canceled"}
Saved(k) == k.pc = "saved" /\ k.r \in Rems

Typed ==
    /\ now \in 0 .. MaxTime
    /\ rem \in [Rems -> RemRec] /\ slot \in [Rems -> Moments]
    /\ unread \subseteq Owners /\ hint \subseteq Owners /\ missed \subseteq Owners
    /\ node \in {"down", "starting", "up", "stopping"}
    /\ agentUp \in BOOLEAN /\ poke \in BOOLEAN /\ deaf \in BOOLEAN
    /\ sch \in SchRec
    /\ lock \in [Owners -> Cmds \cup {Nobody, Scheduler}]
    /\ cmd \in [Cmds -> {cmd[c] : c \in Cmds}]
    /\ \A c \in Cmds : cmd[c] = Idle \/ Asked(cmd[c]) \/ Held(cmd[c]) \/ Saved(cmd[c])

(* The reminder m, which last fired for the moment s                        *)
Sound(m, s) ==
    /\ m.state = "scheduled" <=> m.next # Never
    /\ m.state = "fired" => ~ m.repeat
    /\ m.state = "scheduled" => m.next > s
    /\ m.updated >= s
    /\ m.state = "none" => s = Never

AllSound == \A r \in Rems : Sound(rem[r], slot[r])

(* Who holds a lock is about to write, and who is about to write holds it   *)
Cur == Head(sch.due).r
LockInv ==
    /\ \A o \in Owners :
        /\ lock[o] = Scheduler => sch.pc = "commit" /\ Owner[Cur] = o
        /\ lock[o] \in Cmds => cmd[lock[o]].pc = "held" /\ Owner[cmd[lock[o]].r] = o
    /\ sch.pc = "commit" => lock[Owner[Cur]] = Scheduler
    /\ \A c \in Cmds : cmd[c].pc = "held" => lock[Owner[cmd[c].r]] = c

(* What the scheduler is about to write is the reminder it read             *)
SchInv ==
    /\ sch.pc \in {"fire", "commit"} => sch.due # <<>>
    /\ sch.pc = "commit" => /\ sch.cur = rem[Cur] /\ sch.cur.state = "scheduled"
                            /\ sch.at >= sch.cur.updated /\ sch.at >= sch.cur.next
    /\ node = "down" => sch.pc # "commit"

(* A reminder to be scheduled is nobody else's; any other is there          *)
CmdInv ==
    \A c \in Cmds :
        /\ cmd[c].pc = "held" => Sound(cmd[c].to, slot[cmd[c].r])
        /\ cmd[c].pc = "asked" /\ cmd[c].kind \notin Scheduling => rem[cmd[c].r].state # "none"
        /\ cmd[c].pc = "asked" /\ cmd[c].kind \in Scheduling =>
              /\ rem[cmd[c].r].state = "none"
              /\ \A d \in Cmds \ {c} : cmd[d] # Idle => cmd[d].r # cmd[c].r

IInv == Typed /\ AllSound /\ LockInv /\ SchInv /\ CmdInv

-----------------------------------------------------------------------------
(* Transitions of a reminder *)

(* The reminder fires for its moment and goes on to a later one.            *)
LEMMA FiredSound ==
    ASSUME NEW m \in RemRec, NEW s \in Moments, Sound(m, s), m.state = "scheduled",
           NEW at \in Nat, at >= m.updated, at >= m.next
    PROVE  /\ Fired(m, at) \in RemRec /\ Sound(Fired(m, at), m.next)
           /\ Fired(m, at).state # "none" /\ m.next \in Nat
<1> DEFINE next == IF m.repeat THEN m.next + Period ELSE Never
           state == IF m.repeat THEN "scheduled" ELSE "fired"
           f == [m EXCEPT !.rev = @ + 1, !.updated = at, !.state = state, !.next = next]
<1>1. m.next \in Nat /\ m.repeat \in BOOLEAN /\ Period \in Nat \ {0}
  BY NumbersAssumption DEF RemRec, Sound, Moments
<1>2. next \in Moments /\ state \in {"scheduled", "fired"} /\ m.rev + 1 \in Nat
  BY <1>1 DEF Moments, RemRec
<1>3. /\ state = "scheduled" <=> next # Never
      /\ state = "fired" => ~ m.repeat
      /\ state = "scheduled" => next > m.next
  BY <1>1 DEF Never
<1>4. Fired(m, at) = f
  BY DEF Fired, Changed, RemRec
<1> HIDE DEF next, state
<1>5. /\ f \in RemRec /\ f.state = state /\ f.next = next /\ f.updated = at /\ f.repeat = m.repeat
  BY <1>2 DEF RemRec
<1> HIDE DEF f
<1>6. Sound(f, m.next)
  BY <1>2, <1>3, <1>5 DEF Sound
<1> QED BY <1>1, <1>2, <1>4, <1>5, <1>6

LEMMA CanceledSound ==
    ASSUME NEW m \in RemRec, NEW s \in Moments, Sound(m, s), NEW at \in Nat, at >= m.updated
    PROVE  /\ Canceled(m, at) \in RemRec /\ Sound(Canceled(m, at), s)
           /\ Canceled(m, at).state = "canceled"
<1> DEFINE f == [m EXCEPT !.rev = @ + 1, !.updated = at, !.state = "canceled", !.next = Never]
<1>1. Canceled(m, at) = f
  BY DEF Canceled, Changed, RemRec
<1>2. /\ f \in RemRec /\ f.state = "canceled" /\ f.next = Never /\ f.updated = at
  <2>1. Never \in Moments /\ m.rev + 1 \in Nat
    BY DEF Moments, RemRec
  <2> QED BY <2>1 DEF RemRec
<1>3. at >= s
  BY DEF Sound, RemRec, Moments, Never
<1> HIDE DEF f
<1> QED BY <1>1, <1>2, <1>3 DEF Sound

(* What a command makes of a reminder it is allowed to change comes after   *)
(* what that fired for: a time of the command's own counts from when it     *)
(* was asked for, which is not before the reminder was last written.        *)
LEMMA MakesSound ==
    ASSUME Typed, NEW k, Asked(k), NEW s \in Moments, NEW m \in RemRec, Sound(m, s), Allowed(k, m),
           k.kind \in Scheduling <=> m.state = "none"
    PROVE  /\ Makes(k, m) \in RemRec /\ Sound(Makes(k, m), s)
           /\ Makes(k, m).state \in {"scheduled", "canceled"}
<1>1. k.x \in Nat \ {0} /\ k.at \in Nat /\ now \in Nat
  BY NumbersAssumption DEF Typed, Asked
<1>2. CASE m.state = "none"
  <2>1. s = Never /\ k.at + k.x \in Nat
    BY <1>1, <1>2 DEF Sound
  <2>2. PICK repeat \in BOOLEAN : Makes(k, m) = New(now, k.at + k.x, repeat)
    BY <1>2 DEF Makes, Scheduling
  <2>3. Makes(k, m) = [state |-> "scheduled", next |-> k.at + k.x, repeat |-> repeat, rev |-> 1, updated |-> now]
    BY <2>2 DEF New, NoRem
  <2> QED BY <1>1, <2>1, <2>3 DEF Sound, RemRec, Moments, Never
<1>3. CASE m.state # "none"
  <2>1. k.at >= m.updated /\ (m.state = "scheduled" \/ (m.state = "fired" /\ k.kind = "snooze"))
    BY <1>3 DEF Allowed, NotBackwards
  <2>2. m.updated >= s /\ m.updated \in Nat /\ m.rev + 1 \in Nat
    BY DEF Sound, RemRec
  <2>3. m.state = "scheduled" => m.next \in Nat /\ m.next > s
    BY DEF Sound, RemRec, Moments
  <2>4. s \in Int /\ Never \in Int /\ Never = -1
    BY DEF Moments, Never
  <2>5. k.at >= s
    BY <1>1, <2>1, <2>2, <2>4
  <2>6. CASE k.kind = "snooze"
    <3> DEFINE next == (IF m.state = "scheduled" THEN m.next ELSE k.at) + k.x
               f == [m EXCEPT !.rev = @ + 1, !.updated = k.at, !.state = "scheduled", !.next = next]
    <3>1. Makes(k, m) = f
      BY <2>6 DEF Makes, Snoozed, Changed, RemRec
    <3>2. next \in Nat /\ next > s
      BY <1>1, <2>3, <2>4, <2>5
    <3> HIDE DEF next
    <3>3. f \in RemRec /\ f.state = "scheduled" /\ f.next = next /\ f.updated = k.at
      BY <1>1, <2>2, <3>2 DEF RemRec, Moments
    <3> HIDE DEF f
    <3> QED BY <2>4, <2>5, <3>1, <3>2, <3>3 DEF Sound
  <2>7. CASE k.kind = "retime"
    <3> DEFINE next == k.at + k.x
               f == [m EXCEPT !.rev = @ + 1, !.updated = k.at, !.next = next]
    <3>1. Makes(k, m) = f
      BY <2>7 DEF Makes, Retimed, Changed, RemRec
    <3>2. next \in Nat /\ next > s
      BY <1>1, <2>4, <2>5
    <3> HIDE DEF next
    <3>3. f \in RemRec /\ f.state = m.state /\ f.next = next /\ f.updated = k.at
      BY <1>1, <2>2, <3>2 DEF RemRec, Moments
    <3> HIDE DEF f
    <3> QED BY <2>1, <2>4, <2>5, <2>7, <3>1, <3>2, <3>3 DEF Sound
  <2>8. CASE k.kind = "repeat"
    <3> DEFINE f == [m EXCEPT !.rev = @ + 1, !.updated = k.at, !.repeat = TRUE]
    <3>1. Makes(k, m) = f
      BY <2>8 DEF Makes, Repeated, Changed, RemRec
    <3>2. f \in RemRec /\ f.state = m.state /\ f.next = m.next /\ f.updated = k.at
      BY <1>1, <2>2 DEF RemRec
    <3> HIDE DEF f
    <3> QED BY <2>1, <2>3, <2>4, <2>5, <2>8, <3>1, <3>2 DEF Sound
  <2>9. CASE k.kind = "cancel"
    <3>1. Makes(k, m) = Canceled(m, k.at)
      BY <2>9 DEF Makes
    <3> QED BY <1>1, <2>1, <3>1, CanceledSound
  <2> QED BY <1>3, <2>6, <2>7, <2>8, <2>9 DEF Asked, Kinds, Scheduling
<1> QED BY <1>2, <1>3

-----------------------------------------------------------------------------
(* The scheduler *)

LEMMA Names ==
    /\ Nobody # Scheduler /\ Nobody \notin Cmds /\ Scheduler \notin Cmds
    /\ \A r \in Rems : Owner[r] \in Owners
BY NumbersAssumption DEF Nobody, Scheduler, Rems, Owners

(* One list entry, as it was read.                                          *)
LEMMA CurRem ==
    ASSUME sch \in SchRec, sch.due # <<>>
    PROVE  /\ Cur \in Rems /\ Head(sch.due).m \in RemRec /\ Tail(sch.due) \in Seq([r : Rems, m : RemRec])
           /\ Len(sch.due) # 1 => Tail(sch.due) # <<>>
<1>1. sch.due \in Seq([r : Rems, m : RemRec])
  BY DEF SchRec
<1>2. Head(sch.due) \in [r : Rems, m : RemRec] /\ Tail(sch.due) \in Seq([r : Rems, m : RemRec])
      /\ Len(Tail(sch.due)) = Len(sch.due) - 1
  BY <1>1, HeadTailProperties
<1>3. Len(sch.due) \in Nat
  BY <1>1, LenProperties
<1>4. Len(sch.due) # 1 => Tail(sch.due) # <<>>
  <2> SUFFICES ASSUME Tail(sch.due) = <<>> PROVE Len(sch.due) = 1
    OBVIOUS
  <2>1. Len(Tail(sch.due)) = 0
    BY EmptySeq
  <2> QED BY <1>2, <1>3, <2>1
<1> QED BY <1>2, <1>4 DEF Cur

(* What is not about reminders, locks and commands                          *)
Besides ==
    /\ now \in 0 .. MaxTime
    /\ unread \subseteq Owners /\ hint \subseteq Owners /\ missed \subseteq Owners
    /\ node \in {"down", "starting", "up", "stopping"}
    /\ agentUp \in BOOLEAN /\ poke \in BOOLEAN /\ deaf \in BOOLEAN

(* The scheduler holds no lock any more, and wrote only under its own.      *)
LEMMA LetsGo ==
    ASSUME IInv, Besides', cmd' = cmd,
           sch' \in SchRec, sch'.pc # "commit", sch'.pc = "fire" => sch'.due # <<>>,
           lock' \in [Owners -> Cmds \cup {Nobody, Scheduler}],
           \A o \in Owners : lock'[o] = IF lock[o] = Scheduler THEN Nobody ELSE lock[o],
           rem' \in [Rems -> RemRec], slot' \in [Rems -> Moments], AllSound',
           \A r \in Rems : rem'[r] # rem[r] \/ slot'[r] # slot[r] =>
               lock[Owner[r]] = Scheduler /\ rem[r].state # "none" /\ rem'[r].state # "none"
    PROVE  IInv'
<1>1. Typed'
  BY DEF IInv, Typed, Besides, Asked, Held, Saved
<1>2. LockInv'
  BY Names DEF IInv, LockInv, Typed, Held, Asked, Saved, Idle
<1>3. SchInv'
  BY DEF SchInv
<1>4. CmdInv'
  <2> SUFFICES ASSUME NEW c \in Cmds
               PROVE  /\ cmd[c].pc = "held" => Sound(cmd[c].to, slot'[cmd[c].r])
                      /\ cmd[c].pc = "asked" /\ cmd[c].kind \notin Scheduling => rem'[cmd[c].r].state # "none"
                      /\ cmd[c].pc = "asked" /\ cmd[c].kind \in Scheduling =>
                            /\ rem'[cmd[c].r].state = "none"
                            /\ \A d \in Cmds \ {c} : cmd[d] # Idle => cmd[d].r # cmd[c].r
    BY DEF CmdInv, Sound
  <2>1. cmd[c].pc \in {"held", "asked"} => cmd[c].r \in Rems
    BY DEF IInv, Typed, Asked, Held, Saved, Idle
  <2>2. CASE cmd[c].pc = "held"
    BY <2>1, <2>2, Names DEF IInv, LockInv, CmdInv
  <2>3. CASE cmd[c].pc = "asked"
    BY <2>1, <2>3 DEF IInv, CmdInv
  <2> QED BY <2>2, <2>3
<1> QED BY <1>1, <1>2, <1>3, <1>4 DEF IInv

(* The scheduler, without a lock, does something else.                      *)
LEMMA GoesOn ==
    ASSUME IInv, sch.pc # "commit", Besides', UNCHANGED <<rem, slot, lock, cmd>>,
           sch' \in SchRec, sch'.pc # "commit", sch'.pc = "fire" => sch'.due # <<>>
    PROVE  IInv'
<1>1. \A o \in Owners : lock[o] # Scheduler
  BY DEF IInv, LockInv
<1>2. AllSound'
  BY DEF IInv, AllSound, Sound
<1>3. /\ rem' \in [Rems -> RemRec] /\ slot' \in [Rems -> Moments]
      /\ lock' \in [Owners -> Cmds \cup {Nobody, Scheduler}]
  BY DEF IInv, Typed
<1> QED BY <1>1, <1>2, <1>3, LetsGo

LEMMA LeftsFacts == Lefts \subseteq Nat /\ 0 \in Lefts /\ \A n \in Lefts : n > 0 => n - 1 \in Lefts
BY NumbersAssumption DEF Lefts

LEMMA NoRemType == NoRem \in RemRec /\ Never \in Moments /\ Sound(NoRem, Never)
BY DEF NoRem, RemRec, Moments, Sound, Never

LEMMA AsleepType ==
    /\ Asleep \in SchRec /\ Asleep.pc = "off"
    /\ [Asleep EXCEPT !.pc = "recover"] \in SchRec
<1>1. <<>> \in Seq([r : Rems, m : RemRec])
  BY EmptySeq
<1> QED BY <1>1, NoRemType, LeftsFacts DEF Asleep, SchRec, SchPcs

LEMMA RaisedType ==
    ASSUME sch \in SchRec
    PROVE  Raised \in SchRec /\ Raised.pc = "tell"
<1>1. AfterError \in {"off", "retry"}
  BY DEF AfterError
<1>2. <<>> \in Seq([r : Rems, m : RemRec])
  BY EmptySeq
<1> HIDE DEF AfterError
<1> QED BY <1>1, <1>2, NoRemType DEF Raised, SchRec, SchPcs

LEMMA FurtherType ==
    ASSUME sch \in SchRec, sch.due # <<>>
    PROVE  /\ Further \in SchRec /\ Further.pc \in {"tell", "fire"} /\ Further.told = sch.told
           /\ Further.pc = "fire" => Further.due # <<>>
<1> DEFINE goal == IF Len(sch.due) = 1 THEN "tell" ELSE "fire"
           due == Tail(sch.due)
           f == [sch EXCEPT !.due = due, !.pc = goal, !.after = "list", !.cur = NoRem, !.at = 0]
<1>1. due \in Seq([r : Rems, m : RemRec]) /\ goal \in {"tell", "fire"} /\ (goal = "fire" => due # <<>>)
  BY CurRem
<1>2. Further = f
  BY DEF Further
<1> HIDE DEF goal, due
<1>3. f \in SchRec /\ f.pc = goal /\ f.due = due /\ f.told = sch.told
  BY <1>1, NoRemType DEF SchRec, SchPcs
<1> QED BY <1>1, <1>2, <1>3

(* There is an earliest reminder where there is one.                        *)
LEMMA FrontierType ==
    ASSUME Typed, AllSound
    PROVE  Frontier \in Moments
<1> DEFINE times == {rem[r].next : r \in Scheduled}
<1>1. CASE times = {}
  BY <1>1 DEF Frontier, Moments
<1>2. CASE times # {}
  <2>1. times \subseteq Nat
    BY DEF Scheduled, Typed, RemRec, Moments, AllSound, Sound
  <2>2. Frontier = CHOOSE t \in times : \A u \in times : t <= u
    BY <1>2 DEF Frontier
  <2> HIDE DEF times
  <2>3. PICK m \in times : \A i \in times : <<i, m>> \notin OpToRel(<, Nat)
    BY <1>2, <2>1, NatLessThanWellFounded, WFMin
  <2>4. ASSUME NEW i \in times PROVE m <= i
    <3>1. <<i, m>> \notin OpToRel(<, Nat)
      BY <2>3
    <3>2. ~ (i < m)
      BY <2>1, <3>1 DEF OpToRel
    <3> QED BY <2>1, <3>2
  <2> QED BY <2>1, <2>2, <2>4 DEF Moments
<1> QED BY <1>1, <1>2

(* What is listed as due is stored.                                         *)
LEMMA SnapshotsType ==
    ASSUME Typed, DueNow # {}, NEW taken \in Batches
    PROVE  Snapshots(taken) \in Seq([r : Rems, m : RemRec]) /\ Snapshots(taken) # <<>>
<1> DEFINE due == Cardinality(DueNow)
           size == IF due < BatchSize THEN due ELSE BatchSize
<1>1. IsFiniteSet(Rems) /\ DueNow \subseteq Rems
  BY NumbersAssumption DEF Rems, DueNow, Scheduled
<1>2. due \in Nat \ {0}
  BY <1>1, FS_Subset, FS_CardinalityType, FS_EmptySet
<1>3. size \in Nat \ {0}
  BY <1>2, NumbersAssumption
<1>4. taken \in [1 .. size -> DueNow]
  BY DEF Batches
<1> HIDE DEF size
<1>5. Snapshots(taken) \in [1 .. size -> [r : Rems, m : RemRec]]
  BY <1>1, <1>4 DEF Snapshots, Typed
<1>6. Snapshots(taken) \in Seq([r : Rems, m : RemRec])
  <2> DEFINE E == [r : Rems, m : RemRec]
  <2> HIDE DEF E
  <2>1. Snapshots(taken) \in UNION {[1 .. n -> E] : n \in Nat}
    BY <1>3, <1>5 DEF E
  <2>2. Snapshots(taken) \in Seq(E)
    BY <2>1, SeqDef
  <2> QED BY <2>2 DEF E
<1>7. Snapshots(taken) # <<>>
  <2>1. DOMAIN Snapshots(taken) = 1 .. size /\ 1 \in 1 .. size
    BY <1>3, <1>5
  <2>2. DOMAIN <<>> = {}
    OBVIOUS
  <2> QED BY <2>1, <2>2
<1> QED BY <1>6, <1>7

(* The scheduler publishes, lists, waits or is woken.                       *)
LEMMA WaitsKeep ==
    ASSUME IInv,
           \/ Recover \/ (\E o \in Owners : Tell(o)) \/ AllTold \/ List \/ NothingDue
           \/ ReadFrontier \/ Arm \/ Poked \/ TimerFires \/ RetryAfter
    PROVE  IInv'
<1>1. Typed /\ sch \in SchRec
  BY DEF IInv, Typed
<1>2. UNCHANGED <<rem, slot, lock, cmd>>
  BY DEF Recover, Tell, AllTold, List, NothingDue, ReadFrontier, Arm, Poked, TimerFires,
         RetryAfter, Stored
<1>3. sch.pc # "commit"
  BY DEF Recover, Tell, AllTold, List, NothingDue, ReadFrontier, Arm, Poked, TimerFires,
         RetryAfter, At
<1>4. Besides'
  <2>1. UNCHANGED <<now, unread, agentUp>>
    BY DEF Recover, Tell, AllTold, List, NothingDue, ReadFrontier, Arm, Poked, TimerFires,
           RetryAfter, Stored
  <2>2. hint' \subseteq Owners /\ missed' \subseteq Owners
    <3>1. ASSUME NEW o \in Owners, Tell(o) PROVE hint' \subseteq Owners /\ missed' \subseteq Owners
      BY <1>1, <3>1 DEF Tell, Typed
    <3>2. CASE ~ \E o \in Owners : Tell(o)
      BY <1>1, <3>2 DEF Recover, AllTold, List, NothingDue, ReadFrontier, Arm, Poked, TimerFires,
             RetryAfter, Typed
    <3> QED BY <3>1, <3>2
  <2>3. node' = node \/ node' = "up"
    <3>1. CASE NothingDue
      <4>1. node \in {"starting", "up", "stopping"}
        BY <1>1, <3>1 DEF NothingDue, At, Typed
      <4> QED BY <3>1, <4>1 DEF NothingDue
    <3>2. CASE ~ NothingDue
      BY <3>2 DEF Recover, Tell, AllTold, List, ReadFrontier, Arm, Poked, TimerFires, RetryAfter
    <3> QED BY <3>1, <3>2
  <2>4. poke' \in {poke, FALSE} /\ deaf' \in {deaf, FALSE}
    BY DEF Recover, Tell, AllTold, List, NothingDue, ReadFrontier, Arm, Poked, TimerFires,
           RetryAfter
  <2> QED BY <1>1, <2>1, <2>2, <2>3, <2>4 DEF Typed, Besides
<1>5. ASSUME NEW x \in SchRec, sch' = x, x.pc # "commit", x.pc = "fire" => x.due # <<>>
      PROVE  IInv'
  BY <1>2, <1>3, <1>4, <1>5, GoesOn
<1>6. ASSUME NEW goal \in SchPcs \ {"commit", "fire"}
      PROVE  /\ [sch EXCEPT !.pc = goal] \in SchRec /\ [sch EXCEPT !.pc = goal].pc = goal
             /\ [sch EXCEPT !.pc = goal, !.left = 0, !.seen = Never] \in SchRec
             /\ [sch EXCEPT !.pc = goal, !.left = 0, !.seen = Never].pc = goal
  BY <1>1, <1>6, LeftsFacts, NoRemType DEF SchRec
<1>7. CASE Recover
  <2> DEFINE x == [sch EXCEPT !.pc = "tell", !.told = unread, !.after = "list"]
  <2>1. x \in SchRec /\ x.pc = "tell"
    BY <1>1 DEF SchRec, SchPcs, Typed
  <2> HIDE DEF x
  <2> QED BY <1>5, <1>7, <2>1 DEF Recover, Sch, x
<1>8. ASSUME NEW o \in Owners, Tell(o) PROVE IInv'
  <2> DEFINE told == sch.told \ {o}
             x == [sch EXCEPT !.told = told]
  <2>1. sch' = x /\ sch.pc = "tell"
    BY <1>8 DEF Tell, Sch, At
  <2>2. told \in SUBSET Owners
    BY <1>1 DEF SchRec
  <2> HIDE DEF told
  <2>3. x \in SchRec /\ x.pc = sch.pc
    BY <1>1, <2>2 DEF SchRec
  <2> QED BY <1>5, <2>1, <2>3
<1>9. CASE AllTold
  <2>1. sch.after \in SchPcs \ {"commit", "fire"}
    BY <1>1 DEF SchRec, SchPcs
  <2> QED BY <1>5, <1>6, <1>9, <2>1 DEF AllTold, Sch
<1>10. CASE List
  <2>1. PICK taken \in Batches : sch' = [sch EXCEPT !.pc = "fire", !.due = Snapshots(taken)]
    BY <1>10 DEF List, Sch
  <2>2. Snapshots(taken) \in Seq([r : Rems, m : RemRec]) /\ Snapshots(taken) # <<>>
    BY <1>1, <1>10, SnapshotsType DEF List
  <2> DEFINE x == [sch EXCEPT !.pc = "fire", !.due = Snapshots(taken)]
  <2>3. x \in SchRec /\ x.pc = "fire" /\ x.due # <<>>
    BY <1>1, <2>2 DEF SchRec, SchPcs
  <2> QED BY <1>5, <2>1, <2>3
<1>11. CASE NothingDue
  <2>1. node \in {"starting", "up", "stopping"}
    BY <1>1, <1>11 DEF NothingDue, At, Typed
  <2> DEFINE x(goal) == [sch EXCEPT !.pc = goal]
  <2>5. /\ x("list") \in SchRec /\ x("list").pc = "list"
        /\ x("frontier") \in SchRec /\ x("frontier").pc = "frontier"
    BY <1>1 DEF SchRec, SchPcs
  <2>2. CASE node = "starting"
    <3>1. sch' = [sch EXCEPT !.pc = "list"]
      BY <1>11, <2>2 DEF NothingDue, Sch
    <3> QED BY <1>5, <2>5, <3>1
  <2>3. CASE node = "up"
    <3>1. sch' = [sch EXCEPT !.pc = "frontier"]
      BY <1>11, <2>3 DEF NothingDue, Sch
    <3> QED BY <1>5, <2>5, <3>1
  <2>4. CASE node = "stopping"
    <3>1. sch' = Asleep
      BY <1>11, <2>4 DEF NothingDue, Sch
    <3> QED BY <1>5, <3>1, AsleepType
  <2> QED BY <2>1, <2>2, <2>3, <2>4
<1>12. CASE ReadFrontier
  <2> DEFINE x == [sch EXCEPT !.pc = "arm", !.seen = Frontier]
  <2>1. Frontier \in Moments
    BY FrontierType DEF IInv
  <2>2. x \in SchRec /\ x.pc = "arm"
    BY <1>1, <2>1 DEF SchRec, SchPcs
  <2> QED BY <1>5, <1>12, <2>2 DEF ReadFrontier, Sch
<1>13. CASE Arm
  <2> DEFINE remaining == sch.seen - now
             goal == CASE sch.seen = Never -> "wait"
                       [] sch.seen # Never /\ remaining <= 0 -> "list"
                       [] OTHER -> "sleep"
             left == IF sch.seen # Never /\ remaining > 0
                     THEN IF remaining < Recheck THEN remaining ELSE Recheck
                     ELSE 0
             x == [sch EXCEPT !.pc = goal, !.left = left]
  <2>1. sch' = x
    BY <1>13 DEF Arm, Sch
  <2>2. goal \in {"wait", "list", "sleep"}
    OBVIOUS
  <2>3. left \in Lefts
    <3>1. sch.seen \in Moments /\ now \in Nat /\ Recheck \in Nat \ {0}
      BY <1>1, NumbersAssumption DEF SchRec, Typed
    <3>2. remaining \in Int
      BY <3>1 DEF Moments, Never
    <3> HIDE DEF remaining
    <3> QED BY <3>1, <3>2 DEF Lefts
  <2> HIDE DEF goal, left
  <2>4. x \in SchRec /\ x.pc = goal
    BY <1>1, <2>2, <2>3 DEF SchRec, SchPcs
  <2> QED BY <1>5, <2>1, <2>2, <2>4
<1>14. CASE Poked \/ TimerFires \/ RetryAfter
  <2>1. \/ sch' = [sch EXCEPT !.pc = "list", !.left = 0, !.seen = Never]
        \/ sch' = [sch EXCEPT !.pc = "list"]
    BY <1>14 DEF Poked, TimerFires, RetryAfter, Sch
  <2> QED BY <1>5, <1>6, <2>1 DEF SchPcs
<1> QED BY <1>7, <1>8, <1>9, <1>10, <1>11, <1>12, <1>13, <1>14

(* The scheduler raises, or goes to the next of its batch without writing.  *)
LEMMA GivesUp ==
    ASSUME IInv, UNCHANGED <<rem, slot, cmd>>, Besides',
           NEW x \in SchRec, sch' = x, x.pc # "commit", x.pc = "fire" => x.due # <<>>,
           lock' = [o \in Owners |-> IF lock[o] = Scheduler THEN Nobody ELSE lock[o]]
    PROVE  IInv'
<1>1. lock' \in [Owners -> Cmds \cup {Nobody, Scheduler}]
  BY DEF IInv, Typed
<1>2. AllSound' /\ rem' \in [Rems -> RemRec] /\ slot' \in [Rems -> Moments]
  BY DEF IInv, Typed, AllSound, Sound
<1> QED BY <1>1, <1>2, LetsGo

LEMMA RereadKeeps ==
    ASSUME IInv, Reread
    PROVE  IInv'
<1> DEFINE o == Owner[Cur]
           m == rem[Cur]
<1>1. Typed /\ sch \in SchRec /\ sch.pc = "fire" /\ sch.due # <<>> /\ Cur \in Rems /\ lock[o] = Nobody
  BY CurRem DEF IInv, Typed, SchInv, Reread, At, Cur
<1>2. Besides' /\ UNCHANGED <<rem, slot, cmd, now>>
  BY <1>1 DEF Reread, Stored, Typed, Besides
<1>3. CASE sch' = Further /\ lock' = [lock EXCEPT ![o] = Nobody]
  <2>1. lock' = lock
    BY <1>1, <1>3, Names DEF Typed
  <2> QED BY <1>1, <1>2, <1>3, <2>1, FurtherType, GoesOn
<1>4. CASE sch' = Raised /\ UNCHANGED lock
  BY <1>1, <1>2, <1>4, RaisedType, GoesOn
<1>5. CASE /\ lock' = [lock EXCEPT ![o] = Scheduler]
           /\ sch' = [sch EXCEPT !.pc = "commit", !.cur = m, !.at = now]
           /\ m.state = "scheduled" /\ m.next <= now /\ now >= m.updated /\ node' # "down"
  <2>0. m \in RemRec /\ now \in Nat
    BY <1>1, NumbersAssumption DEF Typed
  <2>1. /\ sch' \in SchRec /\ sch'.pc = "commit" /\ sch'.cur = m /\ sch'.at = now /\ sch'.due = sch.due
    <3> HIDE DEF m
    <3> QED BY <1>1, <1>5, <2>0 DEF SchRec, SchPcs
  <2>2. o \in Owners /\ \A q \in Owners : lock'[q] = IF q = o THEN Scheduler ELSE lock[q]
    BY <1>1, <1>5, Names DEF Typed
  <2>3. Typed'
    BY <1>1, <1>2, <1>5, <2>1 DEF Typed, Besides, Asked, Held, Saved
  <2>4. LockInv'
    BY <1>1, <1>2, <2>1, <2>2, Names DEF IInv, LockInv, Cur, Typed, Held, Asked, Saved, Idle
  <2>5. SchInv'
    BY <1>1, <1>2, <1>5, <2>1 DEF SchInv, Cur
  <2>6. AllSound' /\ CmdInv'
    BY <1>2 DEF IInv, AllSound, CmdInv, Sound
  <2> QED BY <2>3, <2>4, <2>5, <2>6 DEF IInv
<1> QED
  BY <1>3, <1>4, <1>5 DEF Reread, At, Cur, Fires, NextOfBatch, Unlock, Sch, NotBackwards

(* The scheduler writes what it read, as it fires or cannot be used.        *)
LEMMA CommitKeeps ==
    ASSUME IInv, Materialize \/ CancelUnusable
    PROVE  IInv'
<1> DEFINE o == Owner[Cur]
           m == rem[Cur]
<1>1. /\ Typed /\ sch \in SchRec /\ sch.pc = "commit" /\ sch.due # <<>>
      /\ lock[o] = Scheduler /\ sch.cur = m /\ m.state = "scheduled"
      /\ sch.at >= m.updated /\ sch.at >= m.next /\ sch.at \in Nat
  BY DEF IInv, Typed, SchInv, LockInv, Materialize, CancelUnusable, At, SchRec
<1>2. Cur \in Rems /\ m \in RemRec /\ slot[Cur] \in Moments /\ Sound(m, slot[Cur]) /\ o \in Owners
  BY <1>1, CurRem, Names DEF IInv, Typed, AllSound
<1>3. Besides' /\ cmd' = cmd
  BY <1>1, <1>2 DEF Materialize, CancelUnusable, Typed, Besides, Stored, Cur
<1>4. ASSUME lock' = [lock EXCEPT ![o] = Nobody]
      PROVE  lock' = [p \in Owners |-> IF lock[p] = Scheduler THEN Nobody ELSE lock[p]]
  BY <1>1, <1>2, <1>4 DEF IInv, LockInv, Typed
<1>5. ASSUME NEW f \in RemRec, rem' = [rem EXCEPT ![Cur] = f], f.state # "none",
             NEW s \in Moments, slot' = [slot EXCEPT ![Cur] = s], Sound(f, s),
             NEW x \in SchRec, sch' = x, x.pc # "commit", x.pc = "fire" => x.due # <<>>,
             lock' = [lock EXCEPT ![o] = Nobody]
      PROVE  IInv'
  <2>1. /\ rem' \in [Rems -> RemRec] /\ slot' \in [Rems -> Moments]
        /\ \A r \in Rems : rem'[r] = IF r = Cur THEN f ELSE rem[r]
        /\ \A r \in Rems : slot'[r] = IF r = Cur THEN s ELSE slot[r]
    BY <1>1, <1>2, <1>5 DEF Typed
  <2>2. AllSound'
    BY <1>5, <2>1 DEF IInv, AllSound, Sound
  <2>3. lock' \in [Owners -> Cmds \cup {Nobody, Scheduler}]
    BY <1>1, <1>5 DEF Typed
  <2> QED BY <1>1, <1>3, <1>4, <1>5, <2>1, <2>2, <2>3, LetsGo
<1>6. CASE Materialize
  <2> DEFINE told == Further.told \cup {o}
             x == [Further EXCEPT !.told = told]
  <2>1. rem[Cur].rev = sch.cur.rev /\ rem[Cur].state = "scheduled"
    BY <1>1
  <2>2. /\ rem' = [rem EXCEPT ![Cur] = Fired(m, sch.at)] /\ slot' = [slot EXCEPT ![Cur] = m.next]
        /\ lock' = [lock EXCEPT ![o] = Nobody] /\ sch' = x
    BY <1>1, <1>6, <2>1 DEF Materialize, Cur, Unlock, Sch
  <2>3. Further.told \in SUBSET Owners
    BY <1>1, FurtherType DEF SchRec
  <2>4. told \in SUBSET Owners
    BY <1>2, <2>3
  <2> HIDE DEF told
  <2>5. x \in SchRec /\ x.pc = Further.pc /\ x.due = Further.due
    BY <1>1, <2>4, FurtherType DEF SchRec
  <2> HIDE DEF x
  <2>6. /\ Fired(m, sch.at) \in RemRec /\ Sound(Fired(m, sch.at), m.next)
        /\ Fired(m, sch.at).state # "none" /\ m.next \in Moments
    BY <1>1, <1>2, FiredSound DEF Moments
  <2> QED BY <1>1, <1>5, <2>2, <2>5, <2>6, FurtherType
<1>7. CASE CancelUnusable
  <2>1. /\ rem' = [rem EXCEPT ![Cur] = Canceled(m, sch.at)] /\ slot' = slot
        /\ lock' = [lock EXCEPT ![o] = Nobody] /\ sch' = Further
    BY <1>1, <1>7 DEF CancelUnusable, Cur, NextOfBatch, Unlock, Sch
  <2>2. slot' = [slot EXCEPT ![Cur] = slot[Cur]]
    BY <1>1, <2>1 DEF Typed
  <2>3. /\ Canceled(m, sch.at) \in RemRec /\ Sound(Canceled(m, sch.at), slot[Cur])
        /\ Canceled(m, sch.at).state # "none"
    BY <1>1, <1>2, CanceledSound
  <2> QED BY <1>1, <1>2, <1>5, <2>1, <2>2, <2>3, FurtherType
<1> QED BY <1>6, <1>7

LEMMA TellFailsKeeps ==
    ASSUME IInv, NEW o \in Owners, TellFails(o)
    PROVE  IInv'
<1>1. sch \in SchRec /\ Besides' /\ UNCHANGED <<rem, slot, lock, cmd>> /\ sch.pc = "tell"
  BY DEF IInv, Typed, TellFails, Stored, Besides, At
<1> DEFINE told == sch.told \ {o}
           x == [sch EXCEPT !.told = told]
<1>2. told \in SUBSET Owners /\ sch' = x
  BY <1>1 DEF SchRec, TellFails, Sch
<1> HIDE DEF told
<1>3. x \in SchRec /\ x.pc = "tell"
  BY <1>1, <1>2 DEF SchRec
<1> QED BY <1>1, <1>2, <1>3, GoesOn

LEMMA CycleFailsKeeps ==
    ASSUME IInv, CycleFails
    PROVE  IInv'
<1>1. sch \in SchRec /\ Besides' /\ UNCHANGED <<rem, slot, cmd>>
  BY DEF IInv, Typed, CycleFails, Stored, Besides
<1> QED BY <1>1, RaisedType, GivesUp DEF CycleFails, Sch

-----------------------------------------------------------------------------
(* The commands *)

LEMMA CmdRem ==
    ASSUME Typed, NEW c \in Cmds
    PROVE  cmd[c] # Idle => cmd[c].r \in Rems
BY DEF Typed, Asked, Held, Saved, Idle

(* A command that has no lock, or has one and gives it back, goes on        *)
(* without writing.                                                         *)
LEMMA CmdGoesOn ==
    ASSUME IInv, Besides', UNCHANGED <<rem, slot, sch, node>>,
           NEW c \in Cmds, NEW k, cmd' = [cmd EXCEPT ![c] = k],
           k = Idle \/ (Saved(k) /\ cmd[c] # Idle /\ k.r = cmd[c].r),
           lock' \in [Owners -> Cmds \cup {Nobody, Scheduler}],
           \A o \in Owners : lock'[o] = IF lock[o] = c THEN Nobody ELSE lock[o]
    PROVE  IInv'
<1>1. \A d \in Cmds : cmd'[d] = IF d = c THEN k ELSE cmd[d]
  BY DEF IInv, Typed
<1>2. Typed'
  BY <1>1 DEF IInv, Typed, Besides, Asked, Held, Saved
<1>3. k.pc \notin {"asked", "held"}
  BY DEF Saved, Idle
<1>4. LockInv'
  <2>1. \A o \in Owners : lock'[o] # c
    BY Names
  <2>2. ASSUME NEW o \in Owners
        PROVE  /\ lock'[o] = Scheduler => sch.pc = "commit" /\ Owner[Cur] = o
               /\ lock'[o] \in Cmds => cmd'[lock'[o]].pc = "held" /\ Owner[cmd'[lock'[o]].r] = o
    <3>1. lock'[o] # Nobody => lock'[o] = lock[o]
      OBVIOUS
    <3> QED BY <1>1, <2>1, <3>1, Names DEF IInv, LockInv
  <2>3. sch.pc = "commit" => lock'[Owner[Cur]] = Scheduler
    <3> SUFFICES ASSUME sch.pc = "commit" PROVE lock'[Owner[Cur]] = Scheduler
      OBVIOUS
    <3>1. Cur \in Rems
      BY CurRem DEF IInv, Typed, SchInv
    <3>2. Owner[Cur] \in Owners /\ lock[Owner[Cur]] = Scheduler
      BY <3>1, Names DEF IInv, LockInv
    <3> QED BY <3>2, Names
  <2>4. ASSUME NEW d \in Cmds, cmd'[d].pc = "held" PROVE lock'[Owner[cmd'[d].r]] = d
    <3>1. d # c /\ cmd'[d] = cmd[d]
      BY <1>1, <1>3, <2>4
    <3>2. cmd[d] # Idle
      BY <2>4, <3>1 DEF Idle
    <3>3. cmd[d].r \in Rems /\ lock[Owner[cmd[d].r]] = d
      BY <2>4, <3>1, <3>2, CmdRem DEF IInv, LockInv
    <3>4. Owner[cmd[d].r] \in Owners
      BY <3>3, Names
    <3> QED BY <3>1, <3>3, <3>4
  <2>5. UNCHANGED Cur
    BY DEF Cur
  <2> QED BY <2>2, <2>3, <2>4, <2>5 DEF LockInv
<1>5. AllSound' /\ SchInv'
  BY DEF IInv, AllSound, Sound, SchInv, Cur
<1>6. CmdInv'
  BY <1>1, <1>3 DEF IInv, CmdInv, Sound
<1> QED BY <1>2, <1>4, <1>5, <1>6 DEF IInv

(* One more command is asked for: a new reminder is taken by nobody else.   *)
LEMMA AskKeeps ==
    ASSUME IInv, NEW c \in Cmds, NEW kind \in Kinds, NEW r \in Rems, NEW x \in Delays,
           Ask(c, kind, r, x)
    PROVE  IInv'
<1> DEFINE k == [pc |-> "asked", kind |-> kind, r |-> r, x |-> x, at |-> now]
<1>1. /\ Typed /\ cmd[c] = Idle /\ UNCHANGED <<now, rem, unread, slot, node, agentUp, hint, sch, poke, lock, missed, deaf>>
      /\ \A d \in Cmds : cmd'[d] = IF d = c THEN k ELSE cmd[d]
      /\ cmd' \in [Cmds -> {cmd'[d] : d \in Cmds}]
  BY DEF IInv, Typed, Ask, Run, Stored
<1>2. Asked(k)
  BY <1>1, NumbersAssumption DEF Asked, Typed
<1>3. Typed'
  BY <1>1, <1>2 DEF Typed, Asked, Held, Saved
<1>4. k.pc = "asked" /\ k.kind = kind /\ k.r = r /\ Idle.pc = "idle"
  BY DEF Idle
<1>5. LockInv'
  <2>1. \A o \in Owners : lock[o] # c
    BY <1>1, <1>4 DEF IInv, LockInv
  <2> HIDE DEF k
  <2> QED BY <1>1, <1>4, <2>1 DEF IInv, LockInv, Cur
<1>6. AllSound' /\ SchInv'
  BY <1>1 DEF IInv, AllSound, Sound, SchInv, Cur
<1>7. kind \in Scheduling =>
        /\ rem[r].state = "none"
        /\ \A d \in Cmds : cmd[d] # Idle => cmd[d].r # r
  <2> SUFFICES ASSUME kind \in Scheduling
               PROVE  rem[r].state = "none" /\ \A d \in Cmds : cmd[d] # Idle => cmd[d].r # r
    OBVIOUS
  <2> DEFINE free == {q \in Rems : rem[q].state = "none" /\ \A d \in Cmds : cmd[d] # Idle => cmd[d].r # q}
  <2>1. r = NewRem /\ r # 0
    BY NumbersAssumption DEF Ask, Scheduling, Rems
  <2>2. free # {} /\ r = CHOOSE q \in free : \A p \in free : q <= p
    BY <2>1 DEF NewRem
  <2>3. r \in free
    <3>1. free \subseteq Nat
      BY NumbersAssumption DEF Rems
    <3> HIDE DEF free
    <3>2. PICK q \in free : \A i \in free : <<i, q>> \notin OpToRel(<, Nat)
      BY <2>2, <3>1, NatLessThanWellFounded, WFMin
    <3>3. ASSUME NEW i \in free PROVE q <= i
      <4>1. <<i, q>> \notin OpToRel(<, Nat)
        BY <3>2
      <4>2. ~ (i < q)
        BY <3>1, <4>1 DEF OpToRel
      <4> QED BY <3>1, <4>2
    <3> QED BY <2>2, <3>3
  <2> QED BY <2>3
<1>8. kind \notin Scheduling => rem[r].state # "none"
  BY DEF Ask, Scheduling
<1>9. CmdInv'
  <2> HIDE DEF k
  <2>1. ASSUME NEW d \in Cmds
        PROVE  /\ cmd'[d].pc = "held" => Sound(cmd'[d].to, slot[cmd'[d].r])
               /\ cmd'[d].pc = "asked" /\ cmd'[d].kind \notin Scheduling => rem[cmd'[d].r].state # "none"
               /\ cmd'[d].pc = "asked" /\ cmd'[d].kind \in Scheduling =>
                     /\ rem[cmd'[d].r].state = "none"
                     /\ \A e \in Cmds \ {d} : cmd'[e] # Idle => cmd'[e].r # cmd'[d].r
    <3>1. CASE d = c
      BY <1>1, <1>4, <1>7, <1>8, <3>1
    <3>2. CASE d # c
      <4>1. cmd'[d] = cmd[d]
        BY <1>1, <3>2
      <4>2. CASE cmd[d].pc = "asked" /\ cmd[d].kind \in Scheduling
        <5>1. rem[cmd[d].r].state = "none" /\ cmd[d] # Idle
          BY <1>4, <4>2 DEF IInv, CmdInv
        <5>2. r # cmd[d].r
          BY <1>7, <1>8, <5>1
        <5> QED BY <1>1, <1>4, <4>1, <4>2, <5>1, <5>2 DEF IInv, CmdInv
      <4>3. CASE ~ (cmd[d].pc = "asked" /\ cmd[d].kind \in Scheduling)
        BY <4>1, <4>3 DEF IInv, CmdInv
      <4> QED BY <4>2, <4>3
    <3> QED BY <3>1, <3>2
  <2> QED BY <1>1, <2>1 DEF CmdInv, Sound
<1> QED BY <1>3, <1>5, <1>6, <1>9 DEF IInv

(* With the lock, what a command makes of a reminder is worked out.         *)
LEMMA HoldKeeps ==
    ASSUME IInv, NEW c \in Cmds, Hold(c)
    PROVE  IInv'
<1> DEFINE k == cmd[c]
           m == rem[k.r]
           o == Owner[k.r]
           h == [pc |-> "held", r |-> k.r, was |-> m.rev, to |-> Makes(k, m)]
<1>1. /\ Typed /\ Asked(k) /\ k # Idle /\ k.r \in Rems /\ o \in Owners /\ lock[o] = Nobody
      /\ m \in RemRec /\ slot[k.r] \in Moments /\ Sound(m, slot[k.r])
  BY Names DEF IInv, Typed, AllSound, Hold, Asked, Held, Saved, Idle
<1>2. Besides' /\ UNCHANGED <<now, rem, slot, sch, node>>
  BY <1>1 DEF Hold, Stored, Typed, Besides
<1>3. \A q \in Owners : lock[q] # c
  BY DEF IInv, LockInv, Hold
<1>4. CASE ~ Allowed(k, m)
  <2>1. cmd' = [cmd EXCEPT ![c] = Idle] /\ lock' = lock
    BY <1>4 DEF Hold, Run
  <2> QED BY <1>1, <1>2, <1>3, <2>1, CmdGoesOn DEF Typed
<1>5. CASE Allowed(k, m)
  <2>1. cmd' = [cmd EXCEPT ![c] = h] /\ lock' = [lock EXCEPT ![o] = c]
    BY <1>5 DEF Hold, Run
  <2>2. k.kind \in Scheduling <=> m.state = "none"
    BY <1>1 DEF IInv, CmdInv, Asked
  <2>3. /\ Makes(k, m) \in RemRec /\ Sound(Makes(k, m), slot[k.r])
        /\ Makes(k, m).state \in {"scheduled", "canceled"}
    BY <1>1, <1>5, <2>2, MakesSound
  <2>4. Held(h) /\ h.r = k.r /\ h.to = Makes(k, m) /\ h.pc = "held"
    BY <1>1, <2>3 DEF Held, RemRec
  <2> HIDE DEF h
  <2>5. /\ \A d \in Cmds : cmd'[d] = IF d = c THEN h ELSE cmd[d]
        /\ \A q \in Owners : lock'[q] = IF q = o THEN c ELSE lock[q]
        /\ cmd' \in [Cmds -> {cmd'[d] : d \in Cmds}]
    BY <1>1, <2>1 DEF Typed
  <2>6. Typed'
    BY <1>1, <1>2, <2>1, <2>4, <2>5 DEF Typed, Besides, Asked, Held, Saved
  <2>7. LockInv'
    <3>1. ASSUME NEW q \in Owners
          PROVE  /\ lock'[q] = Scheduler => sch.pc = "commit" /\ Owner[Cur] = q
                 /\ lock'[q] \in Cmds => cmd'[lock'[q]].pc = "held" /\ Owner[cmd'[lock'[q]].r] = q
      BY <1>3, <2>4, <2>5, Names DEF IInv, LockInv
    <3>2. sch.pc = "commit" => lock'[Owner[Cur]] = Scheduler
      <4> SUFFICES ASSUME sch.pc = "commit" PROVE lock'[Owner[Cur]] = Scheduler
        OBVIOUS
      <4>1. Cur \in Rems
        BY CurRem DEF IInv, Typed, SchInv
      <4>2. Owner[Cur] \in Owners /\ lock[Owner[Cur]] = Scheduler
        BY <4>1, Names DEF IInv, LockInv
      <4> QED BY <1>1, <2>5, <4>2, Names
    <3>3. ASSUME NEW d \in Cmds, cmd'[d].pc = "held" PROVE lock'[Owner[cmd'[d].r]] = d
      <4>1. CASE d = c
        BY <1>1, <2>4, <2>5, <4>1
      <4>2. CASE d # c
        <5>1. cmd'[d] = cmd[d] /\ cmd[d] # Idle
          BY <2>5, <3>3, <4>2 DEF Idle
        <5>2. cmd[d].r \in Rems /\ lock[Owner[cmd[d].r]] = d
          BY <1>1, <3>3, <5>1, CmdRem DEF IInv, LockInv
        <5> QED BY <1>1, <2>5, <5>1, <5>2, Names
      <4> QED BY <4>1, <4>2
    <3>4. UNCHANGED <<Cur, sch>>
      BY <1>2 DEF Cur
    <3> QED BY <3>1, <3>2, <3>3, <3>4 DEF LockInv
  <2>8. AllSound' /\ SchInv'
    BY <1>2 DEF IInv, AllSound, Sound, SchInv, Cur
  <2>9. CmdInv'
    BY <1>1, <1>2, <2>3, <2>4, <2>5 DEF IInv, CmdInv, Sound
  <2> QED BY <2>6, <2>7, <2>8, <2>9 DEF IInv
<1> QED BY <1>4, <1>5

(* A command writes what it made of the reminder it holds the lock of.      *)
LEMMA SaveKeeps ==
    ASSUME IInv, NEW c \in Cmds, Save(c)
    PROVE  IInv'
<1> DEFINE k == cmd[c]
           o == Owner[k.r]
           v == [pc |-> "saved", r |-> k.r]
<1>1. /\ Typed /\ Held(k) /\ k # Idle /\ k.r \in Rems /\ o \in Owners /\ lock[o] = c
      /\ Sound(k.to, slot[k.r])
  BY Names DEF IInv, Typed, Save, Asked, Held, Saved, Idle, LockInv, CmdInv
<1>2. /\ Besides' /\ UNCHANGED <<slot, sch, node>>
      /\ rem' = [rem EXCEPT ![k.r] = k.to] /\ lock' = [lock EXCEPT ![o] = Nobody]
      /\ cmd' = [cmd EXCEPT ![c] = v]
  BY <1>1 DEF Save, Typed, Besides, Unlock, Run
<1>3. Saved(v) /\ v.pc = "saved" /\ v.r = k.r
  BY <1>1 DEF Saved
<1> HIDE DEF v
<1>4. /\ \A d \in Cmds : cmd'[d] = IF d = c THEN v ELSE cmd[d]
      /\ \A q \in Owners : lock'[q] = IF q = o THEN Nobody ELSE lock[q]
      /\ \A r \in Rems : rem'[r] = IF r = k.r THEN k.to ELSE rem[r]
      /\ cmd' \in [Cmds -> {cmd'[d] : d \in Cmds}]
      /\ rem' \in [Rems -> RemRec] /\ lock' \in [Owners -> Cmds \cup {Nobody, Scheduler}]
  BY <1>1, <1>2 DEF Typed, Held
<1>5. Typed'
  BY <1>1, <1>2, <1>3, <1>4 DEF Typed, Besides, Asked, Held, Saved
<1>6. sch.pc = "commit" => Owner[Cur] \in Owners /\ lock[Owner[Cur]] = Scheduler /\ Cur # k.r
  <2> SUFFICES ASSUME sch.pc = "commit"
               PROVE  Owner[Cur] \in Owners /\ lock[Owner[Cur]] = Scheduler /\ Cur # k.r
    OBVIOUS
  <2>1. Cur \in Rems
    BY CurRem DEF IInv, Typed, SchInv
  <2> QED BY <1>1, <2>1, Names DEF IInv, LockInv
<1>7. UNCHANGED <<Cur, sch>>
  BY <1>2 DEF Cur
<1>8. LockInv'
  <2>1. ASSUME NEW q \in Owners
        PROVE  /\ lock'[q] = Scheduler => sch.pc = "commit" /\ Owner[Cur] = q
               /\ lock'[q] \in Cmds => cmd'[lock'[q]].pc = "held" /\ Owner[cmd'[lock'[q]].r] = q
    <3>1. CASE q = o
      BY <1>4, <3>1, Names
    <3>2. CASE q # o
      <4>1. lock'[q] = lock[q]
        BY <1>4, <3>2
      <4>2. lock[q] \in Cmds => cmd[lock[q]].pc = "held" /\ Owner[cmd[lock[q]].r] = q /\ lock[q] # c
        BY <3>2 DEF IInv, LockInv
      <4> QED BY <1>4, <4>1, <4>2 DEF IInv, LockInv
    <3> QED BY <3>1, <3>2
  <2>2. sch.pc = "commit" => lock'[Owner[Cur]] = Scheduler
    BY <1>1, <1>4, <1>6, Names
  <2>3. ASSUME NEW d \in Cmds, cmd'[d].pc = "held" PROVE lock'[Owner[cmd'[d].r]] = d
    <3>1. d # c /\ cmd'[d] = cmd[d]
      BY <1>3, <1>4, <2>3
    <3>2. cmd[d].r \in Rems /\ lock[Owner[cmd[d].r]] = d
      BY <1>1, <2>3, <3>1, CmdRem DEF IInv, LockInv, Idle
    <3> QED BY <1>1, <1>4, <3>1, <3>2, Names
  <2> QED BY <1>7, <2>1, <2>2, <2>3 DEF LockInv
<1>9. AllSound'
  BY <1>1, <1>2, <1>4 DEF IInv, AllSound, Sound
<1>10. SchInv'
  <2>1. sch.pc = "commit" => rem'[Cur] = rem[Cur]
    <3>1. sch.pc = "commit" => Cur \in Rems
      BY CurRem DEF IInv, Typed, SchInv
    <3> QED BY <1>4, <1>6, <3>1
  <2> QED BY <1>2, <1>7, <2>1 DEF IInv, SchInv
<1>11. CmdInv'
  <2>1. ASSUME NEW d \in Cmds
        PROVE  /\ cmd'[d].pc = "held" => Sound(cmd'[d].to, slot[cmd'[d].r])
               /\ cmd'[d].pc = "asked" /\ cmd'[d].kind \notin Scheduling => rem'[cmd'[d].r].state # "none"
               /\ cmd'[d].pc = "asked" /\ cmd'[d].kind \in Scheduling =>
                     /\ rem'[cmd'[d].r].state = "none"
                     /\ \A e \in Cmds \ {d} : cmd'[e] # Idle => cmd'[e].r # cmd'[d].r
    <3>1. CASE d = c
      BY <1>3, <1>4, <3>1
    <3>2. CASE d # c
      <4>1. cmd'[d] = cmd[d]
        BY <1>4, <3>2
      <4>2. cmd[d].pc = "asked" => cmd[d].r \in Rems
        BY <1>1, CmdRem DEF Idle
      <4>3. CASE cmd[d].pc = "asked" /\ cmd[d].kind \in Scheduling
        BY <1>1, <1>3, <1>4, <3>2, <4>1, <4>2, <4>3 DEF IInv, CmdInv
      <4>4. CASE cmd[d].pc = "asked" /\ cmd[d].kind \notin Scheduling
        BY <1>1, <1>4, <4>1, <4>2, <4>4 DEF IInv, CmdInv, Held
      <4>5. CASE cmd[d].pc # "asked"
        BY <4>1, <4>5 DEF IInv, CmdInv
      <4> QED BY <4>3, <4>4, <4>5
    <3> QED BY <3>1, <3>2
  <2> QED BY <1>2, <2>1 DEF CmdInv, Sound
<1> QED BY <1>5, <1>8, <1>9, <1>10, <1>11 DEF IInv

(* A command ends without having written.                                   *)
LEMMA EndsKeeps ==
    ASSUME IInv, NEW c \in Cmds, SaveFails(c) \/ Poke(c)
    PROVE  IInv'
<1>1. Typed /\ Besides' /\ UNCHANGED <<rem, slot, sch, node>> /\ cmd' = [cmd EXCEPT ![c] = Idle]
  BY DEF IInv, Typed, Besides, SaveFails, Poke, Stored, Run
<1>2. CASE SaveFails(c)
  <2> DEFINE o == Owner[cmd[c].r]
  <2>1. cmd[c].r \in Rems /\ o \in Owners /\ lock[o] = c
    BY <1>1, <1>2, CmdRem, Names DEF IInv, LockInv, SaveFails, Idle
  <2>2. lock' = [lock EXCEPT ![o] = Nobody]
    BY <1>2 DEF SaveFails, Unlock
  <2>3. \A q \in Owners : lock[q] = c => q = o
    BY DEF IInv, LockInv
  <2> HIDE DEF o
  <2>4. /\ lock' \in [Owners -> Cmds \cup {Nobody, Scheduler}]
        /\ \A q \in Owners : lock'[q] = IF lock[q] = c THEN Nobody ELSE lock[q]
    BY <1>1, <2>1, <2>2, <2>3 DEF Typed
  <2> QED BY <1>1, <2>4, CmdGoesOn
<1>3. CASE Poke(c)
  <2>1. lock' = lock /\ \A q \in Owners : lock[q] # c
    BY <1>3 DEF IInv, LockInv, Poke
  <2> QED BY <1>1, <2>1, CmdGoesOn DEF Typed
<1> QED BY <1>2, <1>3

-----------------------------------------------------------------------------
(* Around them *)

(* No command is left, and those that came through wrote what they held.    *)
LEMMA AgentStopsKeeps ==
    ASSUME IInv, AgentStops
    PROVE  IInv'
<1>1. PICK through \in SUBSET {c \in Cmds : cmd[c].pc = "held"} :
        rem' = [r \in Rems |->
                  IF \E c \in through : cmd[c].r = r
                  THEN cmd[CHOOSE c \in through : cmd[c].r = r].to ELSE rem[r]]
  BY DEF AgentStops, CommandsCutOff
<1>2. /\ Typed /\ UNCHANGED <<now, unread, slot, node, sch, poke>>
      /\ cmd' = [c \in Cmds |-> Idle]
      /\ lock' = [o \in Owners |-> IF lock[o] \in Cmds THEN Nobody ELSE lock[o]]
  BY DEF IInv, AgentStops, CommandsCutOff
<1>3. Besides'
  <2>1. deaf' \in BOOLEAN
    BY <1>2 DEF AgentStops, CommandsCutOff, Typed
  <2>2. missed' \subseteq Owners /\ hint' \subseteq Owners /\ agentUp' \in BOOLEAN
    BY <1>2 DEF AgentStops, Typed
  <2> QED BY <1>2, <2>1, <2>2 DEF Typed, Besides
<1>4. \A c \in through : /\ c \in Cmds /\ cmd[c].pc = "held" /\ Held(cmd[c])
                          /\ Sound(cmd[c].to, slot[cmd[c].r]) /\ lock[Owner[cmd[c].r]] = c
  BY <1>2 DEF IInv, Typed, Asked, Held, Saved, Idle, LockInv, CmdInv
<1>5. ASSUME NEW r \in Rems
      PROVE  \/ rem'[r] = rem[r]
             \/ rem'[r] \in RemRec /\ Sound(rem'[r], slot[r]) /\ lock[Owner[r]] \in Cmds
  <2>1. CASE \E c \in through : cmd[c].r = r
    <3> DEFINE d == CHOOSE c \in through : cmd[c].r = r
    <3>1. d \in through /\ cmd[d].r = r
      BY <2>1
    <3>2. rem'[r] = cmd[d].to
      BY <1>1, <2>1
    <3> QED BY <1>4, <3>1, <3>2 DEF Held
  <2>2. CASE ~ \E c \in through : cmd[c].r = r
    BY <1>1, <2>2
  <2> QED BY <2>1, <2>2
<1>6. rem' \in [Rems -> RemRec]
  <2>1. \A r \in Rems : rem'[r] \in RemRec
    BY <1>2, <1>5 DEF Typed
  <2>2. rem' = [r \in Rems |-> rem'[r]]
    BY <1>1
  <2> QED BY <2>1, <2>2
<1>7. AllSound'
  BY <1>2, <1>5 DEF IInv, AllSound, Sound
<1>8. Typed'
  BY <1>2, <1>3, <1>6 DEF Typed, Besides, Idle
<1>9. sch.pc = "commit" => Cur \in Rems /\ Owner[Cur] \in Owners /\ lock[Owner[Cur]] = Scheduler
  <2>1. sch.pc = "commit" => Cur \in Rems
    BY CurRem DEF IInv, Typed, SchInv
  <2> QED BY <2>1, Names DEF IInv, LockInv
<1>10. UNCHANGED Cur
  BY <1>2 DEF Cur
<1>11. LockInv'
  BY <1>2, <1>9, <1>10, Names DEF IInv, LockInv, Idle
<1>12. SchInv'
  <2>1. sch.pc = "commit" => rem'[Cur] = rem[Cur]
    BY <1>5, <1>9, Names
  <2> QED BY <1>2, <1>10, <2>1 DEF IInv, SchInv
<1>13. CmdInv'
  BY <1>2 DEF CmdInv, Idle
<1> QED BY <1>7, <1>8, <1>11, <1>12, <1>13 DEF IInv

LEMMA DownKeeps ==
    ASSUME IInv, NodeDown \/ NodeCrashes
    PROVE  IInv'
<1>1. Typed /\ GoesDown /\ rem' = rem
  BY DEF IInv, NodeDown, NodeCrashes
<1>2. /\ UNCHANGED <<now, unread, slot, rem>> /\ sch' = Asleep /\ cmd' = [c \in Cmds |-> Idle]
      /\ lock' = [o \in Owners |-> Nobody]
  BY <1>1 DEF GoesDown
<1>3. Typed'
  BY <1>1, <1>2, AsleepType DEF Typed, GoesDown, Idle
<1>4. LockInv' /\ SchInv' /\ CmdInv'
  BY <1>2, AsleepType, Names DEF LockInv, SchInv, CmdInv, Idle
<1>5. AllSound'
  BY <1>2 DEF IInv, AllSound, Sound
<1> QED BY <1>3, <1>4, <1>5 DEF IInv

(* What touches no reminder, lock or command, and no work of the scheduler. *)
LEMMA AroundKeeps ==
    ASSUME IInv, AgentStarts \/ (\E o \in Owners : AgentReads(o)) \/ NodeStops \/ Tick \/ ClockIsSet
    PROVE  IInv'
<1>1. Typed /\ sch \in SchRec /\ UNCHANGED <<rem, slot, lock, cmd>>
  BY DEF IInv, Typed, AgentStarts, AgentReads, NodeStops, Tick, ClockIsSet, Stored, volatile
<1>2. /\ sch' \in SchRec /\ sch'.pc = sch.pc /\ sch'.due = sch.due
      /\ sch'.cur = sch.cur /\ sch'.at = sch.at
  <2>1. CASE Tick
    <3> DEFINE left == IF sch.left > 0 THEN sch.left - 1 ELSE 0
    <3>1. sch' = [sch EXCEPT !.left = left]
      BY <2>1 DEF Tick, Sch
    <3>2. left \in Lefts
      BY <1>1, LeftsFacts DEF SchRec
    <3> HIDE DEF left
    <3> QED BY <1>1, <3>1, <3>2 DEF SchRec
  <2>2. CASE ~ Tick
    <3>1. sch' = sch
      BY <2>2 DEF AgentStarts, AgentReads, NodeStops, ClockIsSet, volatile
    <3> QED BY <1>1, <3>1
  <2> QED BY <2>1, <2>2
<1>3. Besides' /\ (node' = node \/ (node' = "stopping" /\ node = "up"))
  <2>1. now' \in 0 .. MaxTime
    BY <1>1, NumbersAssumption
       DEF Typed, AgentStarts, AgentReads, NodeStops, Tick, ClockIsSet
  <2>2. /\ UNCHANGED <<node, poke, deaf, agentUp>> \/ NodeStops \/ AgentStarts
        /\ unread' \subseteq unread /\ hint' \subseteq hint /\ missed' \subseteq missed
    BY DEF AgentStarts, AgentReads, NodeStops, Tick, ClockIsSet, volatile, Stored
  <2> QED BY <1>1, <2>1, <2>2 DEF Typed, Besides, NodeStops, AgentStarts, volatile
<1>4. Typed'
  BY <1>1, <1>2, <1>3 DEF Typed, Besides, Asked, Held, Saved
<1>5. UNCHANGED Cur
  BY <1>2 DEF Cur
<1>6. LockInv' /\ SchInv'
  BY <1>1, <1>2, <1>3, <1>5 DEF IInv, LockInv, SchInv
<1>7. AllSound' /\ CmdInv'
  BY <1>1 DEF IInv, AllSound, CmdInv, Sound
<1> QED BY <1>4, <1>6, <1>7 DEF IInv

(* A start, and a stop that takes too long.                                 *)
LEMMA StartStopKeeps ==
    ASSUME IInv, NodeStarts \/ StopTimesOut
    PROVE  IInv'
<1>1. Typed /\ sch \in SchRec
  BY DEF IInv, Typed
<1>2. CASE NodeStarts
  <2> DEFINE x == [Asleep EXCEPT !.pc = "recover"]
  <2>1. sch' = x /\ UNCHANGED <<rem, slot, lock, cmd>> /\ sch.pc # "commit"
    BY <1>2 DEF NodeStarts, Sch, Stored, IInv, SchInv
  <2>2. x \in SchRec /\ x.pc = "recover"
    BY AsleepType DEF Asleep
  <2>3. Besides'
    <3>1. /\ UNCHANGED <<now, unread, hint, poke, missed, deaf>>
          /\ node' = "starting" /\ agentUp' \in BOOLEAN
      BY <1>2 DEF NodeStarts, Stored
    <3> QED BY <1>1, <3>1 DEF Typed, Besides
  <2> HIDE DEF x
  <2> QED BY <2>1, <2>2, <2>3, GoesOn
<1>3. CASE StopTimesOut
  <2> DEFINE x == [sch EXCEPT !.pc = "tell", !.due = <<>>, !.after = "off",
                              !.cur = NoRem, !.at = 0, !.seen = Never]
  <2>1. x \in SchRec /\ x.pc = "tell"
    <3>1. <<>> \in Seq([r : Rems, m : RemRec])
      BY EmptySeq
    <3> QED BY <1>1, <3>1, NoRemType DEF SchRec, SchPcs
  <2> HIDE DEF x
  <2>2. Besides' /\ UNCHANGED <<rem, slot, cmd>>
    BY <1>1, <1>3 DEF StopTimesOut, Stored, Typed, Besides
  <2>3. sch' = x /\ lock' = [o \in Owners |-> IF lock[o] = Scheduler THEN Nobody ELSE lock[o]]
    BY <1>3 DEF StopTimesOut, Sch, x
  <2> QED BY <2>1, <2>2, <2>3, GivesUp
<1> QED BY <1>2, <1>3

-----------------------------------------------------------------------------
LEMMA InvInit == Init => IInv
<1> SUFFICES ASSUME Init PROVE IInv
  OBVIOUS
<1>1. Typed
  <2>1. now \in 0 .. MaxTime
    BY NumbersAssumption DEF Init
  <2>2. rem \in [Rems -> RemRec] /\ slot \in [Rems -> Moments]
    BY NoRemType DEF Init
  <2>3. lock \in [Owners -> Cmds \cup {Nobody, Scheduler}]
    BY DEF Init
  <2>4. cmd \in [Cmds -> {cmd[c] : c \in Cmds}] /\ \A c \in Cmds : cmd[c] = Idle
    BY DEF Init
  <2> QED BY <2>1, <2>2, <2>3, <2>4, AsleepType DEF Init, Typed
<1>2. AllSound
  BY NoRemType DEF Init, AllSound, Moments
<1>3. LockInv /\ SchInv /\ CmdInv
  BY AsleepType, Names DEF Init, LockInv, SchInv, CmdInv, Idle
<1> QED BY <1>1, <1>2, <1>3 DEF IInv

LEMMA InvStep == IInv /\ [Next]_vars => IInv'
<1> SUFFICES ASSUME IInv, [Next]_vars PROVE IInv'
  OBVIOUS
<1>1. CASE Cycle
  BY <1>1, WaitsKeep, RereadKeeps, CommitKeeps DEF Cycle
<1>2. CASE CancelUnusable \/ CycleFails \/ \E o \in Owners : TellFails(o)
  BY <1>2, CommitKeeps, CycleFailsKeeps, TellFailsKeeps
<1>3. ASSUME NEW c \in Cmds,
             \/ \E kind \in Kinds, r \in Rems, x \in Delays : Ask(c, kind, r, x)
             \/ Command(c) \/ SaveFails(c)
      PROVE  IInv'
  BY <1>3, AskKeeps, HoldKeeps, SaveKeeps, EndsKeeps DEF Command
<1>4. CASE AgentStops \/ AgentStarts \/ \E o \in Owners : AgentReads(o)
  BY <1>4, AgentStopsKeeps, AroundKeeps
<1>5. CASE NodeStarts \/ NodeDown \/ NodeCrashes \/ NodeStops \/ StopTimesOut
  BY <1>5, StartStopKeeps, DownKeeps, AroundKeeps
<1>6. CASE Tick \/ ClockIsSet
  BY <1>6, AroundKeeps
<1>7. CASE UNCHANGED vars
  <2>1. UNCHANGED Cur
    BY <1>7 DEF vars, volatile, Cur
  <2> QED
    BY <1>7, <2>1
       DEF vars, volatile, IInv, Typed, AllSound, Sound, LockInv, SchInv, CmdInv, Asked, Held, Saved
<1> QED BY <1>1, <1>2, <1>3, <1>4, <1>5, <1>6, <1>7 DEF Next

(* No reminder fires twice for one moment, nor for one before a moment it   *)
(* has fired for (record_fire, the transitions a command makes, and the     *)
(* revision and time checks they pass under the owner's lock), for any      *)
(* number of reminders, commands, clock settings, crashes and restarts.     *)
THEOREM SlotsForward == Spec => []SlotsGoForward
<1>1. IInv => SlotsGoForward
  <2> SUFFICES ASSUME IInv PROVE SlotsGoForward
    OBVIOUS
  <2>1. Typed /\ sch \in SchRec
    BY DEF IInv, Typed
  <2>2. /\ \A r \in Rems : rem[r].state \in {"none", "scheduled", "fired", "canceled"}
        /\ {agentUp, poke, deaf} \subseteq BOOLEAN
        /\ sch.pc \in SchPcs /\ sch.left \in 0 .. Recheck
    BY <2>1 DEF Typed, RemRec, SchRec, Lefts
  <2>3. \A o \in Owners :
          /\ lock[o] = Scheduler => sch.pc = "commit" /\ Owner[Head(sch.due).r] = o
          /\ lock[o] \in Cmds => cmd[lock[o]].pc = "held" /\ Owner[cmd[lock[o]].r] = o
    BY DEF IInv, LockInv, Cur
  <2>4. TypeOK
    BY <2>1, <2>2, <2>3 DEF TypeOK, Typed, SchPcs, IInv, AllSound, Sound
  <2>5. \A r \in Scheduled : rem[r].next > slot[r]
    BY DEF IInv, AllSound, Sound, Scheduled
  <2> QED BY <2>4, <2>5 DEF SlotsGoForward
<1> QED BY <1>1, InvInit, InvStep, PTL DEF Spec

-----------------------------------------------------------------------------
(* The wakes that are owed: a start that fails ends in "off", and only a    *)
(* start recovers                                                           *)
Owed ==
    /\ WokenOrOwed
    /\ sch.after = "off" => sch.pc \in {"tell", "off"}
    /\ sch.pc = "recover" => node = "starting"

(* Nobody loses a wake, and nothing is left unread anew.                    *)
LEMMA OwedKept ==
    ASSUME Owed, hint \cup sch.told \cup missed \subseteq (hint \cup sch.told \cup missed)',
           unread' \subseteq unread, node' \in {"starting", "up"} => node \in {"starting", "up"},
           sch'.pc = "recover" => sch.pc = "recover" /\ node' = node,
           sch.pc \in {"recover", "off"} => sch'.pc \in {"recover", "off"} \/ sch'.after = "off",
           sch.after = "off" => sch'.after = "off" \/ sch'.pc = "off",
           sch'.after = "off" => sch'.pc \in {"tell", "off"}
    PROVE  Owed'
BY DEF Owed, WokenOrOwed

LEMMA FurtherFacts ==
    ASSUME sch \in SchRec, sch.due # <<>>
    PROVE  Further.told = sch.told /\ Further.pc \in {"tell", "fire"} /\ Further.after = "list"
<1>1. Further.after = "list"
  BY DEF Further, SchRec
<1> QED BY <1>1, FurtherType

LEMMA RaisedFacts ==
    ASSUME sch \in SchRec
    PROVE  /\ Raised.told = sch.told /\ Raised.pc = "tell"
           /\ Raised.after = IF node = "starting" THEN "off" ELSE "retry"
BY DEF Raised, AfterError, SchRec

LEMMA OwedStep == IInv /\ Owed /\ [Next]_vars => Owed'
<1> SUFFICES ASSUME IInv, Owed, [Next]_vars PROVE Owed'
  OBVIOUS
<1>1. /\ Typed /\ sch \in SchRec
      /\ sch.pc \in {"fire", "commit"} => sch.due # <<>> /\ Owner[Head(sch.due).r] \in Owners
  BY CurRem, Names DEF IInv, Typed, SchInv, Cur
<1>2. CASE Recover
  <2>1. /\ sch'.told = unread /\ sch'.pc = "tell" /\ sch'.after = "list" /\ unread' = unread
        /\ node' = node
    BY <1>1, <1>2 DEF Recover, Sch, SchRec, Stored
  <2> QED BY <2>1 DEF Owed, WokenOrOwed
<1>3. ASSUME NEW o \in Owners, Tell(o) \/ TellFails(o) PROVE Owed'
  <2>1. /\ sch'.told = sch.told \ {o} /\ sch'.pc = sch.pc /\ sch'.after = sch.after /\ sch.pc = "tell"
        /\ unread' = unread /\ node' = node
        /\ hint \subseteq hint' /\ o \in hint' \cup missed' /\ missed \ {o} \subseteq missed'
    BY <1>1, <1>3 DEF Tell, TellFails, Sch, At, SchRec, Stored
  <2> QED BY <2>1, OwedKept DEF Owed
<1>4. CASE AllTold
  <2>1. /\ sch'.told = sch.told /\ sch'.pc = sch.after /\ sch'.after = sch.after /\ sch.pc = "tell"
        /\ sch.after \in {"list", "off", "retry"} /\ UNCHANGED <<unread, node, hint, missed>>
    BY <1>1, <1>4 DEF AllTold, Sch, At, SchRec, Stored
  <2> QED BY <2>1, OwedKept
<1>5. ASSUME sch.pc \notin {"recover", "off", "tell"}, sch'.told = sch.told,
             sch'.pc \notin {"recover"}, sch'.after = sch.after,
             UNCHANGED <<unread, hint, missed>>, node' \in {"starting", "up"} => node \in {"starting", "up"}
      PROVE  Owed'
  BY <1>5, OwedKept DEF Owed
<1>6. CASE NothingDue
  <2>1. sch.pc = "list" /\ UNCHANGED <<unread, hint, missed>> /\ node \in {"starting", "up", "stopping"}
    BY <1>1, <1>6 DEF NothingDue, At, Stored, Typed
  <2>2. CASE node = "stopping"
    <3>1. node' = "stopping" /\ sch'.pc = "off" /\ sch'.after = "list"
      BY <1>6, <2>2 DEF NothingDue, Sch, Asleep
    <3> QED BY <3>1 DEF Owed, WokenOrOwed
  <2>3. CASE node = "starting"
    <3>1. /\ node' = "up" /\ sch'.told = sch.told /\ sch'.pc = "list" /\ sch'.after = sch.after
      BY <1>1, <1>6, <2>3 DEF NothingDue, Sch, SchRec
    <3> QED BY <1>5, <2>1, <2>3, <3>1
  <2>4. CASE node = "up"
    <3>1. /\ node' = "up" /\ sch'.told = sch.told /\ sch'.pc = "frontier" /\ sch'.after = sch.after
      BY <1>1, <1>6, <2>4 DEF NothingDue, Sch, SchRec
    <3> QED BY <1>5, <2>1, <2>4, <3>1
  <2> QED BY <2>1, <2>2, <2>3, <2>4
<1>7. CASE List \/ ReadFrontier \/ Poked \/ TimerFires \/ RetryAfter
  <2>1. /\ sch.pc \notin {"recover", "off", "tell"} /\ sch'.told = sch.told
        /\ sch'.pc # "recover" /\ sch'.after = sch.after
    BY <1>1, <1>7 DEF List, ReadFrontier, Poked, TimerFires, RetryAfter, At, Sch, SchRec
  <2>2. UNCHANGED <<unread, hint, missed, node>>
    BY <1>7 DEF List, ReadFrontier, Poked, TimerFires, RetryAfter, Stored
  <2> QED BY <1>5, <2>1, <2>2
<1>8. CASE Arm
  <2> DEFINE goal == CASE sch.seen = Never -> "wait"
                       [] sch.seen # Never /\ sch.seen - now <= 0 -> "list"
                       [] OTHER -> "sleep"
  <2>1. PICK left : sch' = [sch EXCEPT !.pc = goal, !.left = left]
    BY <1>8 DEF Arm, Sch
  <2>2. goal # "recover"
    OBVIOUS
  <2> HIDE DEF goal
  <2>3. sch.pc = "arm" /\ sch'.told = sch.told /\ sch'.pc = goal /\ sch'.after = sch.after
    BY <1>1, <1>8, <2>1 DEF Arm, At, SchRec
  <2>4. UNCHANGED <<unread, hint, missed, node>>
    BY <1>8 DEF Arm, Stored
  <2> QED BY <1>5, <2>2, <2>3, <2>4
<1>9. ASSUME sch.pc \in {"fire", "commit"}, sch'.told = sch.told,
             sch'.after \in {"list", "retry"} \/ sch' = Raised,
             sch'.pc \in {"tell", "fire", "commit"},
             UNCHANGED <<unread, hint, missed, node>>
      PROVE  Owed'
  <2>1. sch'.after = "off" => sch'.pc = "tell"
    BY <1>1, <1>9, RaisedFacts
  <2> QED BY <1>9, <2>1, OwedKept DEF Owed
<1>10. CASE Reread
  <2>1. sch.pc = "fire" /\ UNCHANGED <<unread, hint, missed, node>>
    BY <1>10 DEF Reread, At, Stored
  <2>2. \/ sch' = Further \/ sch' = Raised
        \/ \E m, t : sch' = [sch EXCEPT !.pc = "commit", !.cur = m, !.at = t]
    BY <1>10 DEF Reread, NextOfBatch, Sch
  <2>3. CASE \E m, t : sch' = [sch EXCEPT !.pc = "commit", !.cur = m, !.at = t]
    <3>1. sch'.told = sch.told /\ sch'.pc = "commit" /\ sch'.after = sch.after
      BY <1>1, <2>3 DEF SchRec
    <3> QED BY <1>5, <2>1, <3>1
  <2> QED BY <1>1, <1>9, <2>1, <2>2, <2>3, FurtherFacts, RaisedFacts
<1>11. CASE Materialize
  <2> DEFINE o == Owner[Head(sch.due).r]
  <2>1. sch.pc = "commit" /\ UNCHANGED <<hint, missed, node>>
    BY <1>11 DEF Materialize, At
  <2>2. CASE sch' = Further /\ unread' = unread
    BY <1>1, <1>9, <2>1, <2>2, FurtherFacts
  <2>3. CASE sch' = [Further EXCEPT !.told = @ \cup {o}] /\ unread' = unread \cup {o}
    <3>1. Further \in SchRec
      BY <1>1, <2>1, FurtherType
    <3>2. sch'.told = Further.told \cup {o} /\ sch'.pc = Further.pc /\ sch'.after = Further.after
      BY <2>3, <3>1 DEF SchRec
    <3>3. sch'.told = sch.told \cup {o} /\ sch'.pc # "recover" /\ sch'.after = "list"
      BY <1>1, <2>1, <3>2, FurtherFacts
    <3> QED BY <2>1, <2>3, <3>3 DEF Owed, WokenOrOwed
  <2> QED BY <1>11, <2>2, <2>3 DEF Materialize, NextOfBatch, Sch, Stored
<1>12. CASE CancelUnusable
  BY <1>1, <1>9, <1>12, FurtherFacts DEF CancelUnusable, NextOfBatch, Sch, At
<1>13. CASE CycleFails
  <2>1. sch' = Raised /\ UNCHANGED <<unread, hint, missed, node>> /\ sch.pc \notin {"off", "tell"}
    BY <1>13 DEF CycleFails, Sch, Stored, At
  <2>2. sch.pc = "recover" => sch'.after = "off"
    BY <1>1, <2>1, RaisedFacts DEF Owed
  <2>3. sch.after # "off"
    BY <2>1 DEF Owed
  <2> QED BY <1>1, <2>1, <2>2, <2>3, OwedKept, RaisedFacts
<1>14. ASSUME sch' = sch \/ (\E n : sch' = [sch EXCEPT !.left = n]), unread' \subseteq unread,
              node' = node \/ (node = "up" /\ node' = "stopping"),
              hint \cup sch.told \cup missed \subseteq hint' \cup sch.told \cup missed'
       PROVE  Owed'
  <2>1. sch'.told = sch.told /\ sch'.pc = sch.pc /\ sch'.after = sch.after
    BY <1>1, <1>14 DEF SchRec
  <2>2. sch.pc = "recover" => node' = node
    BY <1>14 DEF Owed
  <2> QED BY <1>14, <2>1, <2>2, OwedKept DEF Owed
<1>15. ASSUME NEW c \in Cmds,
              \/ \E kind \in Kinds, r \in Rems, x \in Delays : Ask(c, kind, r, x)
              \/ Command(c) \/ SaveFails(c)
       PROVE  Owed'
  BY <1>14, <1>15 DEF Ask, Command, Hold, Save, Poke, SaveFails, Stored
<1>16. CASE AgentStops \/ AgentStarts \/ NodeStops
  BY <1>14, <1>16 DEF AgentStops, AgentStarts, NodeStops, Stored, volatile
<1>17. ASSUME NEW o \in Owners, AgentReads(o) PROVE Owed'
  <2>1. /\ hint' = hint \ {o} /\ unread' = unread \ {o} /\ missed' = missed \ {o}
        /\ UNCHANGED <<sch, node>>
    BY <1>17 DEF AgentReads
  <2> QED BY <2>1 DEF Owed, WokenOrOwed
<1>18. CASE Tick \/ ClockIsSet
  BY <1>14, <1>18 DEF Tick, ClockIsSet, Sch, Stored, volatile
<1>19. CASE NodeStarts
  <2>1. node' = "starting" /\ sch'.pc = "recover" /\ sch'.after = "list"
    BY <1>19 DEF NodeStarts, Sch, Asleep
  <2> QED BY <2>1 DEF Owed, WokenOrOwed
<1>20. CASE NodeDown \/ NodeCrashes
  <2>1. node' = "down" /\ sch'.pc = "off" /\ sch'.after = "list"
    BY <1>20 DEF NodeDown, NodeCrashes, GoesDown, Asleep
  <2> QED BY <2>1 DEF Owed, WokenOrOwed
<1>21. CASE StopTimesOut
  <2>1. node' = "stopping" /\ sch'.pc = "tell"
    BY <1>1, <1>21 DEF StopTimesOut, Sch, SchRec
  <2> QED BY <2>1 DEF Owed, WokenOrOwed
<1>22. CASE UNCHANGED vars
  BY <1>14, <1>22 DEF vars, volatile
<1> QED
  BY <1>2, <1>3, <1>4, <1>6, <1>7, <1>8, <1>10, <1>11, <1>12, <1>13, <1>15, <1>16, <1>17,
     <1>18, <1>19, <1>20, <1>21, <1>22 DEF Next, Cycle

(* A fired reminder's message has a wake queued or owed until it is read,   *)
(* unless its agent was down, went down with it, or a read of its           *)
(* publishing failed (_publish_message in every `finally`, and              *)
(* _publish_pending_recovery at every start), for any number of owners.     *)
THEOREM WakesAreOwed == Spec => []WokenOrOwed
<1>1. Init => Owed
  BY DEF Init, Owed, WokenOrOwed, Asleep
<1>2. Owed => WokenOrOwed
  BY DEF Owed
<1> QED BY <1>1, <1>2, InvInit, InvStep, OwedStep, PTL DEF Spec

-----------------------------------------------------------------------------
(***************************************************************************)
(* RuntimeLoop: AccountedInOrder, for any number of messages and expiries.  *)
(* The line of a message is in five parts, the batch, what joined it, what  *)
(* is pending, what queue_task has and the queue; the invariant says that   *)
(* each part is in order and precedes the next ones, that what waits in it  *)
(* was not settled, and what does not was, once, or came in while a steer   *)
(* waited for its answer.                                                   *)
(***************************************************************************)

(* s holds n; its notifications are in their order; those of s come before  *)
(* those of t; and none is later than the a-th                              *)
In(n, s) == \E i \in DOMAIN s : s[i] = n
Ordered(s) == \A i, j \in DOMAIN s : i < j /\ IsNote(s[i]) /\ IsNote(s[j]) => s[i] < s[j]
Precedes(s, t) == \A n, m \in Notes : In(n, s) /\ In(m, t) => n < m
Within(s, a) == \A n \in Notes : In(n, s) => n <= a

(* A set of numbers that is bounded has a greatest *)
LEMMA GreatestIs ==
    ASSUME NEW n \in Nat, NEW T \in SUBSET (0 .. n), T # {}
    PROVE  \E m \in T : \A k \in T : k <= m
<1> DEFINE S == 0 .. n
           R == StrictSubsetOrdering(S)
           D == {m .. n : m \in T}
<1>1. IsFiniteSet(S)
  BY FS_Interval
<1>2. IsWellFoundedOn(R, SUBSET S)
  BY <1>1, FS_StrictSubsetOrderingWellFounded, FS_FiniteSubsetsOfFinite
<1>3. D \subseteq SUBSET S /\ D # {}
  <2>1. ASSUME NEW m \in T
        PROVE  m .. n \in SUBSET (0 .. n)
    <3>1. m \in 0 .. n
      OBVIOUS
    <3> QED BY <3>1
  <2> QED BY <2>1
<1>4. \A x, y \in SUBSET S : x \subseteq y /\ x # y => <<x, y>> \in R
  BY DEF StrictSubsetOrdering
<1> HIDE DEF R, D, S
<1>5. PICK x \in D : \A y \in D : ~ (<<y, x>> \in R)
  BY <1>2, <1>3, WFMin
<1>6. PICK m \in T : x = m .. n
  BY DEF D
<1>7. ASSUME NEW k \in T PROVE k <= m
  <2>1. SUFFICES ASSUME m < k PROVE FALSE
    OBVIOUS
  <2>2. k .. n \in D
    BY DEF D
  <2>3. k .. n \subseteq m .. n /\ k .. n # m .. n
    BY <2>1
  <2> QED BY <1>3, <1>4, <1>5, <1>6, <2>2, <2>3
<1> QED BY <1>7

(* The run of notifications at the head of a sequence *)
LEMMA RunIs ==
    ASSUME NEW s \in Seq(Items)
    PROVE  /\ RunOf(s) \in 0 .. Len(s)
           /\ \A i \in 1 .. RunOf(s) : IsNote(s[i])
           /\ RunOf(s) < Len(s) => ~ IsNote(s[RunOf(s) + 1])
<1> DEFINE T == {k \in 0 .. Len(s) : \A i \in 1 .. k : IsNote(s[i])}
<1>1. Len(s) \in Nat /\ 0 \in T
  OBVIOUS
<1>2. T \in SUBSET (0 .. Len(s)) /\ T # {}
  BY <1>1
<1>3. PICK m \in T : \A k \in T : k <= m
  BY <1>1, <1>2, GreatestIs
<1>4. m < Len(s) => ~ IsNote(s[m + 1])
  <2>1. SUFFICES ASSUME m < Len(s), IsNote(s[m + 1]) PROVE FALSE
    OBVIOUS
  <2>2. m + 1 \in 0 .. Len(s) /\ \A i \in 1 .. m + 1 : i \in 1 .. m \/ i = m + 1
    BY <1>1, <2>1
  <2>3. m + 1 \in T
    BY <2>1, <2>2
  <2>4. m + 1 <= m /\ m \in Nat
    BY <1>1, <1>3, <2>3
  <2> QED BY <2>4
<1>5. \E k \in 0 .. Len(s) :
          /\ \A i \in 1 .. k : IsNote(s[i])
          /\ k < Len(s) => ~ IsNote(s[k + 1])
  BY <1>4
<1> QED BY <1>5 DEF RunOf

(* The places of a selection, counted from the first *)
LEMMA PlaceIs ==
    ASSUME NEW n \in Nat, NEW S \in SUBSET (1 .. n)
    PROVE  /\ Cardinality(S) \in Nat
           /\ \A k \in 1 .. Cardinality(S) : Place(S, k) \in S
           /\ \A i \in S : \E k \in 1 .. Cardinality(S) : Place(S, k) = i
           /\ \A k, l \in 1 .. Cardinality(S) : k < l => Place(S, k) < Place(S, l)
<1> DEFINE c == Cardinality(S)
           Upto(i) == {j \in S : j <= i}
           f == [i \in S |-> Cardinality(Upto(i))]
<1>1. IsFiniteSet(S) /\ S \subseteq Nat
  <2>1. IsFiniteSet(1 .. n)
    BY FS_Interval
  <2>2. IsFiniteSet(S)
    BY <2>1, FS_Subset
  <2>3. \A i \in 1 .. n : i \in Nat
    OBVIOUS
  <2>4. S \subseteq Nat
    BY <2>3
  <2> QED BY <2>2, <2>4
<1>2. c \in Nat
  BY <1>1, FS_CardinalityType
<1>3. \A i \in S : IsFiniteSet(Upto(i)) /\ Cardinality(Upto(i)) \in Nat /\ Cardinality(Upto(i)) <= c
  <2> TAKE i \in S
  <2>1. Upto(i) \in SUBSET S
    OBVIOUS
  <2> QED BY <1>1, <2>1, FS_Subset, FS_CardinalityType
<1>4. \A i \in S : Cardinality(Upto(i)) \in 1 .. c
  <2> TAKE i \in S
  <2>1. Upto(i) # {}
    OBVIOUS
  <2>2. Cardinality(Upto(i)) # 0
    BY <1>3, <2>1, FS_EmptySet
  <2> QED BY <1>2, <1>3, <2>2
<1>5. \A i, j \in S : i < j => Cardinality(Upto(i)) < Cardinality(Upto(j))
  <2> SUFFICES ASSUME NEW i \in S, NEW j \in S, i < j
               PROVE  Cardinality(Upto(i)) < Cardinality(Upto(j))
    OBVIOUS
  <2>1. Upto(i) \in SUBSET Upto(j) /\ j \in Upto(j) /\ j \notin Upto(i)
    <3>1. \A x \in S : x \in Nat
      BY <1>1
    <3>2. \A x \in S : x <= i => x <= j
      BY <3>1
    <3>3. j <= j /\ ~ (j <= i)
      BY <3>1
    <3> QED BY <3>2, <3>3
  <2>2. Cardinality(Upto(i)) <= Cardinality(Upto(j)) /\ Cardinality(Upto(i)) # Cardinality(Upto(j))
    BY <1>3, <2>1, FS_Subset
  <2> QED BY <1>3, <2>2
<1>6. f \in [S -> 1 .. c]
  BY <1>4
<1>7. \A i, j \in S : f[i] = f[j] => i = j
  <2> SUFFICES ASSUME NEW i \in S, NEW j \in S, f[i] = f[j], i # j PROVE FALSE
    OBVIOUS
  <2>1. i < j \/ j < i
    OBVIOUS
  <2>2. f[i] < f[j] \/ f[j] < f[i]
    BY <1>5, <2>1
  <2>3. f[i] \in Nat /\ f[j] \in Nat
    BY <1>3
  <2> QED BY <2>2, <2>3
<1>8. f \in Injection(S, 1 .. c)
  BY <1>6, <1>7, Fun_IsInj
<1>9. IsFiniteSet(1 .. c) /\ Cardinality(1 .. c) = c
  BY <1>2, FS_Interval
<1> HIDE DEF f, c
<1>10. f \in Surjection(S, 1 .. c)
  BY <1>1, <1>8, <1>9, FS_Injection DEF c
<1>11. \A k \in 1 .. c : \E i \in S : f[i] = k
  BY <1>10, Fun_SurjectionProperties
<1>12. \A k \in 1 .. c : Place(S, k) \in S /\ f[Place(S, k)] = k
  <2> TAKE k \in 1 .. c
  <2>1. \E i \in S : Cardinality({j \in S : j <= i}) = k
    BY <1>11 DEF f
  <2>2. Place(S, k) \in S /\ Cardinality({j \in S : j <= Place(S, k)}) = k
    BY <2>1 DEF Place
  <2> QED BY <2>2 DEF f
<1>13. \A i \in S : f[i] \in 1 .. c /\ Place(S, f[i]) = i
  BY <1>6, <1>7, <1>12
<1>14. \A i, j \in S : i < j => f[i] < f[j]
  BY <1>5 DEF f
<1>15. ASSUME NEW k \in 1 .. c, NEW l \in 1 .. c, k < l
       PROVE  Place(S, k) < Place(S, l)
  <2>1. Place(S, k) \in Nat /\ Place(S, l) \in Nat /\ k \in Nat /\ l \in Nat
    <3>1. Place(S, k) \in Nat /\ Place(S, l) \in Nat
      BY <1>1, <1>12
    <3>2. k \in Nat /\ l \in Nat
      BY <1>2
    <3> QED BY <3>1, <3>2
  <2>2. Place(S, l) < Place(S, k) => l < k
    <3> HIDE <1>15
    <3>1. Place(S, k) \in S /\ Place(S, l) \in S /\ f[Place(S, k)] = k /\ f[Place(S, l)] = l
      BY <1>12
    <3> QED BY <1>14, <3>1
  <2>3. Place(S, k) # Place(S, l)
    BY <1>12, <1>15, <2>1
  <2> QED BY <1>15, <2>1, <2>2, <2>3
<1> QED BY <1>2, <1>12, <1>13, <1>15 DEF c

LEMMA PickedIs ==
    ASSUME NEW X, NEW s \in Seq(X), NEW S \in SUBSET DOMAIN s
    PROVE  /\ Picked(s, S) \in Seq(X)
           /\ \A k \in DOMAIN Picked(s, S) : Place(S, k) \in S /\ Picked(s, S)[k] = s[Place(S, k)]
           /\ \A i \in S : \E k \in DOMAIN Picked(s, S) : Place(S, k) = i
           /\ \A k, l \in DOMAIN Picked(s, S) : k < l => Place(S, k) < Place(S, l)
<1>1. Len(s) \in Nat /\ S \in SUBSET (1 .. Len(s))
  OBVIOUS
<1>2. /\ Cardinality(S) \in Nat
      /\ \A k \in 1 .. Cardinality(S) : Place(S, k) \in S
      /\ \A i \in S : \E k \in 1 .. Cardinality(S) : Place(S, k) = i
      /\ \A k, l \in 1 .. Cardinality(S) : k < l => Place(S, k) < Place(S, l)
  BY <1>1, PlaceIs
<1>3. /\ DOMAIN Picked(s, S) = 1 .. Cardinality(S)
      /\ \A k \in 1 .. Cardinality(S) : Picked(s, S)[k] = s[Place(S, k)]
  BY DEF Picked
<1>4. Picked(s, S) \in Seq(X)
  <2>1. \A k \in 1 .. Cardinality(S) : s[Place(S, k)] \in X
    BY <1>2
  <2>2. Picked(s, S) \in [1 .. Cardinality(S) -> X]
    BY <2>1 DEF Picked
  <2> QED BY <1>2, <2>2, SeqDef
<1> QED BY <1>2, <1>3, <1>4

(* What the notifications of a sequence keep of it, and what the others do *)
LEMMA NotesAre ==
    ASSUME NEW s \in Seq(Items)
    PROVE  /\ NotesIn(s) \in Seq(Notes)
           /\ \A n \in Notes : In(n, NotesIn(s)) <=> In(n, s)
           /\ Ordered(s) => Ordered(NotesIn(s))
           /\ OthersIn(s) \in Seq(Items)
           /\ \A i \in DOMAIN OthersIn(s) : ~ IsNote(OthersIn(s)[i])
<1> DEFINE S == {i \in DOMAIN s : IsNote(s[i])}
           O == {i \in DOMAIN s : ~ IsNote(s[i])}
<1>1. /\ NotesIn(s) \in Seq(Items)
      /\ \A k \in DOMAIN NotesIn(s) : Place(S, k) \in S /\ NotesIn(s)[k] = s[Place(S, k)]
      /\ \A i \in S : \E k \in DOMAIN NotesIn(s) : Place(S, k) = i
      /\ \A k, l \in DOMAIN NotesIn(s) : k < l => Place(S, k) < Place(S, l)
  <2>1. S \in SUBSET DOMAIN s
    OBVIOUS
  <2> QED BY <2>1, PickedIs DEF NotesIn
<1>2. /\ OthersIn(s) \in Seq(Items)
      /\ \A k \in DOMAIN OthersIn(s) : Place(O, k) \in O /\ OthersIn(s)[k] = s[Place(O, k)]
  <2>1. O \in SUBSET DOMAIN s
    OBVIOUS
  <2> QED BY <2>1, PickedIs DEF OthersIn
<1>3. \A i \in S : s[i] \in Notes
  BY BoundsAssumption DEF Items, IsNote, Notes, MaxTimers
<1>4. NotesIn(s) \in Seq(Notes)
  <2>1. Len(NotesIn(s)) \in Nat /\ DOMAIN NotesIn(s) = 1 .. Len(NotesIn(s))
    BY <1>1
  <2>2. \A k \in 1 .. Len(NotesIn(s)) : NotesIn(s)[k] \in Notes
    BY <1>1, <1>3, <2>1
  <2> QED BY <1>1, <2>1, <2>2, SeqDef
<1>5. \A n \in Notes : In(n, NotesIn(s)) <=> In(n, s)
  <2> TAKE n \in Notes
  <2>1. IsNote(n)
    BY DEF Notes, IsNote
  <2> QED BY <1>1, <2>1 DEF In
<1>6. Ordered(s) => Ordered(NotesIn(s))
  BY <1>1 DEF Ordered
<1>7. \A i \in DOMAIN OthersIn(s) : ~ IsNote(OthersIn(s)[i])
  BY <1>2
<1> QED BY <1>2, <1>4, <1>5, <1>6, <1>7

(* What is nothing holds nothing, and what is one thing holds that *)
LEMMA SmallAre ==
    /\ <<>> \in Seq(Items) /\ Ordered(<<>>) /\ \A n \in Notes : ~ In(n, <<>>)
    /\ \A x \in Items : /\ <<x>> \in Seq(Items) /\ Ordered(<<x>>)
                        /\ \A n \in Notes : In(n, <<x>>) <=> n = x
<1>1. <<>> \in Seq(Items) /\ Ordered(<<>>) /\ \A n \in Notes : ~ In(n, <<>>)
  BY DEF Ordered, In
<1>2. ASSUME NEW x \in Items
      PROVE  <<x>> \in Seq(Items) /\ Ordered(<<x>>) /\ \A n \in Notes : In(n, <<x>>) <=> n = x
  <2>1. <<x>> \in Seq(Items) /\ DOMAIN <<x>> = {1} /\ <<x>>[1] = x
    OBVIOUS
  <2> QED BY <2>1 DEF Ordered, In
<1> QED BY <1>1, <1>2

LEMMA ItemsAre ==
    ASSUME NEW s \in Seq(Items), NEW i \in DOMAIN s
    PROVE  /\ s[i] \in Items /\ s[i] \in Int
           /\ IsNote(s[i]) <=> s[i] \in Notes
           /\ IsNote(s[i]) => In(s[i], s)
<1>1. s[i] \in Items
  OBVIOUS
<1>2. Items \subseteq Int
  BY BoundsAssumption DEF Items, MaxTimers
<1>3. IsNote(s[i]) <=> s[i] \in Notes
  BY <1>1, BoundsAssumption DEF Items, MaxTimers, IsNote, Notes
<1> QED BY <1>1, <1>2, <1>3 DEF In

(* What one part and the next hold together, and when that is in order      *)
LEMMA CatIs ==
    ASSUME NEW s \in Seq(Items), NEW t \in Seq(Items)
    PROVE  /\ s \o t \in Seq(Items)
           /\ \A n \in Notes : In(n, s \o t) <=> In(n, s) \/ In(n, t)
           /\ Ordered(s) /\ Ordered(t) /\ Precedes(s, t) => Ordered(s \o t)
           /\ Ordered(s \o t) => Ordered(s) /\ Ordered(t) /\ Precedes(s, t)
<1>1. /\ s \o t \in Seq(Items)
      /\ Len(s) \in Nat /\ Len(t) \in Nat
      /\ DOMAIN s = 1 .. Len(s) /\ DOMAIN t = 1 .. Len(t)
      /\ DOMAIN (s \o t) = 1 .. Len(s) + Len(t)
  OBVIOUS
<1>2. /\ \A i \in 1 .. Len(s) : (s \o t)[i] = s[i]
      /\ \A i \in 1 .. Len(t) : (s \o t)[Len(s) + i] = t[i]
  OBVIOUS
<1>3. \A i \in 1 .. Len(s) + Len(t) :
          \/ i \in 1 .. Len(s)
          \/ i - Len(s) \in 1 .. Len(t) /\ i = Len(s) + (i - Len(s))
  BY <1>1
<1>4. /\ \A i \in 1 .. Len(s) : i \in 1 .. Len(s) + Len(t)
      /\ \A i \in 1 .. Len(t) : Len(s) + i \in 1 .. Len(s) + Len(t)
  BY <1>1
<1> DEFINE c == s \o t
<1> HIDE DEF c
<1>5. \A n \in Notes : In(n, c) <=> In(n, s) \/ In(n, t)
  <2> TAKE n \in Notes
  <2>1. In(n, c) => In(n, s) \/ In(n, t)
    <3>1. SUFFICES ASSUME NEW i \in DOMAIN c, c[i] = n
                   PROVE  In(n, s) \/ In(n, t)
      BY DEF In
    <3>2. CASE i \in 1 .. Len(s)
      BY <1>1, <1>2, <3>1, <3>2 DEF In, c
    <3>3. CASE i - Len(s) \in 1 .. Len(t) /\ i = Len(s) + (i - Len(s))
      BY <1>1, <1>2, <3>1, <3>3 DEF In, c
    <3> QED BY <1>1, <1>3, <3>1, <3>2, <3>3 DEF c
  <2>2. In(n, s) => In(n, c)
    BY <1>1, <1>2, <1>4 DEF In, c
  <2>3. In(n, t) => In(n, c)
    BY <1>1, <1>2, <1>4 DEF In, c
  <2> QED BY <2>1, <2>2, <2>3
<1>6. ASSUME Ordered(s), Ordered(t), Precedes(s, t)
      PROVE  Ordered(c)
  <2> SUFFICES ASSUME NEW i \in DOMAIN c, NEW j \in DOMAIN c, i < j, IsNote(c[i]), IsNote(c[j])
               PROVE  c[i] < c[j]
    BY DEF Ordered
  <2>1. i \in 1 .. Len(s) + Len(t) /\ j \in 1 .. Len(s) + Len(t)
    BY <1>1 DEF c
  <2>2. CASE j \in 1 .. Len(s)
    <3>1. i \in 1 .. Len(s)
      BY <1>1, <2>1, <2>2
    <3> QED BY <1>1, <1>2, <1>6, <2>2, <3>1 DEF Ordered, c
  <2>3. CASE i - Len(s) \in 1 .. Len(t) /\ i = Len(s) + (i - Len(s))
    <3>1. j - Len(s) \in 1 .. Len(t) /\ j = Len(s) + (j - Len(s)) /\ i - Len(s) < j - Len(s)
      BY <1>1, <2>1, <2>3
    <3>2. c[i] = t[i - Len(s)] /\ c[j] = t[j - Len(s)]
      BY <1>2, <2>3, <3>1 DEF c
    <3> QED BY <1>1, <1>6, <2>3, <3>1, <3>2 DEF Ordered
  <2>4. CASE i \in 1 .. Len(s) /\ j - Len(s) \in 1 .. Len(t) /\ j = Len(s) + (j - Len(s))
    <3>1. c[i] = s[i] /\ c[j] = t[j - Len(s)]
      BY <1>2, <2>4 DEF c
    <3>2. s[i] \in Notes /\ In(s[i], s)
      BY <1>1, <2>4, <3>1, ItemsAre
    <3>3. t[j - Len(s)] \in Notes /\ In(t[j - Len(s)], t)
      BY <1>1, <2>4, <3>1, ItemsAre
    <3> QED BY <1>6, <3>1, <3>2, <3>3 DEF Precedes
  <2> QED BY <1>3, <2>1, <2>2, <2>3, <2>4
<1>7. ASSUME Ordered(c)
      PROVE  Ordered(s) /\ Ordered(t) /\ Precedes(s, t)
  <2>1. Ordered(s)
    BY <1>1, <1>2, <1>4, <1>7 DEF Ordered, c
  <2>2. Ordered(t)
    <3> SUFFICES ASSUME NEW i \in DOMAIN t, NEW j \in DOMAIN t, i < j, IsNote(t[i]), IsNote(t[j])
                 PROVE  t[i] < t[j]
      BY DEF Ordered
    <3>1. /\ Len(s) + i \in DOMAIN c /\ Len(s) + j \in DOMAIN c
          /\ c[Len(s) + i] = t[i] /\ c[Len(s) + j] = t[j]
      BY <1>1, <1>2, <1>4 DEF c
    <3>2. Len(s) + i < Len(s) + j
      BY <1>1
    <3> QED BY <1>7, <3>1, <3>2 DEF Ordered
  <2>3. Precedes(s, t)
    <3> SUFFICES ASSUME NEW n \in Notes, NEW m \in Notes, In(n, s), In(m, t)
                 PROVE  n < m
      BY DEF Precedes
    <3>1. PICK i \in DOMAIN s : s[i] = n
      BY DEF In
    <3>2. PICK j \in DOMAIN t : t[j] = m
      BY DEF In
    <3>3. /\ i \in DOMAIN c /\ Len(s) + j \in DOMAIN c
          /\ c[i] = n /\ c[Len(s) + j] = m
      BY <1>1, <1>2, <1>4, <3>1, <3>2 DEF c
    <3>4. i < Len(s) + j
      BY <1>1, <3>1, <3>2
    <3>5. IsNote(n) /\ IsNote(m)
      BY BoundsAssumption DEF Notes, IsNote
    <3> QED BY <1>7, <3>3, <3>4, <3>5 DEF Ordered
  <2> QED BY <2>1, <2>2, <2>3
<1> QED BY <1>1, <1>5, <1>6, <1>7 DEF c

(* A sequence is what is cut off it and the rest *)
LEMMA CutIs ==
    ASSUME NEW s \in Seq(Items), NEW k \in 0 .. Len(s)
    PROVE  /\ SubSeq(s, 1, k) \in Seq(Items)
           /\ SubSeq(s, k + 1, Len(s)) \in Seq(Items)
           /\ SubSeq(s, 1, k) \o SubSeq(s, k + 1, Len(s)) = s
<1>1. Len(s) \in Nat
  OBVIOUS
<1>2. /\ 1 \in 1 .. Len(s) + 1 /\ k \in 1 - 1 .. Len(s) /\ Len(s) \in k .. Len(s)
      /\ 1 \in Int /\ k \in Int /\ k + 1 \in Int /\ Len(s) \in Int
  BY <1>1
<1>3. /\ \A i \in 1 .. k : s[i] \in Items
      /\ \A i \in k + 1 .. Len(s) : s[i] \in Items
  BY <1>1
<1>4. SubSeq(s, 1, k) \in Seq(Items)
  BY <1>2, <1>3, SubSeqProperties
<1>5. SubSeq(s, k + 1, Len(s)) \in Seq(Items)
  BY <1>2, <1>3, SubSeqProperties
<1>6. SubSeq(s, 1, k) \o SubSeq(s, k + 1, Len(s)) = SubSeq(s, 1, Len(s))
  BY <1>2, ConcatAdjacentSubSeq
<1> QED BY <1>4, <1>5, <1>6, SubSeqFull

LEMMA AppendKeeps ==
    ASSUME NEW s \in Seq(Items), NEW x \in Items
    PROVE  /\ Append(s, x) \in Seq(Items)
           /\ \A n \in Notes : In(n, Append(s, x)) <=> In(n, s) \/ n = x
           /\ Ordered(s) /\ (\A n \in Notes : In(n, s) /\ IsNote(x) => n < x) => Ordered(Append(s, x))
<1>1. Append(s, x) = s \o <<x>>
  BY AppendIsConcat
<1>2. <<x>> \in Seq(Items) /\ Ordered(<<x>>) /\ \A n \in Notes : In(n, <<x>>) <=> n = x
  BY SmallAre
<1>3. (\A n \in Notes : In(n, s) /\ IsNote(x) => n < x) => Precedes(s, <<x>>)
  BY <1>2 DEF Precedes, IsNote, Notes
<1> DEFINE e == <<x>>
<1> HIDE DEF e
<1>4. /\ s \o e \in Seq(Items)
      /\ \A n \in Notes : In(n, s \o e) <=> In(n, s) \/ In(n, e)
      /\ Ordered(s) /\ Ordered(e) /\ Precedes(s, e) => Ordered(s \o e)
  BY <1>2, CatIs DEF e
<1> QED BY <1>1, <1>2, <1>3, <1>4 DEF e

LEMMA HeadIs ==
    ASSUME NEW s \in Seq(Items), s # <<>>
    PROVE  /\ Head(s) \in Items /\ Head(s) = s[1]
           /\ Tail(s) \in Seq(Items)
           /\ \A n \in Notes : In(n, s) <=> n = Head(s) \/ In(n, Tail(s))
           /\ Ordered(s) => Ordered(Tail(s)) /\ Precedes(<<Head(s)>>, Tail(s))
<1>1. Len(s) \in Nat /\ Len(s) >= 1
  BY EmptySeq
<1>2. /\ SubSeq(s, 1, 1) \in Seq(Items)
      /\ SubSeq(s, 2, Len(s)) \in Seq(Items)
      /\ SubSeq(s, 1, 1) \o SubSeq(s, 2, Len(s)) = s
  BY <1>1, CutIs
<1>3. Tail(s) = SubSeq(s, 2, Len(s)) /\ Tail(s) \in Seq(Items) /\ Head(s) \in Items
  BY TailIsSubSeq, HeadTailProperties
<1>4. SubSeq(s, 1, 1) = <<s[1]>> /\ Head(s) = s[1]
  <2>1. s[1] \in Items
    BY <1>1
  <2>2. /\ SubSeq(s, 1, 1) \in Seq(Items) /\ Len(SubSeq(s, 1, 1)) = 1
        /\ SubSeq(s, 1, 1)[1] = s[1]
    BY <2>1, SubSeqProperties
  <2>3. <<s[1]>> \in Seq(Items) /\ Len(<<s[1]>>) = 1 /\ <<s[1]>>[1] = s[1]
    BY <2>1
  <2>4. SubSeq(s, 1, 1) = <<s[1]>>
    <3> DEFINE a == SubSeq(s, 1, 1)
               b == <<s[1]>>
    <3>1. /\ a \in Seq(Items) /\ b \in Seq(Items) /\ Len(a) = Len(b)
          /\ \A i \in 1 .. Len(a) : a[i] = b[i]
      <4>1. \A i \in 1 .. 1 : i = 1
        OBVIOUS
      <4> QED BY <2>2, <2>3, <4>1
    <3> HIDE DEF a, b
    <3>2. a = b
      BY <3>1, SeqEqual
    <3> QED BY <3>2 DEF a, b
  <2> QED BY <1>1, <2>4
<1>5. <<s[1]>> \in Seq(Items) /\ \A n \in Notes : In(n, <<s[1]>>) <=> n = s[1]
  BY <1>3, <1>4, SmallAre
<1> DEFINE h == <<s[1]>>
           u == Tail(s)
<1>6. s = h \o u /\ h \in Seq(Items) /\ u \in Seq(Items)
  BY <1>2, <1>3, <1>4, <1>5
<1> HIDE DEF h, u
<1>7. /\ \A n \in Notes : In(n, s) <=> In(n, h) \/ In(n, u)
      /\ Ordered(s) => Ordered(h) /\ Ordered(u) /\ Precedes(h, u)
  BY <1>6, CatIs
<1> QED BY <1>3, <1>4, <1>5, <1>7 DEF h, u

(* How often a message is in a batch *)
LEMMA CountIs ==
    ASSUME NEW s \in Seq(Notes), Ordered(s), NEW n \in Notes
    PROVE  Cardinality({i \in DOMAIN s : s[i] = n}) = IF In(n, s) THEN 1 ELSE 0
<1> DEFINE T == {i \in DOMAIN s : s[i] = n}
<1>1. CASE ~ In(n, s)
  <2>1. T = {}
    BY <1>1 DEF In
  <2> QED BY <1>1, <2>1, FS_EmptySet
<1>2. CASE In(n, s)
  <2>1. PICK i \in DOMAIN s : s[i] = n
    BY <1>2 DEF In
  <2>2. ASSUME NEW j \in DOMAIN s, s[j] = n PROVE j = i
    <3>1. i \in Nat /\ j \in Nat /\ IsNote(n) /\ n \in Int
      BY <2>1 DEF IsNote, Notes
    <3>2. ~ (i < j) /\ ~ (j < i)
      BY <2>1, <2>2, <3>1 DEF Ordered
    <3> QED BY <3>1, <3>2
  <2>3. T = {i}
    BY <2>1, <2>2
  <2> QED BY <1>2, <2>3, FS_Singleton
<1> QED BY <1>1, <1>2

LEMMA CatGroups ==
    \A s, t, u \in Seq(Items) : (s \o t) \o u = s \o (t \o u)
<1> TAKE s, t, u \in Seq(Items)
<1> QED BY ConcatAssociative

(* What a batch leaves, and where *)
LeftQueued(k) == IF k < Len(pending) THEN queue
                 ELSE SubSeq(pending \o queue, k + 2, Len(pending \o queue))

(* A batch, what it leaves pending and what it leaves queued are, in that   *)
(* order, what was pending and queued; the batch is notifications only      *)
LEMMA BatchIs ==
    ASSUME pending \in Seq(Items), queue \in Seq(Items)
    PROVE  LET all == pending \o queue
               k == RunOf(all)
               b == SubSeq(all, 1, k)
               l == LeftPending(pending, k)
               r == LeftQueued(k)
           IN  /\ b \in Seq(Notes) /\ l \in Seq(Items) /\ r \in Seq(Items)
               /\ b \o (l \o r) = all
               /\ all # <<>> /\ IsNote(all[1]) => b # <<>>
<1> DEFINE all == pending \o queue
           n == Len(all)
           k == RunOf(all)
           b == SubSeq(all, 1, k)
           l == LeftPending(pending, k)
           r == LeftQueued(k)
           rest == SubSeq(all, k + 1, n)
<1>1. /\ all \in Seq(Items) /\ n \in Nat
      /\ Len(pending) \in Nat /\ Len(queue) \in Nat /\ n = Len(pending) + Len(queue)
  OBVIOUS
<1> HIDE DEF k
<1>4. /\ k \in 0 .. n
      /\ \A i \in 1 .. k : IsNote(all[i])
      /\ k < n => ~ IsNote(all[k + 1])
  BY <1>1, RunIs DEF k
<1>2. b \in Seq(Items) /\ rest \in Seq(Items) /\ b \o rest = all
  BY <1>1, <1>4, CutIs
<1>3. k \in 0 .. n /\ b = SubSeq(all, 1, k)
  BY <1>4
<1>5. l = IF k < Len(pending) THEN SubSeq(pending, k + 1, Len(pending))
          ELSE IF k < n THEN <<all[k + 1]>> ELSE <<>>
  BY DEF LeftPending
<1>6. r = IF k < Len(pending) THEN queue ELSE SubSeq(all, k + 2, n)
  BY DEF LeftQueued
<1> HIDE DEF all, n, b, l, r
<1>7. b \in Seq(Notes)
  <2>1. Len(b) = k /\ \A i \in 1 .. k : b[i] = all[i]
    <3>1. \A i \in 1 .. k : all[i] \in Items
      BY <1>1, <1>3 DEF n
    <3>2. Len(b) = IF 1 <= k THEN k - 1 + 1 ELSE 0
      BY <1>1, <1>3, <3>1, SubSeqProperties
    <3>3. \A i \in 1 .. k - 1 + 1 : b[i] = all[1 + i - 1]
      BY <1>1, <1>3, <3>1, SubSeqProperties
    <3>4. k \in Nat /\ k - 1 + 1 = k /\ \A i \in 1 .. k : 1 + i - 1 = i
      BY <1>1, <1>3
    <3> QED BY <3>2, <3>3, <3>4
  <2>2. \A i \in 1 .. k : all[i] \in Notes
    <3>1. \A i \in 1 .. k : i \in DOMAIN all
      BY <1>1, <1>3 DEF n
    <3> QED BY <1>1, <1>4, <3>1, ItemsAre
  <2>3. b \in [1 .. k -> Items]
    BY <1>2, <2>1, LenProperties
  <2>4. b \in [1 .. k -> Notes]
    BY <2>1, <2>2, <2>3
  <2>5. k \in Nat
    BY <1>1, <1>3
  <2> QED BY <2>4, <2>5, SeqDef
<1>8. /\ l \in Seq(Items) /\ r \in Seq(Items)
      /\ b \o (l \o r) = all
  <2>1. CASE k < Len(pending)
    <3>1. l = SubSeq(pending, k + 1, Len(pending)) /\ r = queue
      BY <1>5, <1>6, <2>1
    <3>2. k \in 0 .. Len(pending)
      BY <1>1, <1>3, <2>1
    <3>3. /\ SubSeq(pending, 1, k) \in Seq(Items) /\ l \in Seq(Items)
          /\ SubSeq(pending, 1, k) \o l = pending
      <4>1. /\ SubSeq(pending, 1, k) \in Seq(Items)
            /\ SubSeq(pending, k + 1, Len(pending)) \in Seq(Items)
            /\ SubSeq(pending, 1, k) \o SubSeq(pending, k + 1, Len(pending)) = pending
        BY <3>2, CutIs
      <4> QED BY <3>1, <4>1
    <3>4. SubSeq(pending, 1, k) = b
      <4>1. CASE k = 0
        <5>1. SubSeq(pending, 1, k) = <<>> /\ SubSeq(all, 1, k) = <<>>
          BY <4>1, SubSeqEmpty
        <5> QED BY <1>3, <5>1
      <4>2. CASE k >= 1
        <5>1. 1 \in 1 .. Len(pending) /\ k \in 1 .. Len(pending)
          BY <1>1, <1>3, <2>1, <4>2
        <5>2. SubSeq(pending \o queue, 1, k) = SubSeq(pending, 1, k)
          BY <5>1, SubSeqOfConcat1
        <5> QED BY <1>3, <5>2 DEF all
      <4> QED BY <1>1, <1>3, <4>1, <4>2
    <3>5. (b \o l) \o queue = b \o (l \o queue)
      <4>1. b \in Seq(Items) /\ l \in Seq(Items) /\ queue \in Seq(Items)
        BY <1>2, <3>3
      <4> QED BY <4>1, CatGroups, Zenon
    <3> QED BY <3>1, <3>3, <3>4, <3>5 DEF all
  <2>2. CASE ~ (k < Len(pending)) /\ k < n
    <3>1. l = <<all[k + 1]>> /\ r = SubSeq(all, k + 2, n)
      BY <1>5, <1>6, <2>2
    <3>2. /\ k + 1 \in 1 .. Len(all) /\ n \in k + 1 .. Len(all)
          /\ (k + 1) + 1 = k + 2 /\ k + 1 \in 0 .. Len(all) /\ n = Len(all)
      BY <1>1, <1>3, <2>2 DEF n
    <3>3. rest = <<all[k + 1]>> \o SubSeq(all, (k + 1) + 1, n)
      BY <1>1, <3>2, SubSeqRecursiveFirst
    <3>4. SubSeq(all, (k + 1) + 1, Len(all)) \in Seq(Items)
      BY <1>1, <3>2, CutIs
    <3>5. all[k + 1] \in Items
      BY <1>1, <3>2
    <3>6. <<all[k + 1]>> \in Seq(Items)
      BY <3>5, SmallAre
    <3> QED BY <1>2, <3>1, <3>2, <3>3, <3>4, <3>6
  <2>3. CASE k = n
    <3>1. ~ (k < Len(pending)) /\ ~ (k < n) /\ n < k + 2 /\ k + 2 \in Int /\ n \in Int
      BY <1>1, <2>3
    <3>2. l = <<>> /\ r = <<>>
      BY <1>5, <1>6, <3>1, SubSeqEmpty
    <3>3. b = all
      BY <1>1, <1>3, <2>3, SubSeqFull DEF n
    <3>4. <<>> \in Seq(Items) /\ <<>> \o <<>> = <<>> /\ all \o <<>> = all
      BY <1>1, ConcatEmptySeq, SmallAre
    <3> QED BY <3>2, <3>3, <3>4
  <2>4. \/ k < Len(pending)
        \/ ~ (k < Len(pending)) /\ k < n
        \/ k = n
    BY <1>1, <1>3
  <2> QED BY <2>1, <2>2, <2>3, <2>4
<1>9. ASSUME all # <<>>, IsNote(all[1])
      PROVE  b # <<>>
  <2>1. n >= 1
    BY <1>1, <1>9, EmptySeq DEF n
  <2>2. k # 0
    <3> SUFFICES ASSUME k = 0 PROVE FALSE
      OBVIOUS
    <3>1. k < n /\ k + 1 = 1
      BY <1>1, <2>1
    <3> QED BY <1>4, <1>9, <3>1
  <2>3. SUFFICES ASSUME b = <<>> PROVE FALSE
    OBVIOUS
  <2>4. rest = all
    BY <1>2, <2>3, ConcatEmptySeq
  <2>5. \A i \in k + 1 .. n : all[i] \in Items
    BY <1>1, <1>3 DEF n
  <2>6. Len(rest) = IF k + 1 <= n THEN n - (k + 1) + 1 ELSE 0
    BY <1>1, <1>3, <2>5, SubSeqProperties
  <2>7. Len(rest) < n
    BY <1>1, <1>3, <2>1, <2>2, <2>6
  <2> HIDE DEF rest
  <2>8. Len(rest) = n
    BY <2>4 DEF n
  <2> QED BY <1>1, <2>7, <2>8
<1> QED BY <1>7, <1>8, <1>9 DEF all, k, b, l, r

-----------------------------------------------------------------------------
(* While a turn is on its way the batch is its own, and at most one of the  *)
(* queue_task and its item is there; at rest nothing is under way           *)
Turning == {"turn", "steering", "ending"}

PlaceInv ==
    /\ pc \notin Turning => batch = <<>> /\ joined = <<>> /\ got = <<>> /\ ~ getting
    /\ pc \in Turning => batch # <<>>
    /\ getting => got = <<>>

(* The parts of the line, each in order, and each before the next ones      *)
OrderInv ==
    /\ Ordered(batch) /\ Ordered(joined) /\ Ordered(pending) /\ Ordered(got) /\ Ordered(queue)
    /\ Precedes(batch, joined) /\ Precedes(batch, pending) /\ Precedes(batch, got)
    /\ Precedes(batch, queue) /\ Precedes(joined, pending) /\ Precedes(joined, got)
    /\ Precedes(joined, queue) /\ Precedes(pending, got) /\ Precedes(pending, queue)
    /\ Precedes(got, queue)
    /\ Within(batch, arrived) /\ Within(joined, arrived) /\ Within(pending, arrived)
    /\ Within(got, arrived) /\ Within(queue, arrived)

Waits(n) == In(n, batch) \/ In(n, joined) \/ In(n, pending) \/ In(n, got) \/ In(n, queue)

(* What waits is not settled, and what does not was, once, or was dropped   *)
AccountInv ==
    \A n \in Notes :
        /\ n > arrived => settled[n] = 0
        /\ Waits(n) => settled[n] = 0
        /\ n <= arrived /\ ~ Waits(n) => settled[n] = 1 \/ (settled[n] = 0 /\ n \in steered)

(* Timers are made at the end of a turn, which settles a message, and for a *)
(* busy expiry: this is why their number is bounded as the model says       *)
Done == {n \in Notes : settled[n] > 0}
CountInv == timers <= jobs + Cardinality(Done) + (IF pc = "ending" THEN 1 ELSE 0)

LoopIInv == LoopTypeOK /\ PlaceInv /\ OrderInv /\ AccountInv /\ CountInv

LEMMA Sizes ==
    ASSUME LoopTypeOK
    PROVE  /\ MaxNotes \in Nat /\ MaxJobs \in Nat /\ MaxTimers \in Nat /\ MaxTimers = MaxNotes + MaxJobs
           /\ Notes \subseteq Items /\ Notes \subseteq Nat /\ Seq(Notes) \subseteq Seq(Items)
           /\ batch \in Seq(Items) /\ joined \in Seq(Items)
           /\ Done \in SUBSET Notes /\ IsFiniteSet(Done)
           /\ Cardinality(Done) \in Nat /\ Cardinality(Done) <= MaxNotes
<1>1. MaxNotes \in Nat /\ MaxJobs \in Nat /\ MaxTimers \in Nat /\ MaxTimers = MaxNotes + MaxJobs
  BY BoundsAssumption DEF MaxTimers
<1>2. Notes \subseteq Items /\ Notes \subseteq Nat
  BY <1>1 DEF Notes, Items
<1>3. Seq(Notes) \subseteq Seq(Items)
  BY <1>2, SeqMonotonic
<1>4. Done \in SUBSET Notes
  BY DEF Done
<1>5. IsFiniteSet(Notes) /\ Cardinality(Notes) = MaxNotes
  BY <1>1, FS_Interval DEF Notes
<1>6. /\ IsFiniteSet(Done) /\ Cardinality(Done) <= Cardinality(Notes)
      /\ Cardinality(Done) \in Nat
  BY <1>4, <1>5, FS_Subset, FS_CardinalityType
<1>7. batch \in Seq(Items) /\ joined \in Seq(Items)
  BY <1>3 DEF LoopTypeOK
<1> QED BY <1>1, <1>2, <1>3, <1>4, <1>5, <1>6, <1>7

LEMMA ArriveKeeps == ASSUME LoopIInv, Arrive PROVE LoopIInv'
<1> USE DEF LoopIInv
<1>1. /\ arrived \in Nat /\ arrived + 1 \in Notes /\ arrived + 1 \in Items
      /\ arrived + 1 \in 0 .. MaxNotes /\ IsNote(arrived + 1)
      /\ queue \in Seq(Items) /\ arrived' = arrived + 1 /\ queue' = Append(queue, arrived + 1)
  <2>1. arrived \in 0 .. MaxNotes /\ arrived < MaxNotes /\ MaxNotes \in Nat
    BY Sizes DEF LoopTypeOK, Arrive
  <2>2. arrived + 1 \in 1 .. MaxNotes /\ arrived + 1 > 0
    BY <2>1
  <2>3. arrived + 1 \in Notes /\ IsNote(arrived + 1)
    BY <2>2 DEF Notes, IsNote
  <2>4. arrived + 1 \in Items
    BY <2>3, Sizes
  <2>5. queue \in Seq(Items) /\ arrived' = arrived + 1 /\ queue' = Append(queue, arrived + 1)
    BY DEF LoopTypeOK, Arrive
  <2> QED BY <2>1, <2>2, <2>3, <2>4, <2>5
<1>2. \A n \in Notes : In(n, queue) => n < arrived + 1
  BY <1>1, Sizes DEF OrderInv, Within
<1>3. /\ queue' \in Seq(Items)
      /\ \A n \in Notes : In(n, queue') <=> In(n, queue) \/ n = arrived + 1
      /\ Ordered(queue) => Ordered(queue')
  BY <1>1, <1>2, AppendKeeps
<1>4. LoopTypeOK'
  BY <1>1, <1>3 DEF LoopTypeOK, Arrive, worker, timer
<1>5. PlaceInv'
  BY DEF PlaceInv, Arrive, worker
<1>6. OrderInv'
  <2>1. \A x \in {batch, joined, pending, got} :
            Precedes(x, queue) /\ Within(x, arrived) => Precedes(x, queue') /\ Within(x, arrived')
    <3> SUFFICES ASSUME NEW x \in {batch, joined, pending, got}, Precedes(x, queue), Within(x, arrived)
                 PROVE  Precedes(x, queue') /\ Within(x, arrived')
      OBVIOUS
    <3>1. \A n \in Notes : n <= arrived => n < arrived + 1 /\ n <= arrived + 1
      BY <1>1, Sizes
    <3>2. \A n, m \in Notes : In(n, x) /\ In(m, queue') => n < m
      BY <1>1, <1>3, <3>1 DEF Precedes, Within
    <3>3. \A n \in Notes : In(n, x) => n <= arrived + 1
      BY <3>1 DEF Within
    <3> QED BY <1>1, <3>2, <3>3 DEF Precedes, Within
  <2>2. Within(queue', arrived')
    <3>1. \A n \in Notes : n < arrived + 1 \/ n = arrived + 1 => n <= arrived + 1
      BY <1>1, Sizes
    <3> QED BY <1>1, <1>2, <1>3, <3>1 DEF Within
  <2> QED BY <1>3, <2>1, <2>2 DEF OrderInv, Arrive, worker
<1>7. AccountInv'
  BY <1>1, <1>3, Sizes DEF AccountInv, OrderInv, Within, Waits, Arrive, worker
<1>8. CountInv'
  BY DEF CountInv, Done, Arrive, worker, timer
<1> QED BY <1>4, <1>5, <1>6, <1>7, <1>8

LEMMA IdleTimerFiresKeeps == ASSUME LoopIInv, IdleTimerFires PROVE LoopIInv'
<1> USE DEF LoopIInv
<1>1. /\ Expiry(bound) \in Items /\ ~ IsNote(Expiry(bound))
      /\ \A n \in Notes : n # Expiry(bound)
      /\ queue \in Seq(Items) /\ queue' = Append(queue, Expiry(bound))
  <2>1. bound \in 0 .. MaxTimers /\ MaxTimers \in Nat /\ MaxNotes \in Nat
    BY Sizes DEF LoopTypeOK
  <2>2. -bound \in -MaxTimers .. MaxNotes /\ ~ (-bound > 0)
    BY <2>1
  <2>3. \A n \in Notes : n # -bound
    BY <2>1, <2>2 DEF Notes
  <2> QED BY <2>2, <2>3 DEF LoopTypeOK, IdleTimerFires, Items, IsNote, Expiry
<1>2. /\ queue' \in Seq(Items)
      /\ \A n \in Notes : In(n, queue') <=> In(n, queue)
      /\ Ordered(queue) => Ordered(queue')
  BY <1>1, AppendKeeps
<1>3. LoopTypeOK'
  BY <1>2 DEF LoopTypeOK, IdleTimerFires, worker
<1>4. PlaceInv'
  BY DEF PlaceInv, IdleTimerFires, worker
<1>5. OrderInv'
  BY <1>2 DEF OrderInv, Precedes, Within, IdleTimerFires, worker
<1>6. AccountInv'
  BY <1>2 DEF AccountInv, Waits, IdleTimerFires, worker
<1>7. CountInv'
  BY DEF CountInv, Done, IdleTimerFires, worker
<1> QED BY <1>3, <1>4, <1>5, <1>6, <1>7

LEMMA FetchKeeps == ASSUME LoopIInv, Fetch PROVE LoopIInv'
<1> USE DEF LoopIInv
<1>1. /\ queue \in Seq(Items) /\ queue # <<>> /\ got = <<>>
      /\ got' = <<Head(queue)>> /\ queue' = Tail(queue)
  BY DEF LoopTypeOK, PlaceInv, Fetch
<1>2. /\ Head(queue) \in Items
      /\ queue' \in Seq(Items)
      /\ \A n \in Notes : In(n, queue) <=> n = Head(queue) \/ In(n, queue')
      /\ Ordered(queue) => Ordered(queue') /\ Precedes(got', queue')
  BY <1>1, HeadIs
<1>3. /\ got' \in Seq(Items) /\ Len(got') <= 1 /\ Ordered(got')
      /\ \A n \in Notes : In(n, got') <=> n = Head(queue)
  BY <1>1, <1>2, SmallAre
<1>4. \A n \in Notes : ~ In(n, got)
  BY <1>1, SmallAre
<1>5. LoopTypeOK'
  BY <1>2, <1>3 DEF LoopTypeOK, Fetch, timer
<1>6. PlaceInv'
  BY DEF PlaceInv, Fetch
<1>7. OrderInv'
  BY <1>2, <1>3 DEF OrderInv, Precedes, Within, Fetch
<1>8. AccountInv'
  BY <1>2, <1>3, <1>4 DEF AccountInv, Waits, Fetch
<1>9. CountInv'
  BY DEF CountInv, Done, Fetch, timer
<1> QED BY <1>5, <1>6, <1>7, <1>8, <1>9

LEMMA TurnEndsKeeps == ASSUME LoopIInv, TurnEnds PROVE LoopIInv'
<1> USE DEF LoopIInv
<1>1. LoopTypeOK'
  BY DEF LoopTypeOK, TurnEnds
<1>2. PlaceInv' /\ OrderInv'
  BY DEF PlaceInv, OrderInv, TurnEnds
<1>3. AccountInv' /\ CountInv'
  BY DEF AccountInv, Waits, CountInv, Done, TurnEnds
<1> QED BY <1>1, <1>2, <1>3

LEMMA QuietEndsKeeps == ASSUME LoopIInv, QuietEnds PROVE LoopIInv'
<1> USE DEF LoopIInv
<1>1. LoopTypeOK'
  BY DEF LoopTypeOK, QuietEnds, timer
<1>2. PlaceInv' /\ OrderInv'
  BY DEF PlaceInv, OrderInv, QuietEnds
<1>3. AccountInv' /\ CountInv'
  BY DEF AccountInv, Waits, CountInv, Done, QuietEnds, timer
<1> QED BY <1>1, <1>2, <1>3

LEMMA TakeBatchKeeps == ASSUME LoopIInv, TakeBatch PROVE LoopIInv'
<1> USE DEF LoopIInv
<1> DEFINE all == pending \o queue
           k == RunOf(all)
<1>1. /\ pending \in Seq(Items) /\ queue \in Seq(Items)
      /\ batch = <<>> /\ joined = <<>> /\ got = <<>>
  BY DEF LoopTypeOK, PlaceInv, TakeBatch, Turning
<1>2. /\ batch' = SubSeq(all, 1, k)
      /\ pending' = LeftPending(pending, k)
      /\ queue' = LeftQueued(k)
      /\ all # <<>> /\ IsNote(all[1])
  BY DEF TakeBatch, LeftQueued
<1>3. /\ batch' \in Seq(Notes) /\ pending' \in Seq(Items) /\ queue' \in Seq(Items)
      /\ batch' \o (pending' \o queue') = all
      /\ batch' # <<>>
  <2> HIDE DEF LoopIInv
  <2> QED BY <1>1, <1>2, BatchIs
<1>4. /\ Ordered(all)
      /\ \A n \in Notes : In(n, all) <=> In(n, pending) \/ In(n, queue)
  BY <1>1, CatIs DEF OrderInv
<1> HIDE DEF all, k
<1>5. /\ Ordered(batch') /\ Ordered(pending') /\ Ordered(queue')
      /\ Precedes(batch', pending' \o queue') /\ Precedes(pending', queue')
      /\ \A n \in Notes : In(n, pending' \o queue') <=> In(n, pending') \/ In(n, queue')
      /\ \A n \in Notes : In(n, all) <=> In(n, batch') \/ In(n, pending') \/ In(n, queue')
  <2>1. batch' \in Seq(Items)
    BY <1>3, Sizes
  <2>2. pending' \o queue' \in Seq(Items)
    BY <1>3, CatIs
  <2>3. /\ Ordered(batch') /\ Ordered(pending' \o queue') /\ Precedes(batch', pending' \o queue')
        /\ \A n \in Notes : In(n, all) <=> In(n, batch') \/ In(n, pending' \o queue')
    <3> DEFINE r == pending' \o queue'
    <3> HIDE DEF r
    <3> QED BY <1>3, <1>4, <2>1, <2>2, CatIs DEF r
  <2>4. /\ Ordered(pending') /\ Ordered(queue') /\ Precedes(pending', queue')
        /\ \A n \in Notes : In(n, pending' \o queue') <=> In(n, pending') \/ In(n, queue')
    BY <1>3, <2>3, CatIs
  <2> QED BY <2>3, <2>4
<1>6. \A n \in Notes : Waits(n)' <=> Waits(n)
  <2>1. \A n \in Notes : ~ In(n, <<>>)
    BY SmallAre
  <2> QED BY <1>1, <1>4, <1>5, <2>1 DEF Waits, TakeBatch
<1>7. joined' = <<>> /\ got' = <<>> /\ Ordered(<<>>) /\ \A n \in Notes : ~ In(n, <<>>)
  BY <1>1, SmallAre DEF TakeBatch
<1>8. LoopTypeOK'
  <2>1. NoTimer \in 0 .. MaxTimers
    BY Sizes DEF NoTimer
  <2>2. <<>> \in Seq(Notes)
    OBVIOUS
  <2>3. bound' \in 0 .. MaxTimers /\ fired' \in BOOLEAN /\ expired' \in BOOLEAN
    BY <2>1 DEF TakeBatch, NoBinding
  <2> QED BY <1>1, <1>3, <2>2, <2>3 DEF LoopTypeOK, TakeBatch
<1>9. PlaceInv'
  BY <1>3, <1>7 DEF PlaceInv, Turning, TakeBatch
<1>10. OrderInv'
  <2>1. Precedes(batch', pending') /\ Precedes(batch', queue')
    BY <1>5 DEF Precedes
  <2>2. Within(batch', arrived) /\ Within(pending', arrived) /\ Within(queue', arrived)
    BY <1>4, <1>5 DEF OrderInv, Within
  <2>3. /\ Precedes(batch', <<>>) /\ Precedes(<<>>, pending') /\ Precedes(<<>>, queue')
        /\ Precedes(pending', <<>>) /\ Precedes(<<>>, <<>>) /\ Within(<<>>, arrived)
    BY <1>7 DEF Precedes, Within
  <2> QED BY <1>5, <1>7, <2>1, <2>2, <2>3 DEF OrderInv, TakeBatch
<1>11. AccountInv'
  BY <1>6 DEF AccountInv, TakeBatch
<1>12. CountInv'
  BY DEF CountInv, Done, TakeBatch
<1> QED BY <1>8, <1>9, <1>10, <1>11, <1>12

LEMMA TakeExpiryKeeps == ASSUME LoopIInv, TakeExpiry PROVE LoopIInv'
<1> USE DEF LoopIInv
<1> DEFINE all == pending \o queue
<1>1. /\ pending \in Seq(Items) /\ queue \in Seq(Items)
      /\ all # <<>> /\ ~ IsNote(all[1])
      /\ pending' = IF pending = <<>> THEN <<>> ELSE Tail(pending)
      /\ queue' = IF pending = <<>> THEN Tail(queue) ELSE queue
  BY DEF LoopTypeOK, TakeExpiry
<1>2. ASSUME pending = <<>>
      PROVE  /\ pending' \in Seq(Items) /\ queue' \in Seq(Items)
             /\ \A n \in Notes : In(n, pending') <=> In(n, pending)
             /\ \A n \in Notes : In(n, queue') <=> In(n, queue)
             /\ Ordered(pending) => Ordered(pending')
             /\ Ordered(queue) => Ordered(queue')
  <2>1. all = queue
    BY <1>1, <1>2, ConcatEmptySeq
  <2>2. queue # <<>> /\ ~ IsNote(queue[1]) /\ pending' = pending /\ queue' = Tail(queue)
    BY <1>1, <1>2, <2>1
  <2>3. /\ Head(queue) \in Items /\ Head(queue) = queue[1]
        /\ Tail(queue) \in Seq(Items)
        /\ \A n \in Notes : In(n, queue) <=> n = Head(queue) \/ In(n, Tail(queue))
        /\ Ordered(queue) => Ordered(Tail(queue))
    BY <1>1, <2>2, HeadIs
  <2>4. \A n \in Notes : IsNote(n)
    BY DEF Notes, IsNote
  <2> QED BY <1>1, <2>2, <2>3, <2>4
<1>3. ASSUME pending # <<>>
      PROVE  /\ pending' \in Seq(Items) /\ queue' \in Seq(Items)
             /\ \A n \in Notes : In(n, pending') <=> In(n, pending)
             /\ \A n \in Notes : In(n, queue') <=> In(n, queue)
             /\ Ordered(pending) => Ordered(pending')
             /\ Ordered(queue) => Ordered(queue')
  <2>1. Len(pending) \in Nat \ {0}
    BY <1>1, <1>3, EmptySeq
  <2>2. all[1] = pending[1]
    BY <1>1, <2>1
  <2>3. /\ Head(pending) \in Items /\ Head(pending) = pending[1]
        /\ Tail(pending) \in Seq(Items)
        /\ \A n \in Notes : In(n, pending) <=> n = Head(pending) \/ In(n, Tail(pending))
        /\ Ordered(pending) => Ordered(Tail(pending))
    BY <1>1, <1>3, HeadIs
  <2>4. \A n \in Notes : IsNote(n)
    BY DEF Notes, IsNote
  <2>5. pending' = Tail(pending) /\ queue' = queue
    BY <1>1, <1>3
  <2> QED BY <1>1, <2>2, <2>3, <2>4, <2>5
<1>4. /\ pending' \in Seq(Items) /\ queue' \in Seq(Items)
      /\ \A n \in Notes : In(n, pending') <=> In(n, pending)
      /\ \A n \in Notes : In(n, queue') <=> In(n, queue)
      /\ Ordered(pending) => Ordered(pending')
      /\ Ordered(queue) => Ordered(queue')
  BY <1>2, <1>3
<1> HIDE DEF all
<1>5. LoopTypeOK'
  <2>1. expired' \in BOOLEAN /\ pc' \in {"expiry", "rest"}
    BY DEF TakeExpiry, LoopTypeOK
  <2> QED BY <1>4, <2>1 DEF LoopTypeOK, TakeExpiry
<1>6. PlaceInv'
  BY DEF PlaceInv, Turning, TakeExpiry
<1>7. OrderInv'
  BY <1>4 DEF OrderInv, Precedes, Within, TakeExpiry
<1>8. AccountInv'
  BY <1>4 DEF AccountInv, Waits, TakeExpiry
<1>9. CountInv'
  BY DEF CountInv, Done, TakeExpiry
<1> QED BY <1>5, <1>6, <1>7, <1>8, <1>9

LEMMA ExpiryLooksKeeps == ASSUME LoopIInv, ExpiryLooks PROVE LoopIInv'
<1> USE DEF LoopIInv
<1>1. LoopTypeOK'
  BY DEF LoopTypeOK, ExpiryLooks, timer
<1>2. PlaceInv' /\ OrderInv'
  BY DEF PlaceInv, Turning, OrderInv, ExpiryLooks
<1>3. AccountInv' /\ CountInv'
  BY DEF AccountInv, Waits, CountInv, Done, ExpiryLooks, timer
<1> QED BY <1>1, <1>2, <1>3

LEMMA FindsJobKeeps == ASSUME LoopIInv, FindsJob PROVE LoopIInv'
<1> USE DEF LoopIInv
<1>1. /\ timers \in Nat /\ jobs \in Nat /\ jobs < MaxJobs /\ timers <= jobs + Cardinality(Done)
      /\ timers' = timers + 1 /\ bound' = timers + 1 /\ jobs' = jobs + 1
  BY Sizes DEF LoopTypeOK, CountInv, FindsJob, JobGoesOn, NewBinding
<1>2. timers + 1 \in 0 .. MaxTimers /\ jobs + 1 \in 0 .. MaxJobs
  BY <1>1, Sizes
<1>3. LoopTypeOK'
  BY <1>1, <1>2 DEF LoopTypeOK, FindsJob, JobGoesOn, NewBinding
<1>4. PlaceInv' /\ OrderInv'
  BY DEF PlaceInv, Turning, OrderInv, FindsJob
<1>5. AccountInv'
  BY DEF AccountInv, Waits, FindsJob
<1>6. CountInv'
  <2>1. Done' = Done /\ pc' = "rest"
    BY DEF Done, FindsJob
  <2> QED BY <1>1, <2>1, Sizes DEF CountInv
<1> QED BY <1>3, <1>4, <1>5, <1>6

LEMMA StopSessionKeeps == ASSUME LoopIInv, StopSession PROVE LoopIInv'
<1> USE DEF LoopIInv
<1>1. LoopTypeOK'
  <2>1. NoTimer \in 0 .. MaxTimers
    BY Sizes DEF NoTimer
  <2> QED BY <2>1 DEF LoopTypeOK, StopSession, NoBinding
<1>2. PlaceInv' /\ OrderInv'
  BY DEF PlaceInv, Turning, OrderInv, StopSession
<1>3. AccountInv' /\ CountInv'
  BY DEF AccountInv, Waits, CountInv, Done, StopSession
<1> QED BY <1>1, <1>2, <1>3

(* Two parts of the line that follow each other are joined, and what follows *)
(* both follows the whole                                                    *)
LEMMA JoinIs ==
    ASSUME NEW s \in Seq(Items), NEW t \in Seq(Items),
           Ordered(s), Ordered(t), Precedes(s, t)
    PROVE  /\ s \o NotesIn(t) \in Seq(Items)
           /\ s \in Seq(Notes) => s \o NotesIn(t) \in Seq(Notes)
           /\ Ordered(s \o NotesIn(t))
           /\ \A n \in Notes : In(n, s \o NotesIn(t)) <=> In(n, s) \/ In(n, t)
<1> DEFINE u == NotesIn(t)
<1>1. /\ u \in Seq(Notes) /\ Ordered(u)
      /\ \A n \in Notes : In(n, u) <=> In(n, t)
  BY NotesAre
<1> HIDE DEF u
<1>2. u \in Seq(Items)
  <2>1. Notes \subseteq Items
    BY BoundsAssumption DEF Notes, Items, MaxTimers
  <2> QED BY <1>1, <2>1, SeqMonotonic
<1>3. Precedes(s, u)
  BY <1>1 DEF Precedes
<1>4. /\ s \o u \in Seq(Items) /\ Ordered(s \o u)
      /\ \A n \in Notes : In(n, s \o u) <=> In(n, s) \/ In(n, u)
  BY <1>2, <1>1, <1>3, CatIs
<1>5. s \in Seq(Notes) => s \o u \in Seq(Notes)
  BY <1>1
<1> QED BY <1>1, <1>4, <1>5 DEF u

(* A notification that queue_task has is pending from now on *)
LEMMA TakenUp ==
    ASSUME LoopIInv, pending' = pending \o NotesIn(got), got' = <<>>,
           batch' = batch, joined' = joined, queue' = queue, arrived' = arrived
    PROVE  /\ pending' \in Seq(Items) /\ got' \in Seq(Items) /\ Len(got') <= 1
           /\ OrderInv'
           /\ \A n \in Notes : Waits(n)' <=> Waits(n)
<1> USE DEF LoopIInv
<1>1. /\ pending' \in Seq(Items) /\ Ordered(pending')
      /\ \A n \in Notes : In(n, pending') <=> In(n, pending) \/ In(n, got)
  BY JoinIs DEF OrderInv, LoopTypeOK
<1>2. /\ got' \in Seq(Items) /\ Len(got') <= 1 /\ Ordered(got')
      /\ \A n \in Notes : ~ In(n, got')
  BY SmallAre
<1>3. OrderInv'
  <2>1. /\ Precedes(batch, pending') /\ Precedes(joined, pending') /\ Precedes(pending', queue)
        /\ Within(pending', arrived)
    BY <1>1 DEF OrderInv, Precedes, Within
  <2>2. /\ Precedes(batch, got') /\ Precedes(joined, got') /\ Precedes(pending', got')
        /\ Precedes(got', queue) /\ Within(got', arrived)
    BY <1>2 DEF Precedes, Within
  <2> QED BY <1>1, <1>2, <2>1, <2>2 DEF OrderInv
<1>4. \A n \in Notes : Waits(n)' <=> Waits(n)
  BY <1>1, <1>2 DEF Waits
<1> QED BY <1>1, <1>2, <1>3, <1>4

LEMMA AbsorbsKeeps == ASSUME LoopIInv, Absorbs PROVE LoopIInv'
<1> USE DEF LoopIInv
<1>1. /\ pending' = pending \o NotesIn(got) /\ got' = <<>>
      /\ batch' = batch /\ joined' = joined /\ queue' = queue /\ arrived' = arrived
  BY DEF Absorbs, Absorb
<1>2. /\ pending' \in Seq(Items) /\ got' \in Seq(Items) /\ Len(got') <= 1
      /\ OrderInv'
      /\ \A n \in Notes : Waits(n)' <=> Waits(n)
  BY <1>1, TakenUp
<1>3. LoopTypeOK'
  <2>1. expired' \in BOOLEAN /\ steer' \in {"off", "on", "due"}
    BY DEF Absorbs, Absorb, LoopTypeOK
  <2> QED BY <1>2, <2>1 DEF LoopTypeOK, Absorbs
<1>4. PlaceInv'
  BY <1>1 DEF PlaceInv, Turning, Absorbs
<1>5. AccountInv'
  BY <1>2 DEF AccountInv, Absorbs
<1>6. CountInv'
  BY DEF CountInv, Done, Absorbs
<1> QED BY <1>2, <1>3, <1>4, <1>5, <1>6

LEMMA SteerStartsKeeps == ASSUME LoopIInv, SteerStarts PROVE LoopIInv'
<1> USE DEF LoopIInv
<1>1. /\ pending' = pending \o NotesIn(got) /\ got' = <<>>
      /\ batch' = batch /\ joined' = joined /\ queue' = queue /\ arrived' = arrived
  BY DEF SteerStarts, Absorb
<1>2. /\ pending' \in Seq(Items) /\ got' \in Seq(Items) /\ Len(got') <= 1
      /\ OrderInv'
      /\ \A n \in Notes : Waits(n)' <=> Waits(n)
  BY <1>1, TakenUp
<1>3. LoopTypeOK'
  <2>1. expired' \in BOOLEAN
    BY DEF SteerStarts, Absorb, LoopTypeOK
  <2> QED BY <1>2, <2>1 DEF LoopTypeOK, SteerStarts
<1>4. PlaceInv'
  BY <1>1 DEF PlaceInv, Turning, SteerStarts
<1>5. AccountInv'
  BY <1>2 DEF AccountInv, SteerStarts
<1>6. CountInv'
  BY DEF CountInv, Done, SteerStarts
<1> QED BY <1>2, <1>3, <1>4, <1>5, <1>6

LEMMA TurnIsOverKeeps == ASSUME LoopIInv, TurnIsOver PROVE LoopIInv'
<1> USE DEF LoopIInv
<1>1. /\ pending' = pending \o NotesIn(got) /\ got' = <<>>
      /\ batch' = batch /\ joined' = joined /\ queue' = queue /\ arrived' = arrived
  BY DEF TurnIsOver
<1>2. /\ pending' \in Seq(Items) /\ got' \in Seq(Items) /\ Len(got') <= 1
      /\ OrderInv'
      /\ \A n \in Notes : Waits(n)' <=> Waits(n)
  BY <1>1, TakenUp
<1>3. Cardinality(Done) + 1 <= MaxNotes
  <2>1. batch \in Seq(Notes) /\ batch # <<>>
    BY DEF LoopTypeOK, PlaceInv, Turning, TurnIsOver
  <2>2. Len(batch) \in Nat /\ Len(batch) # 0
    BY <2>1, EmptySeq
  <2>3. batch[1] \in Notes /\ In(batch[1], batch)
    BY <2>1, <2>2 DEF In
  <2>4. Waits(batch[1])
    BY <2>3 DEF Waits
  <2>5. settled[batch[1]] = 0
    BY <2>3, <2>4 DEF AccountInv
  <2>6. batch[1] \notin Done
    BY <2>5 DEF Done
  <2>7. IsFiniteSet(Notes) /\ Cardinality(Notes) = MaxNotes
    BY BoundsAssumption, FS_Interval DEF Notes
  <2>8. Done \in SUBSET Notes /\ Done # Notes
    BY <2>3, <2>6, Sizes
  <2>9. Cardinality(Done) < Cardinality(Notes)
    BY <2>7, <2>8, FS_Subset, FS_CardinalityType
  <2> QED BY <2>7, <2>9, Sizes
<1>4. timers <= jobs + Cardinality(Done) /\ timers \in Nat /\ jobs \in Nat /\ jobs <= MaxJobs
  BY Sizes DEF LoopTypeOK, CountInv, TurnIsOver
<1>5. timers + 1 \in 0 .. MaxTimers
  BY <1>3, <1>4, Sizes
<1>6. /\ timers' \in {timers, timers + 1} /\ bound' \in {bound, timers + 1}
      /\ fired' \in BOOLEAN /\ expired' \in BOOLEAN /\ steer' \in {"off", "on", "due"}
  BY DEF LoopTypeOK, TurnIsOver, NewBinding
<1>7. LoopTypeOK'
  <2>1. timers' \in 0 .. MaxTimers /\ bound' \in 0 .. MaxTimers
    BY <1>5, <1>6 DEF LoopTypeOK
  <2> QED BY <1>2, <1>6, <2>1 DEF LoopTypeOK, TurnIsOver
<1>8. PlaceInv'
  BY <1>1 DEF PlaceInv, Turning, TurnIsOver
<1>9. AccountInv'
  BY <1>2 DEF AccountInv, TurnIsOver
<1>10. CountInv'
  <2>1. Done' = Done /\ pc' = "ending" /\ jobs' = jobs
    BY DEF Done, TurnIsOver
  <2> QED BY <1>4, <1>6, <2>1, Sizes DEF CountInv
<1> QED BY <1>2, <1>7, <1>8, <1>9, <1>10

LEMMA SteerAnsweredKeeps ==
    ASSUME LoopIInv, NEW taken \in BOOLEAN, SteerAnswered(taken)
    PROVE  LoopIInv'
<1> USE DEF LoopIInv
<1>1. /\ joined \in Seq(Notes) /\ joined \in Seq(Items) /\ pending \in Seq(Items)
      /\ Ordered(joined) /\ Ordered(pending) /\ Precedes(joined, pending)
  BY Sizes DEF LoopTypeOK, OrderInv
<1>2. /\ joined' \in Seq(Notes) /\ pending' \in Seq(Items)
      /\ Ordered(joined') /\ Ordered(pending') /\ Precedes(joined', pending')
      /\ \A n \in Notes : In(n, joined') \/ In(n, pending') <=> In(n, joined) \/ In(n, pending)
      /\ \A n \in Notes : In(n, pending') => In(n, pending)
  <2>1. CASE taken
    <3>1. joined' = joined \o NotesIn(pending) /\ pending' = OthersIn(pending)
      BY <2>1 DEF SteerAnswered, SteeredIn, PendingLeft
    <3>2. /\ joined' \in Seq(Notes) /\ Ordered(joined')
          /\ \A n \in Notes : In(n, joined') <=> In(n, joined) \/ In(n, pending)
      BY <1>1, <3>1, JoinIs
    <3>3. pending' \in Seq(Items) /\ \A i \in DOMAIN pending' : ~ IsNote(pending'[i])
      BY <1>1, <3>1, NotesAre
    <3>4. \A n \in Notes : IsNote(n)
      BY DEF Notes, IsNote
    <3>5. Ordered(pending') /\ \A n \in Notes : ~ In(n, pending')
      BY <3>3, <3>4 DEF Ordered, In
    <3> QED BY <3>2, <3>3, <3>5 DEF Precedes
  <2>2. CASE ~ taken
    <3>1. joined' = joined /\ pending' = pending
      BY <2>2 DEF SteerAnswered
    <3> QED BY <1>1, <3>1
  <2> QED BY <2>1, <2>2
<1>3. /\ got' = <<>> /\ got' \in Seq(Items) /\ Len(got') <= 1 /\ Ordered(got')
      /\ \A n \in Notes : ~ In(n, got')
  BY SmallAre DEF SteerAnswered
<1>4. LoopTypeOK'
  <2>1. steered' \in SUBSET Items
    <3>1. \A i \in DOMAIN got : got[i] \in Items
      BY DEF LoopTypeOK
    <3> QED BY <3>1 DEF LoopTypeOK, SteerAnswered
  <2> QED BY <1>2, <1>3, <2>1 DEF LoopTypeOK, SteerAnswered, timer
<1>5. PlaceInv'
  BY <1>3 DEF PlaceInv, Turning, SteerAnswered
<1>6. OrderInv'
  <2>1. /\ Precedes(batch, joined') /\ Precedes(batch, pending') /\ Precedes(joined', queue)
        /\ Precedes(pending', queue)
    BY <1>2 DEF OrderInv, Precedes
  <2>2. Within(joined', arrived) /\ Within(pending', arrived)
    BY <1>2 DEF OrderInv, Within
  <2>3. /\ Precedes(batch, got') /\ Precedes(joined', got') /\ Precedes(pending', got')
        /\ Precedes(got', queue) /\ Within(got', arrived)
    BY <1>3 DEF Precedes, Within
  <2> QED BY <1>2, <1>3, <2>1, <2>2, <2>3 DEF OrderInv, SteerAnswered
<1>7. AccountInv'
  <2>1. \A n \in Notes : Waits(n)' => Waits(n)
    BY <1>2, <1>3 DEF Waits, SteerAnswered
  <2>2. \A n \in Notes : Waits(n) => Waits(n)' \/ In(n, got)
    BY <1>2, <1>3 DEF Waits, SteerAnswered
  <2>3. \A n \in Notes : In(n, got) => n \in steered'
    BY DEF In, SteerAnswered
  <2>4. \A n \in Notes : In(n, got) => Waits(n)
    BY DEF Waits
  <2>5. settled' = settled /\ arrived' = arrived /\ steered \subseteq steered'
    BY DEF SteerAnswered
  <2> QED BY <2>1, <2>2, <2>3, <2>4, <2>5 DEF AccountInv
<1>8. CountInv'
  BY DEF CountInv, Done, SteerAnswered, timer
<1> QED BY <1>4, <1>5, <1>6, <1>7, <1>8

LEMMA SettleKeeps == ASSUME LoopIInv, Settle PROVE LoopIInv'
<1> USE DEF LoopIInv
<1>1. /\ batch \in Seq(Notes) /\ joined \in Seq(Notes)
      /\ pending \in Seq(Items) /\ got \in Seq(Items)
      /\ batch' = <<>> /\ joined' = <<>> /\ got' = <<>> /\ pending' = pending \o got
      /\ queue' = queue /\ arrived' = arrived /\ steered' = steered
  BY DEF LoopTypeOK, Settle, GotKept
<1>2. /\ pending' \in Seq(Items) /\ Ordered(pending')
      /\ \A n \in Notes : In(n, pending') <=> In(n, pending) \/ In(n, got)
  BY <1>1, CatIs DEF OrderInv
<1>3. /\ <<>> \in Seq(Items) /\ Ordered(<<>>) /\ \A n \in Notes : ~ In(n, <<>>)
      /\ <<>> \in Seq(Notes) /\ Len(<<>>) = 0
  <2>1. <<>> \in Seq(Notes) /\ Len(<<>>) = 0
    OBVIOUS
  <2> QED BY <2>1, SmallAre
<1>4. \A n \in Notes :
          /\ In(n, batch) \/ In(n, joined) => settled[n] = 0 /\ settled'[n] = 1
          /\ ~ In(n, batch) /\ ~ In(n, joined) => settled'[n] = settled[n]
  <2> TAKE n \in Notes
  <2>1. settled'[n] = settled[n] + (IF In(n, batch) THEN 1 ELSE 0) + (IF In(n, joined) THEN 1 ELSE 0)
    <3>1. /\ Cardinality({i \in DOMAIN batch : batch[i] = n}) = IF In(n, batch) THEN 1 ELSE 0
          /\ Cardinality({i \in DOMAIN joined : joined[i] = n}) = IF In(n, joined) THEN 1 ELSE 0
      BY <1>1, CountIs DEF OrderInv
    <3> QED BY <3>1 DEF Settle
  <2>2. settled[n] \in Nat
    BY DEF LoopTypeOK
  <2>3. In(n, batch) \/ In(n, joined) => settled[n] = 0
    BY DEF AccountInv, Waits
  <2>4. ~ (In(n, batch) /\ In(n, joined))
    <3>1. ~ (n < n)
      BY Sizes
    <3> QED BY <3>1 DEF OrderInv, Precedes
  <2> QED BY <2>1, <2>2, <2>3, <2>4
<1>5. settled' \in [Notes -> Nat]
  <2>1. \A n \in Notes : settled'[n] \in Nat
    <3> TAKE n \in Notes
    <3>1. settled[n] \in Nat
      BY DEF LoopTypeOK
    <3>2. settled'[n] = 1 \/ settled'[n] = settled[n]
      BY <1>4
    <3> QED BY <3>1, <3>2
  <2>2. settled' = [n \in Notes |-> settled'[n]]
    BY DEF Settle
  <2> QED BY <2>1, <2>2
<1>6. LoopTypeOK'
  <2>1. /\ batch' \in Seq(Notes) /\ joined' \in Seq(Notes) /\ pending' \in Seq(Items)
        /\ got' \in Seq(Items) /\ Len(got') <= 1
    BY <1>1, <1>2, <1>3
  <2>2. pc' = "rest" /\ getting' = FALSE /\ steer' = "off" /\ turn' = "off"
    BY DEF Settle
  <2>3. /\ session' = session /\ bound' = bound /\ fired' = fired /\ expired' = expired
        /\ timers' = timers /\ jobs' = jobs
    BY DEF Settle, timer
  <2> QED BY <1>1, <1>5, <2>1, <2>2, <2>3 DEF LoopTypeOK
<1>7. PlaceInv'
  BY <1>1 DEF PlaceInv, Turning, Settle
<1>8. OrderInv'
  <2>1. Precedes(pending', queue) /\ Within(pending', arrived)
    BY <1>2 DEF OrderInv, Precedes, Within
  <2>2. /\ \A x \in {<<>>, pending', queue} : Precedes(<<>>, x)
        /\ Precedes(pending', <<>>) /\ Within(<<>>, arrived)
    BY <1>3 DEF Precedes, Within
  <2> QED BY <1>1, <1>2, <1>3, <2>1, <2>2 DEF OrderInv
<1>9. AccountInv'
  <2>1. \A n \in Notes : Waits(n)' <=> In(n, pending) \/ In(n, got) \/ In(n, queue)
    BY <1>1, <1>2, <1>3 DEF Waits
  <2>2. \A n \in Notes : In(n, batch) \/ In(n, joined) => n <= arrived /\ ~ Waits(n)'
    <3> TAKE n \in Notes
    <3>1. ~ (n < n)
      BY Sizes
    <3> QED BY <2>1, <3>1 DEF OrderInv, Precedes, Within
  <2>3. arrived \in Nat /\ \A n \in Notes : n <= arrived => ~ (n > arrived)
    <3>1. arrived \in Nat
      BY DEF LoopTypeOK
    <3>2. \A n \in Notes : n \in Nat
      BY Sizes
    <3> QED BY <3>1, <3>2
  <2> QED BY <1>1, <1>4, <2>1, <2>2, <2>3 DEF AccountInv, Waits
<1>10. CountInv'
  <2>1. batch # <<>>
    BY DEF PlaceInv, Turning, Settle
  <2>2. Len(batch) \in Nat /\ Len(batch) # 0
    BY <1>1, <2>1, EmptySeq
  <2>3. batch[1] \in Notes /\ In(batch[1], batch)
    BY <1>1, <2>2 DEF In
  <2>4. settled[batch[1]] = 0 /\ settled'[batch[1]] = 1
    BY <1>4, <2>3
  <2>5. Done \subseteq Done' /\ batch[1] \in Done' /\ batch[1] \notin Done /\ Done' \subseteq Notes
    BY <1>4, <2>3, <2>4 DEF Done
  <2>6. IsFiniteSet(Notes)
    BY BoundsAssumption, FS_Interval DEF Notes
  <2>7. IsFiniteSet(Done') /\ Done # Done' /\ Done \in SUBSET Done'
    BY <2>5, <2>6, FS_Subset
  <2>8. Cardinality(Done) < Cardinality(Done') /\ Cardinality(Done') \in Nat
    BY <2>7, FS_Subset, FS_CardinalityType
  <2>9. /\ timers' = timers /\ jobs' = jobs /\ timers \in Nat /\ jobs \in Nat
        /\ pc = "ending" /\ pc' = "rest"
    BY DEF LoopTypeOK, Settle, timer
  <2>10. timers <= jobs + Cardinality(Done) + 1 /\ Cardinality(Done) \in Nat
    BY <2>9, Sizes DEF CountInv
  <2> HIDE DEF LoopIInv
  <2>11. timers <= jobs + Cardinality(Done')
    BY <2>8, <2>9, <2>10
  <2>12. timers' <= jobs' + Cardinality(Done)'
    BY <2>9, <2>11
  <2> QED BY <2>8, <2>9, <2>11 DEF CountInv
<1> QED BY <1>6, <1>7, <1>8, <1>9, <1>10

LEMMA LoopInitHolds == ASSUME LoopInit PROVE LoopIInv
<1>1. /\ <<>> \in Seq(Items) /\ <<>> \in Seq(Notes) /\ Len(<<>>) = 0 /\ Ordered(<<>>)
      /\ \A n \in Notes : ~ In(n, <<>>)
  <2>1. <<>> \in Seq(Notes) /\ Len(<<>>) = 0
    OBVIOUS
  <2> QED BY <2>1, SmallAre
<1>2. LoopTypeOK
  <2>1. 0 \in 0 .. MaxTimers /\ 0 \in 0 .. MaxJobs /\ 0 \in 0 .. MaxNotes
    BY BoundsAssumption DEF MaxTimers
  <2>2. settled \in [Notes -> Nat] /\ steered \subseteq Items
    BY DEF LoopInit
  <2>3. /\ queue \in Seq(Items) /\ pending \in Seq(Items) /\ batch \in Seq(Notes)
        /\ joined \in Seq(Notes) /\ got \in Seq(Items) /\ Len(got) <= 1
    BY <1>1 DEF LoopInit
  <2>4. bound \in 0 .. MaxTimers /\ timers \in 0 .. MaxTimers /\ jobs \in 0 .. MaxJobs
        /\ arrived \in 0 .. MaxNotes
    BY <2>1 DEF LoopInit, NoTimer
  <2> QED BY <2>2, <2>3, <2>4 DEF LoopTypeOK, LoopInit
<1>3. PlaceInv
  BY DEF PlaceInv, Turning, LoopInit
<1>4. OrderInv
  <2>1. Precedes(<<>>, <<>>) /\ Within(<<>>, 0)
    BY <1>1 DEF Precedes, Within
  <2> QED BY <1>1, <2>1 DEF OrderInv, LoopInit
<1>5. AccountInv
  BY <1>2, Sizes DEF AccountInv, LoopInit, Notes
<1>6. CountInv
  BY <1>2, Sizes DEF CountInv, LoopInit
<1> QED BY <1>2, <1>3, <1>4, <1>5, <1>6 DEF LoopIInv

LEMMA LoopKeeps == ASSUME LoopIInv, [LoopNext]_loopVars PROVE LoopIInv'
<1>1. CASE Beside
  BY <1>1, ArriveKeeps, IdleTimerFiresKeeps, FetchKeeps, TurnEndsKeeps, QuietEndsKeeps DEF Beside
<1>2. CASE Rest
  BY <1>2, TakeBatchKeeps, TakeExpiryKeeps, ExpiryLooksKeeps, FindsJobKeeps, StopSessionKeeps
     DEF Rest
<1>3. CASE Steering
  BY <1>3, SteerStartsKeeps, SteerAnsweredKeeps DEF Steering
<1>4. CASE UNCHANGED loopVars
  <2>1. LoopTypeOK' <=> LoopTypeOK
    BY <1>4 DEF LoopTypeOK, loopVars, worker, timer
  <2>2. (PlaceInv' <=> PlaceInv) /\ (OrderInv' <=> OrderInv)
    BY <1>4 DEF PlaceInv, OrderInv, loopVars, worker, timer
  <2>3. (AccountInv' <=> AccountInv) /\ (CountInv' <=> CountInv)
    BY <1>4 DEF AccountInv, Waits, CountInv, Done, loopVars, worker, timer
  <2> QED BY <2>1, <2>2, <2>3 DEF LoopIInv
<1> QED BY <1>1, <1>2, <1>3, <1>4, AbsorbsKeeps, TurnIsOverKeeps, SettleKeeps DEF LoopNext

(* What the property says of the line follows from what holds of its parts *)
LEMMA LineIs ==
    ASSUME LoopIInv
    PROVE  /\ Line \in Seq(Items) /\ Ordered(Line)
           /\ \A n \in Notes : n \in Waiting <=> Waits(n)
<1> USE DEF LoopIInv
<1> DEFINE a == batch \o joined
           b == a \o pending
           c == b \o got
<1>1. /\ a \in Seq(Items) /\ Ordered(a)
      /\ \A n \in Notes : In(n, a) <=> In(n, batch) \/ In(n, joined)
  BY Sizes, CatIs DEF OrderInv
<1> HIDE DEF a
<1>2. /\ b \in Seq(Items) /\ Ordered(b)
      /\ \A n \in Notes : In(n, b) <=> In(n, a) \/ In(n, pending)
  <2>1. Precedes(a, pending)
    BY <1>1 DEF OrderInv, Precedes
  <2> QED BY <1>1, <2>1, CatIs DEF LoopTypeOK, OrderInv
<1> HIDE DEF b
<1>3. /\ c \in Seq(Items) /\ Ordered(c)
      /\ \A n \in Notes : In(n, c) <=> In(n, b) \/ In(n, got)
  <2>1. Precedes(b, got)
    BY <1>1, <1>2 DEF OrderInv, Precedes
  <2> QED BY <1>2, <2>1, CatIs DEF LoopTypeOK, OrderInv
<1> HIDE DEF c
<1>4. /\ c \o queue \in Seq(Items) /\ Ordered(c \o queue)
      /\ \A n \in Notes : In(n, c \o queue) <=> In(n, c) \/ In(n, queue)
  <2>1. Precedes(c, queue)
    BY <1>1, <1>2, <1>3 DEF OrderInv, Precedes
  <2> QED BY <1>3, <2>1, CatIs DEF LoopTypeOK, OrderInv
<1>5. Line = c \o queue
  BY DEF Line, c, b, a
<1>6. \A n \in Notes : n \in Waiting <=> In(n, Line)
  BY DEF Waiting, In
<1> QED BY <1>1, <1>2, <1>3, <1>4, <1>5, <1>6 DEF Waits

LEMMA Accounts == ASSUME LoopIInv PROVE AccountedInOrder
<1>1. LoopTypeOK
  BY DEF LoopIInv
<1>2. \A i, j \in DOMAIN Line :
          i < j /\ IsNote(Line[i]) /\ IsNote(Line[j]) => Line[i] < Line[j]
  BY LineIs DEF Ordered
<1>3. \A n \in 1 .. arrived : n \in Notes /\ n <= arrived
  <2>1. arrived \in 0 .. MaxNotes /\ MaxNotes \in Nat
    BY <1>1, Sizes DEF LoopTypeOK
  <2> QED BY <2>1 DEF Notes
<1>4. \A n \in 1 .. arrived :
          \/ settled[n] = IF n \in Waiting THEN 0 ELSE 1
          \/ settled[n] = 0 /\ n \in steered
  BY <1>3, LineIs DEF LoopIInv, AccountInv
<1> QED BY <1>1, <1>2, <1>4 DEF AccountedInOrder

(* Messages are taken up in the order of their arrival, through batches,    *)
(* steers taken or turned down and fetches while a turn ends, and each is   *)
(* accounted for: on its way, or settled exactly once, or it came in while  *)
(* a steer waited for its answer (_runtime_loop, l. 749-835), for any       *)
(* number of messages and of expiries that find the runtime busy.           *)
THEOREM NothingOutOfTurn == LoopSpec => []AccountedInOrder
<1>1. LoopInit => LoopIInv
  BY LoopInitHolds
<1>2. LoopIInv /\ [LoopNext]_loopVars => LoopIInv'
  BY LoopKeeps
<1>3. LoopIInv => AccountedInOrder
  BY Accounts
<1> QED BY <1>1, <1>2, <1>3, PTL DEF LoopSpec

-----------------------------------------------------------------------------
(* IdleIsTimed.  What the worker has yet to look at is what is pending, what *)
(* queue_task has and the queue, in this order.  Expiries in it are of       *)
(* timers made, and of the one now bound only once it has run out; after its *)
(* expiry only notifications follow, so that a session whose expiry finds    *)
(* the worker busy has a message coming that will time it anew.              *)
ToCome == pending \o (got \o queue)

ExpiriesInv ==
    /\ bound <= timers
    /\ \A x \in Items : In(x, ToCome) => -timers <= x /\ (Matches(x) => fired)

LastInv ==
    \A i, j \in DOMAIN ToCome : i < j /\ Matches(ToCome[i]) => IsNote(ToCome[j])

PhaseInv ==
    /\ pc \notin Turning => turn = "off"
    /\ pc \in {"turn", "steering"} => turn # "off" /\ bound = NoTimer
    /\ pc = "ending" => turn = "over"
    /\ pc \in {"expiry", "probe"} => fired /\ \A i \in DOMAIN queue : IsNote(queue[i])

TimedInv ==
    pc \in {"rest", "ending"} /\ session =>
        \/ bound # NoTimer /\ ~ fired
        \/ \E x \in Items : In(x, ToCome) /\ (IsNote(x) \/ Matches(x))

IdleInv == ExpiriesInv /\ LastInv /\ PhaseInv /\ TimedInv

LEMMA CatHas ==
    ASSUME NEW s \in Seq(Items), NEW t \in Seq(Items), NEW x
    PROVE  In(x, s \o t) <=> In(x, s) \/ In(x, t)
<1>1. /\ Len(s) \in Nat /\ Len(t) \in Nat
      /\ DOMAIN s = 1 .. Len(s) /\ DOMAIN t = 1 .. Len(t)
      /\ DOMAIN (s \o t) = 1 .. Len(s) + Len(t)
  OBVIOUS
<1>2. /\ \A i \in 1 .. Len(s) : i \in 1 .. Len(s) + Len(t) /\ (s \o t)[i] = s[i]
      /\ \A i \in 1 .. Len(t) : Len(s) + i \in 1 .. Len(s) + Len(t) /\ (s \o t)[Len(s) + i] = t[i]
  BY <1>1
<1>3. \A i \in 1 .. Len(s) + Len(t) : i \in 1 .. Len(s) \/ \E j \in 1 .. Len(t) : i = Len(s) + j
  <2> TAKE i \in 1 .. Len(s) + Len(t)
  <2>1. CASE i <= Len(s)
    BY <1>1, <2>1
  <2>2. CASE i > Len(s)
    <3>1. i - Len(s) \in 1 .. Len(t) /\ i = Len(s) + (i - Len(s))
      BY <1>1, <2>2
    <3> QED BY <3>1
  <2> QED BY <1>1, <2>1, <2>2
<1> DEFINE u == s \o t
<1>4. /\ \A i \in DOMAIN s : i \in DOMAIN u /\ u[i] = s[i]
      /\ \A i \in DOMAIN t : Len(s) + i \in DOMAIN u /\ u[Len(s) + i] = t[i]
      /\ \A i \in DOMAIN u : i \in DOMAIN s \/ \E j \in DOMAIN t : i = Len(s) + j
  BY <1>1, <1>2, <1>3
<1> HIDE DEF u
<1>5. In(x, u) <=> In(x, s) \/ In(x, t)
  BY <1>4 DEF In
<1> QED BY <1>5 DEF u

(* What is yet to be looked at is what its three parts hold *)
LEMMA ComesFrom ==
    ASSUME NEW p \in Seq(Items), NEW g \in Seq(Items), NEW q \in Seq(Items)
    PROVE  /\ p \o (g \o q) \in Seq(Items)
           /\ \A x : In(x, p \o (g \o q)) <=> In(x, p) \/ In(x, g) \/ In(x, q)
<1> DEFINE r == g \o q
<1>1. r \in Seq(Items)
  OBVIOUS
<1>2. \A x : In(x, r) <=> In(x, g) \/ In(x, q)
  BY CatHas
<1> HIDE DEF r
<1>3. p \o r \in Seq(Items) /\ \A x : In(x, p \o r) <=> In(x, p) \/ In(x, r)
  BY <1>1, CatHas
<1> QED BY <1>2, <1>3 DEF r

LEMMA ComesOf ==
    ASSUME LoopTypeOK
    PROVE  /\ ToCome \in Seq(Items)
           /\ \A x : In(x, ToCome) <=> In(x, pending) \/ In(x, got) \/ In(x, queue)
           /\ \A i \in DOMAIN ToCome : ToCome[i] \in Items /\ In(ToCome[i], ToCome)
<1>1. /\ ToCome \in Seq(Items)
      /\ \A x : In(x, ToCome) <=> In(x, pending) \/ In(x, got) \/ In(x, queue)
  BY ComesFrom DEF LoopTypeOK, ToCome
<1> QED BY <1>1 DEF In

LEMMA ComesNext ==
    ASSUME LoopTypeOK'
    PROVE  /\ ToCome' \in Seq(Items)
           /\ \A x : In(x, ToCome') <=> In(x, pending') \/ In(x, got') \/ In(x, queue')
           /\ \A i \in DOMAIN ToCome' : ToCome'[i] \in Items /\ In(ToCome'[i], ToCome')
<1>1. pending' \in Seq(Items) /\ got' \in Seq(Items) /\ queue' \in Seq(Items)
  BY DEF LoopTypeOK
<1>2. ToCome' = pending' \o (got' \o queue')
  BY DEF ToCome
<1>3. /\ ToCome' \in Seq(Items)
      /\ \A x : In(x, ToCome') <=> In(x, pending') \/ In(x, got') \/ In(x, queue')
  BY <1>1, <1>2, ComesFrom
<1> QED BY <1>3 DEF In

LEMMA AppendHas ==
    ASSUME NEW s \in Seq(Items), NEW x \in Items
    PROVE  /\ Append(s, x) \in Seq(Items)
           /\ DOMAIN Append(s, x) = 1 .. Len(s) + 1 /\ DOMAIN s = 1 .. Len(s) /\ Len(s) \in Nat
           /\ \A i \in DOMAIN s : Append(s, x)[i] = s[i]
           /\ Append(s, x)[Len(s) + 1] = x
           /\ \A y : In(y, Append(s, x)) <=> In(y, s) \/ y = x
<1>1. /\ Append(s, x) \in Seq(Items)
      /\ DOMAIN Append(s, x) = 1 .. Len(s) + 1 /\ DOMAIN s = 1 .. Len(s) /\ Len(s) \in Nat
      /\ \A i \in DOMAIN s : Append(s, x)[i] = s[i]
      /\ Append(s, x)[Len(s) + 1] = x
  OBVIOUS
<1>2. /\ Len(s) + 1 \in 1 .. Len(s) + 1
      /\ \A i \in 1 .. Len(s) : i \in 1 .. Len(s) + 1
      /\ \A i \in 1 .. Len(s) + 1 : i \in 1 .. Len(s) \/ i = Len(s) + 1
  BY <1>1
<1> DEFINE a == Append(s, x)
<1>3. /\ DOMAIN a = 1 .. Len(s) + 1 /\ DOMAIN s = 1 .. Len(s)
      /\ \A i \in DOMAIN s : a[i] = s[i]
      /\ a[Len(s) + 1] = x
  BY <1>1
<1> HIDE DEF a
<1>4. \A y : In(y, a) <=> In(y, s) \/ y = x
  BY <1>2, <1>3 DEF In
<1> QED BY <1>1, <1>4 DEF a

(* One more comes in at the end *)
LEMMA ComesIn ==
    ASSUME LoopTypeOK, NEW x \in Items, queue' = Append(queue, x), pending' = pending, got' = got
    PROVE  ToCome' = Append(ToCome, x)
<1>1. pending \in Seq(Items) /\ got \in Seq(Items) /\ queue \in Seq(Items) /\ <<x>> \in Seq(Items)
  BY DEF LoopTypeOK
<1>2. got \o queue \in Seq(Items)
  BY <1>1
<1>3. queue' = queue \o <<x>>
  BY <1>1, AppendIsConcat
<1>4. got \o (queue \o <<x>>) = (got \o queue) \o <<x>>
  BY <1>1, CatGroups
<1>5. pending \o ((got \o queue) \o <<x>>) = (pending \o (got \o queue)) \o <<x>>
  BY <1>1, <1>2, CatGroups
<1>6. ToCome \o <<x>> = Append(ToCome, x)
  BY ComesOf, AppendIsConcat
<1> QED BY <1>3, <1>4, <1>5, <1>6 DEF ToCome

(* A step that leaves the timer alone, and what is to come *)
LEMMA NothingComes ==
    ASSUME IdleInv, ToCome' = ToCome, bound' = bound, fired' = fired, timers' = timers
    PROVE  ExpiriesInv' /\ LastInv'
<1>1. \A x : Matches(x)' <=> Matches(x)
  BY DEF Matches
<1> QED BY <1>1 DEF IdleInv, ExpiriesInv, LastInv, Matches

(* A step that lets go of the timer, or takes the next, and adds nothing *)
LEMMA NewTimer ==
    ASSUME LoopTypeOK, LoopTypeOK', IdleInv,
           \A x \in Items : In(x, ToCome') => In(x, ToCome),
           \/ bound' = NoTimer /\ timers' = timers
           \/ bound' = timers + 1 /\ timers' = timers + 1
    PROVE  ExpiriesInv' /\ LastInv'
<1>1. timers \in Nat /\ timers' \in Nat /\ bound' \in Nat /\ \A x \in Items : x \in Int
  <2>1. Items \subseteq Int
    BY BoundsAssumption DEF Items, MaxTimers
  <2> QED BY <2>1, Sizes DEF LoopTypeOK
<1>2. \A x \in Items : In(x, ToCome) => -timers <= x
  BY DEF IdleInv, ExpiriesInv
<1>3. \A x \in Items : In(x, ToCome') => -timers' <= x /\ ~ Matches(x)'
  <2> SUFFICES ASSUME NEW x \in Items, In(x, ToCome')
               PROVE  -timers' <= x /\ ~ Matches(x)'
    OBVIOUS
  <2>1. -timers <= x /\ x \in Int
    BY <1>1, <1>2
  <2>2. CASE bound' = NoTimer /\ timers' = timers
    BY <2>1, <2>2 DEF Matches
  <2>3. CASE bound' = timers + 1 /\ timers' = timers + 1
    <3>1. -(timers + 1) <= x /\ x # -(timers + 1)
      BY <1>1, <2>1
    <3> QED BY <2>3, <3>1 DEF Matches, Expiry
  <2> QED BY <2>2, <2>3
<1>4. bound' <= timers'
  BY <1>1 DEF NoTimer
<1>5. LastInv'
  BY <1>3, ComesNext DEF LastInv
<1> QED BY <1>3, <1>4, <1>5 DEF ExpiriesInv

LEMMA IdleArrive == ASSUME LoopIInv, LoopIInv', IdleInv, Arrive PROVE IdleInv'
<1> USE DEF LoopIInv
<1> DEFINE n == arrived + 1
<1>1. n \in Items /\ IsNote(n) /\ n \in Int /\ timers \in Nat /\ bound \in Nat
  <2>1. arrived \in 0 .. MaxNotes /\ arrived < MaxNotes /\ MaxNotes \in Nat
    BY Sizes DEF LoopTypeOK, Arrive
  <2>2. n \in Notes /\ n > 0 /\ n \in Int
    BY <2>1 DEF Notes
  <2>3. n \in Items /\ IsNote(n)
    BY <2>2, Sizes DEF IsNote
  <2>4. timers \in Nat /\ bound \in Nat
    BY Sizes DEF LoopTypeOK
  <2> QED BY <2>2, <2>3, <2>4
<1>2. /\ queue' = Append(queue, n) /\ pending' = pending /\ got' = got
      /\ bound' = bound /\ fired' = fired /\ timers' = timers
      /\ pc' = pc /\ turn' = turn /\ session' = session
  BY DEF Arrive, worker, timer
<1> HIDE DEF n
<1>3. ToCome' = Append(ToCome, n)
  BY <1>1, <1>2, ComesIn
<1>4. /\ ToCome \in Seq(Items)
      /\ \A i \in DOMAIN ToCome : ToCome[i] \in Items /\ In(ToCome[i], ToCome)
  BY ComesOf
<1>5. /\ DOMAIN ToCome' = 1 .. Len(ToCome) + 1 /\ DOMAIN ToCome = 1 .. Len(ToCome) /\ Len(ToCome) \in Nat
      /\ \A i \in DOMAIN ToCome : ToCome'[i] = ToCome[i]
      /\ ToCome'[Len(ToCome) + 1] = n
      /\ \A y : In(y, ToCome') <=> In(y, ToCome) \/ y = n
  BY <1>1, <1>3, <1>4, AppendHas
<1>6. ~ Matches(n) /\ -timers <= n /\ \A x : Matches(x)' <=> Matches(x)
  BY <1>1, <1>2 DEF Matches, Expiry, IsNote
<1>7. ExpiriesInv'
  BY <1>2, <1>5, <1>6 DEF IdleInv, ExpiriesInv
<1>8. LastInv'
  <2> SUFFICES ASSUME NEW i \in DOMAIN ToCome', NEW j \in DOMAIN ToCome', i < j,
                      Matches(ToCome'[i])
               PROVE  IsNote(ToCome'[j])
    BY <1>2 DEF LastInv, Matches
  <2>1. CASE j = Len(ToCome) + 1
    BY <1>1, <1>5, <2>1
  <2>2. CASE j # Len(ToCome) + 1
    <3>1. i \in DOMAIN ToCome /\ j \in DOMAIN ToCome
      BY <1>5, <2>2
    <3>2. ToCome'[i] = ToCome[i] /\ ToCome'[j] = ToCome[j]
      BY <1>5, <3>1
    <3> QED BY <3>1, <3>2 DEF IdleInv, LastInv
  <2> QED BY <2>1, <2>2
<1>9. PhaseInv'
  <2>1. /\ DOMAIN queue' = 1 .. Len(queue) + 1 /\ DOMAIN queue = 1 .. Len(queue) /\ Len(queue) \in Nat
        /\ \A i \in DOMAIN queue : queue'[i] = queue[i]
        /\ queue'[Len(queue) + 1] = n
    <3>1. queue \in Seq(Items) /\ n \in Items /\ queue' = Append(queue, n)
      BY <1>1, <1>2 DEF LoopTypeOK
    <3> QED BY <3>1, AppendHas
  <2>2. (\A i \in DOMAIN queue : IsNote(queue[i])) => \A i \in DOMAIN queue' : IsNote(queue'[i])
    <3> SUFFICES ASSUME \A i \in DOMAIN queue : IsNote(queue[i]), NEW i \in DOMAIN queue'
                 PROVE  IsNote(queue'[i])
      OBVIOUS
    <3>1. i \in DOMAIN queue \/ i = Len(queue) + 1
      BY <2>1
    <3> QED BY <1>1, <2>1, <3>1
  <2> QED BY <1>2, <2>2 DEF IdleInv, PhaseInv, Turning
<1>10. TimedInv'
  BY <1>2, <1>5, <1>6 DEF IdleInv, TimedInv
<1> QED BY <1>7, <1>8, <1>9, <1>10 DEF IdleInv

LEMMA IdleFires == ASSUME LoopIInv, LoopIInv', IdleInv, IdleTimerFires PROVE IdleInv'
<1> USE DEF LoopIInv
<1> DEFINE e == Expiry(bound)
<1>1. e \in Items /\ e \in Int /\ e = -bound /\ bound \in Nat /\ bound # NoTimer /\ timers \in Nat
  <2>1. bound \in 0 .. MaxTimers /\ MaxTimers \in Nat /\ MaxNotes \in Nat /\ bound # NoTimer
    BY Sizes DEF LoopTypeOK, IdleTimerFires
  <2>2. -bound \in -MaxTimers .. MaxNotes
    BY <2>1
  <2> QED BY <2>1, <2>2, Sizes DEF Items, Expiry, LoopTypeOK
<1>2. /\ queue' = Append(queue, e) /\ pending' = pending /\ got' = got
      /\ bound' = bound /\ ~ fired /\ fired' = TRUE /\ timers' = timers
      /\ pc' = pc /\ turn' = turn /\ session' = session
  BY DEF IdleTimerFires, worker
<1> HIDE DEF e
<1>3. ToCome' = Append(ToCome, e)
  BY <1>1, <1>2, ComesIn
<1>4. /\ ToCome \in Seq(Items)
      /\ \A i \in DOMAIN ToCome : ToCome[i] \in Items /\ In(ToCome[i], ToCome)
  BY ComesOf
<1>5. /\ DOMAIN ToCome' = 1 .. Len(ToCome) + 1 /\ DOMAIN ToCome = 1 .. Len(ToCome) /\ Len(ToCome) \in Nat
      /\ \A i \in DOMAIN ToCome : ToCome'[i] = ToCome[i]
      /\ \A y : In(y, ToCome') <=> In(y, ToCome) \/ y = e
  BY <1>1, <1>3, <1>4, AppendHas
<1>6. Matches(e) /\ -timers <= e /\ \A x : Matches(x)' <=> Matches(x)
  <2>1. bound <= timers
    BY DEF IdleInv, ExpiriesInv
  <2> QED BY <1>1, <1>2, <2>1 DEF Matches, Expiry
<1>7. \A i \in DOMAIN ToCome : ~ Matches(ToCome[i])
  BY <1>2, <1>4 DEF IdleInv, ExpiriesInv
<1>8. ExpiriesInv'
  BY <1>2, <1>5, <1>6 DEF IdleInv, ExpiriesInv
<1>9. LastInv'
  <2> SUFFICES ASSUME NEW i \in DOMAIN ToCome', NEW j \in DOMAIN ToCome', i < j,
                      Matches(ToCome'[i])
               PROVE  FALSE
    BY <1>2 DEF LastInv, Matches
  <2>1. i \in DOMAIN ToCome
    BY <1>5
  <2> QED BY <1>5, <1>7, <2>1
<1>10. PhaseInv'
  BY <1>2 DEF IdleInv, PhaseInv, Turning
<1>11. TimedInv'
  BY <1>1, <1>5, <1>6 DEF TimedInv
<1> QED BY <1>8, <1>9, <1>10, <1>11 DEF IdleInv

(* An item that is fetched keeps its place *)
LEMMA IdleFetch == ASSUME LoopIInv, LoopIInv', IdleInv, Fetch PROVE IdleInv'
<1> USE DEF LoopIInv
<1>1. /\ queue \in Seq(Items) /\ queue # <<>> /\ got = <<>>
      /\ got' = <<Head(queue)>> /\ queue' = Tail(queue) /\ pending' = pending
      /\ bound' = bound /\ fired' = fired /\ timers' = timers
      /\ pc' = pc /\ turn' = turn /\ session' = session
  BY DEF LoopTypeOK, PlaceInv, Fetch, timer
<1>2. <<Head(queue)>> \o Tail(queue) = queue
  <2>1. Len(queue) \in Nat /\ Len(queue) >= 1
    BY <1>1, EmptySeq
  <2> QED BY <1>1, <2>1
<1>3. <<>> \o queue = queue
  BY <1>1, ConcatEmptySeq
<1>4. ToCome' = ToCome
  BY <1>1, <1>2, <1>3 DEF ToCome
<1>5. ExpiriesInv' /\ LastInv'
  BY <1>1, <1>4, NothingComes
<1>6. pc \in Turning
  BY DEF PlaceInv, Fetch
<1>7. PhaseInv' /\ TimedInv'
  BY <1>1, <1>4, <1>6 DEF IdleInv, PhaseInv, TimedInv, Turning, Matches
<1> QED BY <1>5, <1>7 DEF IdleInv

LEMMA IdleTurnEnds == ASSUME LoopIInv, IdleInv, TurnEnds PROVE IdleInv'
<1>1. /\ ToCome' = ToCome /\ bound' = bound /\ fired' = fired /\ timers' = timers
      /\ pc' = pc /\ turn' = "over" /\ queue' = queue /\ turn = "on"
  BY DEF TurnEnds, ToCome
<1>2. pc \in {"turn", "steering"}
  BY <1>1 DEF IdleInv, PhaseInv, Turning
<1>3. PhaseInv' /\ TimedInv'
  BY <1>1, <1>2 DEF IdleInv, PhaseInv, TimedInv, Turning
<1> QED BY <1>1, <1>3, NothingComes DEF IdleInv

LEMMA IdleQuietEnds == ASSUME LoopIInv, IdleInv, QuietEnds PROVE IdleInv'
<1>1. /\ ToCome' = ToCome /\ bound' = bound /\ fired' = fired /\ timers' = timers
      /\ pc' = pc /\ turn' = turn /\ queue' = queue /\ session' = session
  BY DEF QuietEnds, ToCome, timer
<1>2. PhaseInv' /\ TimedInv'
  BY <1>1 DEF IdleInv, PhaseInv, TimedInv, Turning, Matches
<1> QED BY <1>1, <1>2, NothingComes DEF IdleInv

LEMMA IdleTakeBatch == ASSUME LoopIInv, LoopIInv', IdleInv, TakeBatch PROVE IdleInv'
<1> USE DEF LoopIInv
<1> DEFINE all == pending \o queue
           k == RunOf(all)
           b == SubSeq(all, 1, k)
           l == LeftPending(pending, k)
           r == LeftQueued(k)
<1>1. /\ pending \in Seq(Items) /\ queue \in Seq(Items) /\ got = <<>> /\ got' = <<>>
      /\ pending' = l /\ queue' = r
      /\ bound' = NoTimer /\ timers' = timers /\ pc' = "turn" /\ turn' = "on"
  BY DEF LoopTypeOK, PlaceInv, Turning, TakeBatch, NoBinding, LeftQueued
<1>2. /\ b \in Seq(Notes) /\ l \in Seq(Items) /\ r \in Seq(Items)
      /\ b \o (l \o r) = all
  BY <1>1, BatchIs
<1> HIDE DEF b, l, r, k, all
<1>3. b \in Seq(Items)
  BY <1>2, Sizes
<1>4. \A x : In(x, l) \/ In(x, r) => In(x, all)
  BY <1>2, <1>3, ComesFrom
<1>5. \A x : In(x, all) <=> In(x, pending) \/ In(x, queue)
  BY <1>1, CatHas DEF all
<1>6. \A x : ~ In(x, got')
  BY <1>1 DEF In
<1>7. \A x \in Items : In(x, ToCome') => In(x, ToCome)
  BY <1>1, <1>4, <1>5, <1>6, ComesOf, ComesNext
<1>8. ExpiriesInv' /\ LastInv'
  BY <1>1, <1>7, NewTimer
<1>9. PhaseInv' /\ TimedInv'
  BY <1>1 DEF PhaseInv, TimedInv, Turning
<1> QED BY <1>8, <1>9 DEF IdleInv

(* Taking an expiry: what follows it stays, in its order *)
LEMMA IdleTakeExpiry == ASSUME LoopIInv, LoopIInv', IdleInv, TakeExpiry PROVE IdleInv'
<1> USE DEF LoopIInv
<1> DEFINE all == pending \o queue
<1>1. /\ pending \in Seq(Items) /\ queue \in Seq(Items) /\ got = <<>> /\ got' = <<>>
      /\ all # <<>> /\ ~ IsNote(all[1])
      /\ pending' = IF pending = <<>> THEN <<>> ELSE Tail(pending)
      /\ queue' = IF pending = <<>> THEN Tail(queue) ELSE queue
      /\ pc = "rest" /\ turn = "off"
      /\ bound' = bound /\ fired' = fired /\ timers' = timers
      /\ session' = session /\ turn' = turn
  BY DEF LoopTypeOK, PlaceInv, Turning, TakeExpiry, IdleInv, PhaseInv
<1>2. pc' = IF Matches(all[1]) /\ session /\ Len(all) = 1 THEN "expiry" ELSE "rest"
  BY DEF TakeExpiry
<1>3. ToCome = all
  <2>1. <<>> \o queue = queue
    BY <1>1, ConcatEmptySeq
  <2> QED BY <1>1, <2>1 DEF ToCome
<1>4. ToCome' = pending' \o queue'
  <2>1. queue' \in Seq(Items)
    BY DEF LoopTypeOK
  <2>2. <<>> \o queue' = queue'
    BY <2>1, ConcatEmptySeq
  <2> QED BY <1>1, <2>2 DEF ToCome
<1>5. ToCome' = Tail(all)
  <2>1. CASE pending = <<>>
    <3>1. all = queue
      BY <1>1, <2>1, ConcatEmptySeq
    <3>2. Tail(queue) \in Seq(Items)
      BY <1>1, <2>1, <3>1
    <3>3. <<>> \o Tail(queue) = Tail(queue)
      BY <3>2, ConcatEmptySeq
    <3> QED BY <1>1, <1>4, <2>1, <3>1, <3>3
  <2>2. CASE pending # <<>>
    <3>1. Len(pending) \in Nat /\ Len(pending) >= 1 /\ Len(queue) \in Nat
      BY <1>1, <2>2, EmptySeq
    <3>2. Tail(pending) \o queue = Tail(pending \o queue)
      BY <1>1, <3>1
    <3> QED BY <1>1, <1>4, <2>2, <3>2
  <2> QED BY <2>1, <2>2
<1>6. /\ all \in Seq(Items) /\ Len(all) \in Nat /\ Len(all) >= 1
      /\ \A i \in DOMAIN all : all[i] \in Items /\ In(all[i], all)
  <2>1. all \in Seq(Items)
    BY <1>1
  <2>2. Len(all) \in Nat /\ Len(all) >= 1
    BY <1>1, <2>1, EmptySeq
  <2> QED BY <1>3, <2>1, <2>2, ComesOf
<1>7. queue' \in Seq(Items) /\ ToCome' \in Seq(Items)
  BY ComesNext DEF LoopTypeOK
<1> HIDE DEF all
<1>8. /\ Len(ToCome') = Len(all) - 1 /\ DOMAIN ToCome' = 1 .. Len(all) - 1
      /\ DOMAIN all = 1 .. Len(all)
      /\ \A i \in 1 .. Len(all) - 1 : ToCome'[i] = all[i + 1]
  BY <1>5, <1>6
<1>9. \A i \in DOMAIN ToCome' : i \in Nat /\ i + 1 \in DOMAIN all /\ ToCome'[i] = all[i + 1]
  BY <1>6, <1>8
<1>10. \A x : In(x, ToCome') => In(x, all)
  BY <1>9 DEF In
<1>11. ExpiriesInv'
  BY <1>1, <1>3, <1>10 DEF IdleInv, ExpiriesInv, Matches
<1>12. LastInv'
  <2>1. \A i, j \in DOMAIN all : i < j /\ Matches(all[i]) => IsNote(all[j])
    BY <1>3 DEF IdleInv, LastInv
  <2>2. \A i, j \in DOMAIN ToCome' : i < j => i + 1 < j + 1
    BY <1>9
  <2>3. \A i, j \in DOMAIN ToCome' : i < j /\ Matches(ToCome'[i]) => IsNote(ToCome'[j])
    BY <1>9, <2>1, <2>2
  <2> QED BY <1>1, <2>3 DEF LastInv, Matches
<1>13. PhaseInv'
  <2>1. CASE pc' = "expiry"
    <3>1. Matches(all[1]) /\ Len(all) = 1
      BY <1>2, <2>1
    <3>2. fired
      <4>1. 1 \in DOMAIN all
        BY <3>1, <1>8
      <4> QED BY <1>3, <1>6, <3>1, <4>1 DEF IdleInv, ExpiriesInv
    <3>3. \A x : ~ In(x, ToCome')
      BY <1>8, <3>1 DEF In
    <3>4. \A x : ~ In(x, queue')
      BY <3>3, ComesNext
    <3>5. \A i \in DOMAIN queue' : IsNote(queue'[i])
      BY <3>4 DEF In
    <3> QED BY <1>1, <2>1, <3>2, <3>5 DEF PhaseInv, Turning
  <2>2. CASE pc' = "rest"
    BY <1>1, <2>2 DEF PhaseInv, Turning
  <2> QED BY <1>2, <2>1, <2>2
<1>14. TimedInv'
  <2> SUFFICES ASSUME pc' = "rest", session, bound = NoTimer \/ fired
               PROVE  \E x \in Items : In(x, ToCome') /\ (IsNote(x) \/ Matches(x))
    BY <1>1, <1>2 DEF TimedInv, Matches
  <2>1. PICK x \in Items : In(x, all) /\ (IsNote(x) \/ Matches(x))
    BY <1>1, <1>3 DEF IdleInv, TimedInv
  <2>2. PICK i \in DOMAIN all : all[i] = x
    BY <2>1 DEF In
  <2>3. CASE i = 1
    <3>1. Matches(all[1]) /\ Len(all) # 1
      BY <1>1, <1>2, <2>1, <2>2, <2>3
    <3>2. 1 \in DOMAIN all /\ 2 \in DOMAIN all /\ 1 \in 1 .. Len(all) - 1 /\ 1 < 2
      BY <1>6, <1>8, <3>1
    <3>3. IsNote(all[2])
      BY <1>3, <3>1, <3>2 DEF IdleInv, LastInv
    <3>4. ToCome'[1] = all[2] /\ 1 \in DOMAIN ToCome'
      BY <1>8, <3>2
    <3> QED BY <3>3, <3>4, ComesNext
  <2>4. CASE i # 1
    <3>1. i - 1 \in 1 .. Len(all) - 1 /\ (i - 1) + 1 = i
      BY <1>6, <1>8, <2>4
    <3>2. ToCome'[i - 1] = x /\ i - 1 \in DOMAIN ToCome'
      BY <1>8, <2>2, <3>1
    <3> QED BY <2>1, <3>2 DEF In
  <2> QED BY <2>3, <2>4
<1> QED BY <1>11, <1>12, <1>13, <1>14 DEF IdleInv

LEMMA IdleExpiryLooks == ASSUME LoopIInv, LoopIInv', IdleInv, ExpiryLooks PROVE IdleInv'
<1> USE DEF LoopIInv
<1>1. /\ ToCome' = ToCome /\ bound' = bound /\ fired' = fired /\ timers' = timers
      /\ pc = "expiry" /\ pc' = (IF queue = <<>> THEN "probe" ELSE "rest")
      /\ turn' = turn /\ queue' = queue /\ session' = session
  BY DEF ExpiryLooks, ToCome, timer
<1>2. PhaseInv'
  BY <1>1 DEF IdleInv, PhaseInv, Turning
<1>3. TimedInv'
  <2> SUFFICES ASSUME queue # <<>>
               PROVE  \E x \in Items : In(x, ToCome') /\ IsNote(x)
    BY <1>1 DEF TimedInv
  <2>1. /\ Head(queue) \in Items /\ Head(queue) = queue[1] /\ 1 \in DOMAIN queue
    <3>1. queue \in Seq(Items) /\ Len(queue) \in Nat /\ Len(queue) >= 1
      BY EmptySeq DEF LoopTypeOK
    <3> QED BY <3>1
  <2>2. IsNote(queue[1]) /\ In(queue[1], queue)
    BY <1>1, <2>1 DEF IdleInv, PhaseInv, In
  <2> QED BY <1>1, <2>1, <2>2, ComesOf
<1> QED BY <1>1, <1>2, <1>3, NothingComes DEF IdleInv

LEMMA IdleFindsJob == ASSUME LoopIInv, LoopIInv', IdleInv, FindsJob PROVE IdleInv'
<1> USE DEF LoopIInv
<1>1. /\ ToCome' = ToCome /\ bound' = timers + 1 /\ timers' = timers + 1 /\ fired' = FALSE
      /\ pc = "probe" /\ pc' = "rest" /\ turn' = turn
  BY DEF FindsJob, JobGoesOn, NewBinding, ToCome
<1>2. bound' # NoTimer
  <2>1. timers \in Nat
    BY Sizes DEF LoopTypeOK
  <2> QED BY <1>1, <2>1 DEF NoTimer
<1>3. ExpiriesInv' /\ LastInv'
  BY <1>1, NewTimer
<1>4. PhaseInv' /\ TimedInv'
  BY <1>1, <1>2 DEF IdleInv, PhaseInv, TimedInv, Turning
<1> QED BY <1>3, <1>4 DEF IdleInv

LEMMA IdleStopSession == ASSUME LoopIInv, LoopIInv', IdleInv, StopSession PROVE IdleInv'
<1> USE DEF LoopIInv
<1>1. /\ ToCome' = ToCome /\ bound' = NoTimer /\ timers' = timers /\ session' = FALSE
      /\ pc = "probe" /\ pc' = "rest" /\ turn' = turn
  BY DEF StopSession, NoBinding, ToCome
<1>2. ExpiriesInv' /\ LastInv'
  BY <1>1, NewTimer
<1>3. PhaseInv' /\ TimedInv'
  BY <1>1 DEF IdleInv, PhaseInv, TimedInv, Turning
<1> QED BY <1>2, <1>3 DEF IdleInv

(* What a queue_task has is kept when it is a notification, else dropped *)
LEMMA NotesOnly ==
    ASSUME NEW s \in Seq(Items), NEW x, In(x, NotesIn(s))
    PROVE  In(x, s)
<1>1. NotesIn(s) \in Seq(Notes) /\ \A n \in Notes : In(n, NotesIn(s)) <=> In(n, s)
  BY NotesAre
<1>2. x \in Notes
  BY <1>1 DEF In
<1> QED BY <1>1, <1>2

LEMMA AbsorbedIs ==
    ASSUME LoopIInv, LoopIInv', pending' = pending \o NotesIn(got), got' = <<>>, queue' = queue
    PROVE  \A x \in Items : In(x, ToCome') => In(x, ToCome)
<1> USE DEF LoopIInv
<1> DEFINE u == NotesIn(got)
<1>1. /\ u \in Seq(Items) /\ got \in Seq(Items) /\ pending \in Seq(Items)
      /\ \A x : In(x, u) => In(x, got)
  <2>1. got \in Seq(Items) /\ pending \in Seq(Items)
    BY DEF LoopTypeOK
  <2>2. u \in Seq(Items)
    BY <2>1, NotesAre, Sizes
  <2> QED BY <2>1, <2>2, NotesOnly
<1> HIDE DEF u
<1>2. \A x : In(x, pending \o u) <=> In(x, pending) \/ In(x, u)
  BY <1>1, CatHas
<1>3. \A x : ~ In(x, got')
  BY DEF In
<1> QED BY <1>1, <1>2, <1>3, ComesOf, ComesNext DEF u

LEMMA IdleAbsorbs == ASSUME LoopIInv, LoopIInv', IdleInv, Absorbs PROVE IdleInv'
<1>1. /\ pending' = pending \o NotesIn(got) /\ got' = <<>> /\ queue' = queue
      /\ bound' = bound /\ timers' = timers /\ pc = "turn" /\ pc' = pc /\ turn' = turn
  BY DEF Absorbs, Absorb
<1>2. bound' = NoTimer
  BY <1>1 DEF IdleInv, PhaseInv
<1>3. ExpiriesInv' /\ LastInv'
  BY <1>1, <1>2, AbsorbedIs, NewTimer DEF LoopIInv
<1>4. PhaseInv' /\ TimedInv'
  BY <1>1, <1>2 DEF IdleInv, PhaseInv, TimedInv, Turning
<1> QED BY <1>3, <1>4 DEF IdleInv

LEMMA IdleSteerStarts == ASSUME LoopIInv, LoopIInv', IdleInv, SteerStarts PROVE IdleInv'
<1>1. /\ pending' = pending \o NotesIn(got) /\ got' = <<>> /\ queue' = queue
      /\ bound' = bound /\ timers' = timers /\ pc = "turn" /\ pc' = "steering" /\ turn' = turn
  BY DEF SteerStarts, Absorb
<1>2. bound' = NoTimer
  BY <1>1 DEF IdleInv, PhaseInv
<1>3. ExpiriesInv' /\ LastInv'
  BY <1>1, <1>2, AbsorbedIs, NewTimer DEF LoopIInv
<1>4. PhaseInv' /\ TimedInv'
  BY <1>1, <1>2 DEF IdleInv, PhaseInv, TimedInv, Turning
<1> QED BY <1>3, <1>4 DEF IdleInv

LEMMA IdleSteerAnswered ==
    ASSUME LoopIInv, LoopIInv', IdleInv, NEW taken \in BOOLEAN, SteerAnswered(taken)
    PROVE  IdleInv'
<1> USE DEF LoopIInv
<1>1. /\ pending' = (IF taken THEN OthersIn(pending) ELSE pending) /\ got' = <<>> /\ queue' = queue
      /\ bound' = bound /\ timers' = timers /\ pc = "steering" /\ pc' = "turn" /\ turn' = turn
  BY DEF SteerAnswered, PendingLeft, timer
<1>2. bound' = NoTimer
  BY <1>1 DEF IdleInv, PhaseInv
<1>3. \A x : In(x, pending') => In(x, pending)
  <2> DEFINE O == {i \in DOMAIN pending : ~ IsNote(pending[i])}
  <2>1. \A i \in DOMAIN OthersIn(pending) :
            Place(O, i) \in DOMAIN pending /\ OthersIn(pending)[i] = pending[Place(O, i)]
    <3>1. pending \in Seq(Items)
      BY DEF LoopTypeOK
    <3>2. \A i \in DOMAIN Picked(pending, O) :
              Place(O, i) \in O /\ Picked(pending, O)[i] = pending[Place(O, i)]
      BY <3>1, PickedIs
    <3> QED BY <3>2 DEF OthersIn
  <2>2. \A x : In(x, OthersIn(pending)) => In(x, pending)
    BY <2>1 DEF In
  <2> QED BY <1>1, <2>2
<1>4. \A x : ~ In(x, got')
  BY <1>1 DEF In
<1>5. \A x \in Items : In(x, ToCome') => In(x, ToCome)
  BY <1>1, <1>3, <1>4, ComesOf, ComesNext
<1>6. ExpiriesInv' /\ LastInv'
  BY <1>1, <1>2, <1>5, NewTimer
<1>7. PhaseInv' /\ TimedInv'
  BY <1>1, <1>2 DEF IdleInv, PhaseInv, TimedInv, Turning
<1> QED BY <1>6, <1>7 DEF IdleInv

(* A turn that leaves a session starts its timer *)
LEMMA IdleTurnIsOver == ASSUME LoopIInv, LoopIInv', IdleInv, TurnIsOver PROVE IdleInv'
<1> USE DEF LoopIInv
<1>1. /\ pending' = pending \o NotesIn(got) /\ got' = <<>> /\ queue' = queue
      /\ pc = "turn" /\ pc' = "ending" /\ turn' = turn /\ turn = "over" /\ session' = session
      /\ IF session THEN bound' = timers + 1 /\ timers' = timers + 1 /\ fired' = FALSE
         ELSE bound' = bound /\ timers' = timers
  BY DEF TurnIsOver, Breaks, NewBinding
<1>2. bound = NoTimer
  BY <1>1 DEF IdleInv, PhaseInv
<1>3. ExpiriesInv' /\ LastInv'
  BY <1>1, <1>2, AbsorbedIs, NewTimer
<1>4. PhaseInv'
  BY <1>1 DEF PhaseInv, Turning
<1>5. TimedInv'
  <2>1. timers \in Nat
    BY Sizes DEF LoopTypeOK
  <2> QED BY <1>1, <2>1 DEF TimedInv, NoTimer
<1> QED BY <1>3, <1>4, <1>5 DEF IdleInv

LEMMA IdleSettle == ASSUME LoopIInv, LoopIInv', IdleInv, Settle PROVE IdleInv'
<1> USE DEF LoopIInv
<1>1. /\ pending' = pending \o got /\ got' = <<>> /\ queue' = queue
      /\ bound' = bound /\ fired' = fired /\ timers' = timers
      /\ pc = "ending" /\ pc' = "rest" /\ turn' = "off" /\ session' = session
  BY DEF Settle, GotKept, timer
<1>2. ToCome' = ToCome
  <2>1. pending \in Seq(Items) /\ got \in Seq(Items) /\ queue \in Seq(Items)
    BY DEF LoopTypeOK
  <2>2. <<>> \o queue = queue
    BY <2>1, ConcatEmptySeq
  <2>3. (pending \o got) \o queue = pending \o (got \o queue)
    BY <2>1, CatGroups
  <2> QED BY <1>1, <2>2, <2>3 DEF ToCome
<1>3. ExpiriesInv' /\ LastInv'
  BY <1>1, <1>2, NothingComes
<1>4. PhaseInv' /\ TimedInv'
  BY <1>1, <1>2 DEF IdleInv, PhaseInv, TimedInv, Turning, Matches
<1> QED BY <1>3, <1>4 DEF IdleInv

LEMMA IdleInitHolds == LoopInit => IdleInv
<1> SUFFICES ASSUME LoopInit PROVE IdleInv
  OBVIOUS
<1>1. /\ pending = <<>> /\ got = <<>> /\ queue = <<>> /\ bound = 0 /\ timers = 0
      /\ pc = "rest" /\ turn = "off" /\ session = FALSE
  BY DEF LoopInit, NoTimer
<1>2. ToCome = <<>>
  BY <1>1 DEF ToCome
<1>3. ExpiriesInv /\ LastInv
  BY <1>1, <1>2 DEF ExpiriesInv, LastInv, In
<1>4. PhaseInv /\ TimedInv
  BY <1>1 DEF PhaseInv, TimedInv, Turning
<1> QED BY <1>3, <1>4 DEF IdleInv

LEMMA IdleKeeps == ASSUME LoopIInv, LoopIInv', IdleInv, [LoopNext]_loopVars PROVE IdleInv'
<1>1. CASE Beside
  BY <1>1, IdleArrive, IdleFires, IdleFetch, IdleTurnEnds, IdleQuietEnds DEF Beside
<1>2. CASE Rest
  BY <1>2, IdleTakeBatch, IdleTakeExpiry, IdleExpiryLooks, IdleFindsJob, IdleStopSession DEF Rest
<1>3. CASE Steering
  BY <1>3, IdleSteerStarts, IdleSteerAnswered DEF Steering
<1>4. CASE UNCHANGED loopVars
  <2>1. /\ ToCome' = ToCome /\ bound' = bound /\ fired' = fired /\ timers' = timers
        /\ pc' = pc /\ turn' = turn /\ queue' = queue /\ session' = session
    BY <1>4 DEF loopVars, worker, timer, ToCome
  <2>2. PhaseInv' /\ TimedInv'
    BY <2>1 DEF IdleInv, PhaseInv, TimedInv, Turning, Matches
  <2> QED BY <2>1, <2>2, NothingComes DEF IdleInv
<1> QED BY <1>1, <1>2, <1>3, <1>4, IdleAbsorbs, IdleTurnIsOver, IdleSettle DEF LoopNext

LEMMA TimedAtRest == ASSUME LoopIInv, IdleInv PROVE SessionTimed
<1> SUFFICES ASSUME pc = "rest", session, bound = NoTimer \/ fired
             PROVE  \/ \E i \in DOMAIN pending : IsNote(pending[i]) \/ Matches(pending[i])
                    \/ \E i \in DOMAIN queue : IsNote(queue[i]) \/ Matches(queue[i])
  BY DEF SessionTimed
<1>1. PICK x \in Items : In(x, ToCome) /\ (IsNote(x) \/ Matches(x))
  BY DEF IdleInv, TimedInv
<1>2. got = <<>>
  BY DEF LoopIInv, PlaceInv, Turning
<1>3. ~ In(x, got)
  BY <1>2 DEF In
<1>4. In(x, pending) \/ In(x, queue)
  BY <1>1, <1>3, ComesOf DEF LoopIInv
<1> QED BY <1>1, <1>4 DEF In

(* A session goes with a turn, or when its idle time is over and none is on *)
LEMMA StoppedIdle ==
    ASSUME IdleInv, [LoopNext]_loopVars
    PROVE  [session /\ ~ session' /\ turn # "on" => fired /\ turn = "off"]_loopVars
<1> SUFFICES ASSUME session, ~ session', turn # "on"
             PROVE  fired /\ turn = "off"
  OBVIOUS
<1>1. ASSUME StopSession PROVE fired /\ turn = "off"
  BY <1>1 DEF StopSession, IdleInv, PhaseInv, Turning
<1>2. ~ TurnEnds /\ ~ UNCHANGED loopVars
  BY DEF TurnEnds, loopVars, timer
<1>3. ~ Arrive /\ ~ IdleTimerFires /\ ~ Fetch /\ ~ QuietEnds
  BY DEF Arrive, IdleTimerFires, Fetch, QuietEnds, timer
<1>4. ~ TakeBatch /\ ~ TakeExpiry /\ ~ ExpiryLooks /\ ~ FindsJob
  BY DEF TakeBatch, TakeExpiry, ExpiryLooks, FindsJob, timer
<1>5. ~ Absorbs /\ ~ SteerStarts /\ ~ TurnIsOver /\ ~ Settle
  BY DEF Absorbs, SteerStarts, TurnIsOver, Settle, timer
<1>6. \A taken \in BOOLEAN : ~ SteerAnswered(taken)
  BY DEF SteerAnswered, timer
<1> QED BY <1>1, <1>2, <1>3, <1>4, <1>5, <1>6 DEF LoopNext, Beside, Rest, Steering

(* A session at rest is never forgotten, its timer runs or something on its *)
(* way will look at it, and it is stopped for idleness only when the timer  *)
(* started after its last turn has run out and no turn is on it             *)
(* (_handle_runtime_expiry, _stop_expired_runtime_if_idle), for any number  *)
(* of messages and of expiries that find the runtime busy.                  *)
THEOREM IdleSessionsTimed == LoopSpec => IdleIsTimed
<1>1. LoopInit => LoopIInv /\ IdleInv
  BY LoopInitHolds, IdleInitHolds
<1>2. LoopIInv /\ IdleInv /\ [LoopNext]_loopVars => LoopIInv' /\ IdleInv'
  BY LoopKeeps, IdleKeeps
<1>3. LoopIInv /\ IdleInv => SessionTimed
  BY TimedAtRest
<1>4. IdleInv /\ [LoopNext]_loopVars
        => [session /\ ~ session' /\ turn # "on" => fired /\ turn = "off"]_loopVars
  BY StoppedIdle
<1> QED BY <1>1, <1>2, <1>3, <1>4, PTL DEF LoopSpec, IdleIsTimed
=============================================================================

------------------------------ MODULE TimerWheel ------------------------------
(***************************************************************************)
(* The hierarchical timing wheel of core/timerwheel.py: the near ring and  *)
(* the levels of buckets, the driver task that advances them, the timers   *)
(* with their resets, and the single waiter of each timer.                  *)
(*                                                                         *)
(* _advance_to has no await in it.  Its loop takes one action per tick,    *)
(* and while call says that it is running nothing else happens.            *)
(***************************************************************************)
EXTENDS Integers, FiniteSets

CONSTANTS
    Timers,       \* the timers the program creates, each at most once
    NearSize,     \* buckets of the near ring (256)
    LevelSize,    \* buckets of each level (64)
    LevelCount,   \* levels (4)
    Width,        \* Width[l]: the ticks one bucket of level l spans; the last is the horizon
    TickMs,       \* the milliseconds of a tick (10)
    Delays,       \* the delays asked for, in milliseconds
    Stalls,       \* by how many ticks the clock may move between two looks at it
    MaxClock,     \* bound: the last tick of the clock
    MaxResets     \* bound: resets of one timer

Levels == 0 .. LevelCount - 1
Near == -1        \* the level of the near ring

ASSUME SizesAssumption == /\ NearSize \in Nat \ {0}
                          /\ LevelSize \in Nat \ {0}
                          /\ LevelCount \in Nat \ {0}
                          /\ TickMs \in Nat \ {0}
ASSUME WidthAssumption == /\ Width \in [0 .. LevelCount -> Nat \ {0}]
                          /\ Width[0] = NearSize
                          /\ \A l \in Levels : Width[l + 1] = Width[l] * LevelSize
ASSUME InputsAssumption == /\ Delays \subseteq Nat
                           /\ Stalls \subseteq Nat \ {0}
                           /\ MaxClock \in Nat
                           /\ MaxResets \in Nat

VARIABLES
    clock,      \* time.monotonic_ns(), in ticks
    current,    \* _current_tick
    entries,    \* _entries: where each timer is on the wheel, NoEntry when it is not
    timer,      \* the Timer objects
    driver,     \* the driver task
    call,       \* who is in _advance_to, and what it goes on to do
    target,     \* the tick _advance_to is bringing the wheel to
    closed      \* "open", "closing" (close waits for the driver) or "closed"

vars == <<clock, current, entries, timer, driver, call, target, closed>>

NoEntry == [level |-> -2, slot |-> 0, deadline |-> 0, generation |-> 0]
Entry == [level : {Near} \cup Levels, slot : Nat, deadline : Nat, generation : Nat \ {0}]

(* A Timer.  waiter is the future of the coroutine inside wait(): what it   *)
(* will find when it is resumed, or "dropped" once its task was cancelled.  *)
Waiters == {"none", "pending", "expired", "cancelled", "closed", "dropped"}
Timer == [generation : Nat,       \* 0 until the timer is created
          active : BOOLEAN, cancelled : BOOLEAN, closed : BOOLEAN,
          deadline : Nat,
          expired : Nat,          \* _expired_generation, 0 for None
          consumed : BOOLEAN,
          waiter : Waiters]
Unmade == [generation |-> 0, active |-> FALSE, cancelled |-> FALSE, closed |-> FALSE,
           deadline |-> 0, expired |-> 0, consumed |-> FALSE, waiter |-> "none"]

NoCall == [by |-> "nobody"]
ByDriver == [by |-> "driver"]
Calls == {NoCall, ByDriver} \cup [by : {"create", "reset"}, timer : Timers, ticks : Nat \ {0}]
Idle == call = NoCall

DelayTicks(ms) == LET ticks == (ms + TickMs - 1) \div TickMs
                  IN  IF ticks < 1 THEN 1 ELSE ticks
MaxDelayTicks == Width[LevelCount] - 1

-----------------------------------------------------------------------------
(* The buckets *)

NearSlot(tick) == tick % NearSize
Slot(l, tick) == (tick \div Width[l]) % LevelSize

(* _insert's choice of level for a timer that is delta ticks away: the last *)
(* one whose buckets span no more                                           *)
LevelOf(delta) ==
    CHOOSE l \in Levels : Width[l] <= delta /\ (l + 1 \in Levels => delta < Width[l + 1])

(* _insert, at tick now *)
PlaceByDelay(deadline, generation, now) ==
    LET l == LevelOf(deadline - now)
    IN  IF deadline - now < NearSize
        THEN [level |-> Near, slot |-> NearSlot(deadline),
              deadline |-> deadline, generation |-> generation]
        ELSE [level |-> l, slot |-> Slot(l, deadline - now),
              deadline |-> deadline, generation |-> generation]
Place(deadline, generation, now) ==
    IF deadline - now < NearSize
    THEN [level |-> Near, slot |-> NearSlot(deadline),
          deadline |-> deadline, generation |-> generation]
    ELSE LET l == LevelOf(deadline - now)
         IN  [level |-> l, slot |-> Slot(l, deadline),
              deadline |-> deadline, generation |-> generation]

(* The levels that _cascade empties a bucket of as the wheel comes to tick: *)
(* the first when the near ring is around, the next when that one is too    *)
Cascades(tick) ==
    {l \in Levels : tick % NearSize = 0 /\ \A j \in 0 .. l - 1 : Slot(j, tick) = 0}

(* An entry after the cascades of tick.  An entry only ever moves down, so  *)
(* the levels may be taken together.                                        *)
Cascaded(e, tick) ==
    IF e.level \in Cascades(tick) /\ e.slot = Slot(e.level, tick)
    THEN Place(e.deadline, e.generation, tick)
    ELSE e

(* Whether the near bucket of tick holds the entry *)
AtHand(e, tick) == e.level = Near /\ e.slot = NearSlot(tick)

(* Timer._expire: only the generation that was inserted, and only once *)
Expires(t, generation) == timer[t].active /\ timer[t].generation = generation

Expired(o) ==
    [o EXCEPT !.active = FALSE, !.expired = o.generation,
              !.waiter = IF @ = "pending" THEN "expired" ELSE @]

(* Timer.cancel, once the timer is known to be neither cancelled nor closed *)
Cancelled(o) ==
    [o EXCEPT !.active = FALSE, !.cancelled = TRUE,
              !.waiter = IF @ = "pending" THEN "cancelled" ELSE @]

-----------------------------------------------------------------------------
(* The wheel has been started, and its driver has found nothing to do *)
Init ==
    /\ clock = 0
    /\ current = 0
    /\ entries = [t \in Timers |-> NoEntry]
    /\ timer = [t \in Timers |-> Unmade]
    /\ driver = "parked"
    /\ call = NoCall
    /\ target = 0
    /\ closed = "open"

(* The monotonic clock moves; the event loop may have been held up a while *)
Elapse ==
    /\ Idle
    /\ \E s \in Stalls : clock' = clock + s
    /\ clock' <= MaxClock
    /\ UNCHANGED <<current, entries, timer, driver, call, target, closed>>

-----------------------------------------------------------------------------
(* _advance_to *)

OnWheel == {t \in Timers : entries[t] # NoEntry}
Expiring(due) == {t \in due : Expires(t, entries[t].generation)}

(* A stall longer than the near ring, with few timers: all are looked at *)
Lagging == clock - current >= NearSize /\ clock - current > Cardinality(OnWheel)

Due(e, tick) == e.deadline <= tick

Rebuild ==
    LET due == {t \in OnWheel : Due(entries[t], clock)}
    IN  /\ current' = clock
        /\ target' = clock
        /\ entries' = [t \in Timers |->
               IF t \in due \/ t \notin OnWheel THEN NoEntry
               ELSE Place(entries[t].deadline, entries[t].generation, clock)]
        /\ timer' = [t \in Timers |-> IF t \in Expiring(due) THEN Expired(timer[t]) ELSE timer[t]]

Advance(caller) ==
    /\ Idle
    /\ call' = caller
    /\ IF Lagging THEN Rebuild
       ELSE /\ target' = IF clock > current THEN clock ELSE current
            /\ UNCHANGED <<current, entries, timer>>
    /\ UNCHANGED <<clock, driver, closed>>

(* One round of the loop: cascade, then empty the near bucket of the tick *)
Tick ==
    LET tick == current + 1
        moved == [t \in Timers |-> IF t \in OnWheel THEN Cascaded(entries[t], tick) ELSE NoEntry]
        found == {t \in OnWheel : AtHand(moved[t], tick)}
        due   == {t \in found : Due(moved[t], tick)}
    IN  /\ ~ Idle
        /\ current < target
        /\ current' = tick
        /\ entries' = [t \in Timers |->
               IF t \in due THEN NoEntry
               ELSE IF t \in found THEN Place(moved[t].deadline, moved[t].generation, tick)
               ELSE moved[t]]
        /\ timer' = [t \in Timers |-> IF t \in Expiring(due) THEN Expired(timer[t]) ELSE timer[t]]
        /\ UNCHANGED <<clock, driver, call, target, closed>>

(* _advance_to returns to its caller *)
Returns(by) == call # NoCall /\ call.by = by /\ current = target

-----------------------------------------------------------------------------
(* The driver task *)

DriverLooks(ens) == IF \A t \in Timers : ens[t] = NoEntry THEN "parked" ELSE "sleeping"

(* The sleep of a tick is over *)
DriverWakes ==
    /\ driver = "sleeping"
    /\ clock > current
    /\ Advance(ByDriver)

DriverDone ==
    /\ Returns("driver")
    /\ call' = NoCall
    /\ driver' = DriverLooks(entries)
    /\ UNCHANGED <<clock, current, entries, timer, target, closed>>

(* The poke of a create is taken *)
DriverPoked ==
    /\ Idle
    /\ driver = "poked"
    /\ driver' = DriverLooks(entries)
    /\ UNCHANGED <<clock, current, entries, timer, call, target, closed>>

-----------------------------------------------------------------------------
(* TimerWheel.create and Timer.reset *)

CreateBegins(t, ms) ==
    /\ closed = "open"
    /\ timer[t] = Unmade
    /\ DelayTicks(ms) <= MaxDelayTicks
    /\ clock + DelayTicks(ms) <= MaxClock
    /\ Advance([by |-> "create", timer |-> t, ticks |-> DelayTicks(ms)])

NoPoke == driver
Poke == IF driver = "parked" THEN "poked" ELSE driver

CreateDone ==
    LET t == call.timer
        deadline == current + call.ticks
    IN  /\ Returns("create")
        /\ timer' = [timer EXCEPT ![t] =
               [Unmade EXCEPT !.generation = 1, !.active = TRUE, !.deadline = deadline]]
        /\ entries' = [entries EXCEPT ![t] = Place(deadline, 1, current)]
        /\ driver' = Poke
        /\ call' = NoCall
        /\ UNCHANGED <<clock, current, target, closed>>

ResetBegins(t, ms) ==
    /\ closed = "open"
    /\ timer[t].active
    /\ DelayTicks(ms) <= MaxDelayTicks
    /\ clock + DelayTicks(ms) <= MaxClock
    /\ timer[t].generation <= MaxResets
    /\ Advance([by |-> "reset", timer |-> t, ticks |-> DelayTicks(ms)])

(* Where the reset leaves the timer on the wheel: taken out of its bucket   *)
(* and put into the one of the new deadline                                 *)
NotMoved(t, o) == entries[t]
Moved(t, o) == Place(o.deadline, o.generation, current)

(* The advance of the reset itself may have made the timer expire: refused *)
ResetDone ==
    LET t == call.timer
        o == [timer[t] EXCEPT !.generation = @ + 1, !.deadline = current + call.ticks,
                              !.expired = 0, !.consumed = FALSE]
    IN  /\ Returns("reset")
        /\ IF timer[t].active
           THEN /\ timer' = [timer EXCEPT ![t] = o]
                /\ entries' = [entries EXCEPT ![t] = Moved(t, o)]
           ELSE UNCHANGED <<timer, entries>>
        /\ call' = NoCall
        /\ UNCHANGED <<clock, current, driver, target, closed>>

-----------------------------------------------------------------------------
(* Timer.cancel, and the coroutine inside Timer.wait *)

Removed(T) == [t \in Timers |-> IF t \in T THEN NoEntry ELSE entries[t]]

Cancel(t) ==
    /\ Idle
    /\ timer[t].generation > 0
    /\ ~ timer[t].cancelled /\ ~ timer[t].closed
    /\ timer' = [timer EXCEPT ![t] = Cancelled(@)]
    /\ entries' = IF timer[t].active THEN Removed({t}) ELSE entries
    /\ UNCHANGED <<clock, current, driver, call, target, closed>>

(* A wait on a timer that has expired returns at once, one on a timer that  *)
(* was cancelled, closed or consumed is refused, any other one waits.       *)
Wait(t) ==
    /\ Idle
    /\ timer[t].generation > 0
    /\ timer[t].waiter = "none"
    /\ ~ timer[t].cancelled /\ ~ timer[t].closed /\ ~ timer[t].consumed
    /\ timer' = IF timer[t].expired # 0 THEN [timer EXCEPT ![t].consumed = TRUE]
                                        ELSE [timer EXCEPT ![t].waiter = "pending"]
    /\ UNCHANGED <<clock, current, entries, driver, call, target, closed>>

(* The task that waits is cancelled; it finds out when it is resumed *)
DropWait(t) ==
    /\ Idle
    /\ timer[t].waiter \notin {"none", "dropped"}
    /\ timer' = [timer EXCEPT ![t].waiter = "dropped"]
    /\ UNCHANGED <<clock, current, entries, driver, call, target, closed>>

(* The coroutine is resumed: with the expiry, or with an error that also    *)
(* cancels a timer still active                                             *)
WaitReturns(t) ==
    /\ Idle
    /\ timer[t].waiter \notin {"none", "pending"}
    /\ timer' = [timer EXCEPT ![t] =
           IF @.waiter = "expired" THEN [@ EXCEPT !.consumed = TRUE, !.waiter = "none"]
           ELSE IF @.active THEN [Cancelled(@) EXCEPT !.waiter = "none"]
           ELSE [@ EXCEPT !.waiter = "none"]]
    /\ entries' = IF timer[t].waiter # "expired" /\ timer[t].active THEN Removed({t}) ELSE entries
    /\ UNCHANGED <<clock, current, driver, call, target, closed>>

-----------------------------------------------------------------------------
(* TimerWheel.close: the driver is cancelled and waited for, then every    *)
(* timer on the wheel is closed                                             *)
CloseBegins ==
    /\ Idle
    /\ closed = "open"
    /\ closed' = "closing"
    /\ driver' = "off"
    /\ UNCHANGED <<clock, current, entries, timer, call, target>>

Closed(o) == [o EXCEPT !.active = FALSE, !.closed = TRUE,
                       !.waiter = IF @ = "pending" THEN "closed" ELSE @]

CloseEnds ==
    /\ closed = "closing"
    /\ closed' = "closed"
    /\ timer' = [t \in Timers |-> IF t \in OnWheel THEN Closed(timer[t]) ELSE timer[t]]
    /\ entries' = Removed(OnWheel)
    /\ UNCHANGED <<clock, current, driver, call, target>>

-----------------------------------------------------------------------------
Driver == DriverWakes \/ DriverDone \/ DriverPoked
Callers == CreateDone \/ ResetDone

Next ==
    \/ Elapse
    \/ Tick
    \/ Driver
    \/ Callers
    \/ \E t \in Timers :
          \/ \E ms \in Delays : CreateBegins(t, ms) \/ ResetBegins(t, ms)
          \/ Cancel(t) \/ Wait(t) \/ DropWait(t) \/ WaitReturns(t)
    \/ CloseBegins
    \/ CloseEnds

Spec == Init /\ [][Next]_vars

(* Time passes, the event loop runs the driver and what is ready, and code  *)
(* without an await comes to its end.                                       *)
FairSpec ==
    /\ Spec
    /\ WF_vars(Elapse)
    /\ WF_vars(Tick)
    /\ WF_vars(Driver)
    /\ WF_vars(Callers)
    /\ WF_vars(CloseEnds)
    /\ \A t \in Timers : WF_vars(WaitReturns(t))

-----------------------------------------------------------------------------
(* Properties *)

TypeOK ==
    /\ clock \in Nat
    /\ current \in Nat
    /\ entries \in [Timers -> Entry \cup {NoEntry}]
    /\ timer \in [Timers -> Timer]
    /\ driver \in {"parked", "poked", "sleeping", "off"}
    /\ call \in Calls
    /\ target \in Nat
    /\ closed \in {"open", "closing", "closed"}

(* The active timers are those on the wheel, and each is there as what it   *)
(* is now: a reset or a cancel leaves nothing of it behind in a bucket      *)
(* (_remove, _insert; the generation check of _expire).                     *)
WheelHoldsActive ==
    \A t \in Timers :
        /\ timer[t].active <=> entries[t] # NoEntry
        /\ timer[t].active => /\ entries[t].deadline = timer[t].deadline
                              /\ entries[t].generation = timer[t].generation
                              /\ timer[t].expired = 0

(* Every entry is where the driver will still come by: its bucket is        *)
(* emptied at the latest at its deadline (_insert, _cascade, _expire_near). *)
Reachable(e, tick) ==
    /\ e.deadline > tick
    /\ e.level = Near => e.slot = NearSlot(e.deadline)
    /\ e.level \in Levels => /\ e.slot = Slot(e.level, e.deadline)
                             /\ e.deadline \div Width[e.level] > tick \div Width[e.level]

WheelInv == \A t \in OnWheel : Reachable(entries[t], current)

(* No timer is late: at whatever tick the wheel stands, through stalls,     *)
(* cascades and rebuilds, an active timer's deadline is still ahead.        *)
NeverLate == \A t \in Timers : timer[t].active => timer[t].deadline > current

(* No timer is early, and an expiry is that of the last reset.              *)
NeverEarly ==
    \A t \in Timers : timer[t].expired # 0 =>
        timer[t].deadline <= current /\ timer[t].expired = timer[t].generation

(* The wheel is a set of deadlines to its users. *)
DueOf(t) == IF timer[t].active THEN timer[t].deadline ELSE -1
PlainDeadlines == INSTANCE Deadlines WITH
    now <- current,
    due <- [t \in Timers |-> DueOf(t)],
    rung <- {t \in Timers : timer[t].expired # 0}
KeepsDeadlines == PlainDeadlines!Spec

(* Whoever waits on a timer is answered, since the driver wakes whenever    *)
(* there is a timer on the wheel (create's poke, the loop of _run).         *)
WaitersHear == \A t \in Timers : timer[t].waiter = "pending" ~> timer[t].waiter # "pending"
=============================================================================

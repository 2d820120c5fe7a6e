----------------------------- MODULE Reminders -----------------------------
(***************************************************************************)
(* The reminders of a node: the ReminderScheduler of core/orchestration/    *)
(* reminder.py with its one frontier timer and its poke, the commands of    *)
(* commands/reminders.py that change a reminder under the lock the          *)
(* scheduler fires it under, the transitions of core/models/reminder.py and *)
(* what contrib/sqlite/repository/reminders.py refuses to write.  A node    *)
(* may crash between any two steps and starts again from what is stored.    *)
(*                                                                         *)
(* One step is what a task runs between two awaits that reach the database, *)
(* a lock, a timer or an agent.                                             *)
(***************************************************************************)
EXTENDS Integers, Sequences, FiniteSets

CONSTANTS
    Owner,     \* the conversation each reminder belongs to, a function
    Cmds,      \* the commands under way at once
    Period,    \* from one occurrence of a recurring reminder to the next
    Recheck,   \* the longest the frontier timer sleeps
    BatchSize, \* reminders fired between two looks at what is due
    Delays,    \* the delays agents ask for
    MaxTime,   \* bound: the clock
    MaxCmds,   \* bound: commands, in all
    MaxUpsets  \* bound: what may go wrong, in all

ASSUME NumbersAssumption ==
    /\ IsFiniteSet(DOMAIN Owner) /\ DOMAIN Owner \subseteq Nat \ {0}
    /\ {"nobody", "scheduler"} \cap Cmds = {}
    /\ {Period, Recheck, BatchSize} \subseteq Nat \ {0}
    /\ Delays \subseteq Nat \ {0}
    /\ {MaxTime, MaxCmds, MaxUpsets} \subseteq Nat

Rems == DOMAIN Owner
Owners == {Owner[r] : r \in Rems}
Never == -1
Nobody == "nobody"
Scheduler == "scheduler"

VARIABLES
    now,      \* the wall clock
    rem,      \* the reminders, as stored
    unread,   \* stored: the owners of a fired message nobody has read
    node,     \* "down", "starting", "up" or "stopping"
    agentUp,  \* whether the agent of these conversations is started
    hint,     \* the owners whose agent has a wake queued
    sch,      \* the scheduler's task, see Asleep
    poke,     \* the poke event
    lock,     \* who holds an owner's lock
    cmd,      \* the commands under way
    count,    \* commands and upsets so far
    slot,     \* history: the moment each reminder last fired for
    missed,   \* history: owners whose wake found no agent, went with it, or
              \* was lost to a failed read of its publishing
    deaf      \* history: a change was stored and its command cut off before
              \* it poked; the scheduler has not looked since

volatile == <<hint, sch, poke, lock, cmd>>
vars == <<now, rem, unread, slot, node, agentUp, volatile, count, missed, deaf>>

NoRem == [state |-> "none", next |-> Never, repeat |-> FALSE, rev |-> 0, updated |-> 0]
Idle == [pc |-> "idle"]

(* due: what _materialize_due_batches has still to fire; told: the owners   *)
(* of `materialized`; cur: the reminder read under the lock, at what time;  *)
(* seen: the frontier; left: of the timer; after: what follows the wakes.   *)
Asleep == [pc |-> "off", due |-> <<>>, told |-> {}, cur |-> NoRem, at |-> 0,
           seen |-> Never, left |-> 0, after |-> "list"]

Init ==
    /\ now = 0
    /\ rem = [r \in Rems |-> NoRem]
    /\ unread = {}
    /\ slot = [r \in Rems |-> Never]
    /\ node = "down"
    /\ agentUp = FALSE
    /\ hint = {}
    /\ sch = Asleep
    /\ poke = FALSE
    /\ lock = [o \in Owners |-> Nobody]
    /\ cmd = [c \in Cmds |-> Idle]
    /\ count = [cmds |-> 0, upsets |-> 0]
    /\ missed = {}
    /\ deaf = FALSE

Upset == count.upsets < MaxUpsets /\ count' = [count EXCEPT !.upsets = @ + 1]
Scheduled == {r \in Rems : rem[r].state = "scheduled"}
Stored == <<rem, unread, slot>>
Unlock(o) == lock' = [lock EXCEPT ![o] = Nobody]

-----------------------------------------------------------------------------
(* Transitions of a reminder *)

Changed(m, at) == [m EXCEPT !.rev = @ + 1, !.updated = at]

Snoozed(m, at, delay) ==
    [Changed(m, at) EXCEPT !.state = "scheduled",
                           !.next = (IF m.state = "scheduled" THEN m.next ELSE at) + delay]
Retimed(m, at, next) == [Changed(m, at) EXCEPT !.next = next]
Repeated(m, at) == [Changed(m, at) EXCEPT !.repeat = TRUE]
Canceled(m, at) == [Changed(m, at) EXCEPT !.state = "canceled", !.next = Never]
New(at, next, repeat) ==
    [NoRem EXCEPT !.state = "scheduled", !.next = next, !.repeat = repeat,
                  !.rev = 1, !.updated = at]

(* record_fire *)
Fired(m, at) ==
    [Changed(m, at) EXCEPT !.state = IF m.repeat THEN "scheduled" ELSE "fired",
                           !.next = IF m.repeat THEN m.next + Period ELSE Never]

(* _validate_transition_time: raises otherwise *)
AnyTime(m, at) == TRUE
NotBackwards(m, at) == at >= m.updated

-----------------------------------------------------------------------------
(* The scheduler *)

Sch(f) == sch' = f
At(pc) == sch.pc = pc /\ node # "down"

(* A step of the cycle raises: `finally` publishes what was committed, and  *)
(* the cycle is tried again; a start fails                                  *)
AfterError == IF node = "starting" THEN "off" ELSE "retry"
RaisedUntold == [Asleep EXCEPT !.pc = AfterError]
Raised == [sch EXCEPT !.pc = "tell", !.after = AfterError, !.due = <<>>,
                      !.cur = NoRem, !.at = 0]

(* start: _publish_pending_recovery reads who has something unread *)
Recover ==
    /\ At("recover")
    /\ Sch([sch EXCEPT !.pc = "tell", !.told = unread, !.after = "list"])
    /\ UNCHANGED <<now, Stored, node, agentUp, hint, poke, lock, cmd, count, missed, deaf>>

(* _publish_message, to one owner after the other *)
Tell(o) ==
    /\ At("tell") /\ o \in sch.told
    /\ hint' = IF agentUp THEN hint \cup {o} ELSE hint
    /\ missed' = IF agentUp THEN missed \ {o} ELSE missed \cup {o}
    /\ Sch([sch EXCEPT !.told = @ \ {o}])
    /\ UNCHANGED <<now, Stored, node, agentUp, poke, lock, cmd, count, deaf>>

(* publish_inbox_wake reads the conversation twice before the wake is       *)
(* queued: where a read fails the application logs it and answers False,    *)
(* which nobody looks at, and the wake is lost though the agent is up       *)
TellFails(o) ==
    /\ At("tell") /\ o \in sch.told
    /\ agentUp
    /\ Upset
    /\ missed' = missed \cup {o}
    /\ Sch([sch EXCEPT !.told = @ \ {o}])
    /\ UNCHANGED <<now, Stored, node, agentUp, hint, poke, lock, cmd, deaf>>

AllTold ==
    /\ At("tell") /\ sch.told = {}
    /\ Sch([sch EXCEPT !.pc = sch.after])
    /\ UNCHANGED <<now, Stored, node, agentUp, hint, poke, lock, cmd, count, missed, deaf>>

(* _materialize_due_batches: what is due by now, the earliest first *)
DueNow == {r \in Scheduled : rem[r].next <= now}
Before(r, q) == rem[r].next < rem[q].next \/ (rem[r].next = rem[q].next /\ r < q)
Batches ==
    LET due == Cardinality(DueNow)
        size == IF due < BatchSize THEN due ELSE BatchSize
    IN  {s \in [1 .. size -> DueNow] :
            \A i \in 1 .. size : \A r \in DueNow :
                Before(r, s[i]) <=> \E j \in 1 .. i - 1 : s[j] = r}
Snapshots(batch) == [i \in DOMAIN batch |-> [r |-> batch[i], m |-> rem[batch[i]]]]

List ==
    /\ At("list")
    /\ node # "stopping" /\ DueNow # {}
    /\ \E batch \in Batches : Sch([sch EXCEPT !.pc = "fire", !.due = Snapshots(batch)])
    /\ UNCHANGED <<now, Stored, node, agentUp, hint, poke, lock, cmd, count, missed, deaf>>

(* Nothing is due: start has done its part, or the cycle goes on; or the    *)
(* scheduler is to stop                                                     *)
NothingDue ==
    /\ At("list")
    /\ node = "stopping" \/ DueNow = {}
    /\ CASE node = "starting" -> node' = "up" /\ Sch([sch EXCEPT !.pc = "list"])
         [] node = "up" -> Sch([sch EXCEPT !.pc = "frontier"]) /\ UNCHANGED node
         [] node = "stopping" -> Sch(Asleep) /\ UNCHANGED node
    /\ UNCHANGED <<now, Stored, agentUp, hint, poke, lock, cmd, count, missed, deaf>>

(* _materialize_due_reminder, with the lock: the reminder is as it was      *)
(* listed, and the clock has not gone back behind it                        *)
Fires(snapshot, m) ==
    /\ m.state = "scheduled" /\ m.rev = snapshot.rev
    /\ m.next <= now

Further ==
    [sch EXCEPT !.due = Tail(@), !.pc = IF Len(sch.due) = 1 THEN "tell" ELSE "fire",
                !.after = "list", !.cur = NoRem, !.at = 0]

NextOfBatch(o) == Sch(Further) /\ Unlock(o)

Reread ==
    /\ At("fire")
    /\ LET s == Head(sch.due)
           o == Owner[s.r]
           m == rem[s.r]
       IN  /\ lock[o] = Nobody
           /\ IF ~ Fires(s.m, m) THEN NextOfBatch(o)
              ELSE IF ~ NotBackwards(m, now) THEN Sch(Raised) /\ UNCHANGED lock
              ELSE /\ lock' = [lock EXCEPT ![o] = Scheduler]
                   /\ Sch([sch EXCEPT !.pc = "commit", !.cur = m, !.at = now])
    /\ UNCHANGED <<now, Stored, node, agentUp, hint, poke, cmd, count, missed, deaf>>

(* materialize_owned_reminder_message: the reminder advances and its        *)
(* message is stored in one transaction                                     *)
Materialize ==
    /\ At("commit")
    /\ LET r == Head(sch.due).r
       IN  IF rem[r].rev = sch.cur.rev /\ rem[r].state = "scheduled"
           THEN /\ rem' = [rem EXCEPT ![r] = Fired(sch.cur, sch.at)]
                /\ unread' = unread \cup {Owner[r]}
                /\ slot' = [slot EXCEPT ![r] = sch.cur.next]
                /\ Unlock(Owner[r])
                /\ Sch([Further EXCEPT !.told = @ \cup {Owner[r]}])
           ELSE NextOfBatch(Owner[r]) /\ UNCHANGED Stored
    /\ UNCHANGED <<now, node, agentUp, hint, poke, cmd, count, missed, deaf>>

(* _cancel_unusable_reminder: its anchor is gone, or its rule has no next   *)
CancelUnusable ==
    /\ At("commit")
    /\ Upset
    /\ LET r == Head(sch.due).r
       IN  /\ rem' = [rem EXCEPT ![r] = Canceled(sch.cur, sch.at)]
           /\ NextOfBatch(Owner[r])
    /\ UNCHANGED <<now, unread, slot, node, agentUp, hint, poke, cmd, missed, deaf>>

(* The database fails a read, or a transaction and rolls it back *)
CycleFails ==
    /\ \/ At("list") /\ node # "stopping"
       \/ At("fire") \/ At("commit") \/ At("frontier") \/ At("recover")
    /\ Upset
    /\ Sch(Raised)
    /\ lock' = [o \in Owners |-> IF lock[o] = Scheduler THEN Nobody ELSE lock[o]]
    /\ UNCHANGED <<now, Stored, node, agentUp, hint, poke, cmd, missed, deaf>>

(* get_next_scheduled_owned_reminder *)
Frontier ==
    LET times == {rem[r].next : r \in Scheduled}
    IN  IF times = {} THEN Never ELSE CHOOSE t \in times : \A u \in times : t <= u

ReadFrontier ==
    /\ At("frontier")
    /\ Sch([sch EXCEPT !.pc = "arm", !.seen = Frontier])
    /\ deaf' = FALSE
    /\ UNCHANGED <<now, Stored, node, agentUp, hint, poke, lock, cmd, count, missed>>

(* the answer arrives: wait to be poked, go on at once, or arm the timer *)
Arm ==
    /\ At("arm")
    /\ LET remaining == sch.seen - now
       IN  Sch([sch EXCEPT
                  !.pc = CASE sch.seen = Never -> "wait"
                           [] sch.seen # Never /\ remaining <= 0 -> "list"
                           [] OTHER -> "sleep",
                  !.left = IF sch.seen # Never /\ remaining > 0
                           THEN IF remaining < Recheck THEN remaining ELSE Recheck
                           ELSE 0])
    /\ UNCHANGED <<now, Stored, node, agentUp, hint, poke, lock, cmd, count, missed, deaf>>

Poked ==
    /\ At("wait") \/ At("sleep") \/ At("retry")
    /\ poke
    /\ poke' = FALSE
    /\ Sch([sch EXCEPT !.pc = "list", !.left = 0, !.seen = Never])
    /\ UNCHANGED <<now, Stored, node, agentUp, hint, lock, cmd, count, missed, deaf>>

TimerFires ==
    /\ At("sleep")
    /\ sch.left = 0 \/ node = "stopping"
    /\ Sch([sch EXCEPT !.pc = "list", !.left = 0, !.seen = Never])
    /\ UNCHANGED <<now, Stored, node, agentUp, hint, poke, lock, cmd, count, missed, deaf>>

(* five seconds after a failed cycle *)
RetryAfter ==
    /\ At("retry")
    /\ poke' = FALSE
    /\ Sch([sch EXCEPT !.pc = "list"])
    /\ UNCHANGED <<now, Stored, node, agentUp, hint, lock, cmd, count, missed, deaf>>

Cycle ==
    \/ Recover \/ (\E o \in Owners : Tell(o)) \/ AllTold \/ List \/ NothingDue
    \/ Reread \/ Materialize \/ ReadFrontier \/ Arm \/ Poked \/ TimerFires \/ RetryAfter

-----------------------------------------------------------------------------
(* The commands *)

Run(c, f) == cmd' = [cmd EXCEPT ![c] = f]

(* The dispatcher takes the time of a command before the command has the    *)
(* lock; x is a delay, or a moment for "retime"                             *)
NewRem ==
    LET free == {r \in Rems : /\ rem[r].state = "none"
                              /\ \A c \in Cmds : cmd[c] # Idle => cmd[c].r # r}
    IN  IF free = {} THEN 0 ELSE CHOOSE r \in free : \A q \in free : r <= q

Ask(c, kind, r, x) ==
    /\ node = "up" /\ agentUp
    /\ cmd[c] = Idle
    /\ count.cmds < MaxCmds
    /\ (rem[r].state = "none") = (kind \in {"schedule", "schedule_repeat"})
    /\ kind \in {"schedule", "schedule_repeat"} => r = NewRem
    /\ count' = [count EXCEPT !.cmds = @ + 1]
    /\ Run(c, [pc |-> "asked", kind |-> kind, r |-> r, x |-> x, at |-> now])
    /\ UNCHANGED <<now, Stored, node, agentUp, hint, sch, poke, lock, missed, deaf>>

(* What the command makes of the reminder m; it is refused where it may not *)
Makes(k, m) ==
    CASE k.kind = "schedule" -> New(now, k.at + k.x, FALSE)
      [] k.kind = "schedule_repeat" -> New(now, k.at + k.x, TRUE)
      [] k.kind = "snooze" -> Snoozed(m, k.at, k.x)
      [] k.kind = "retime" -> Retimed(m, k.at, k.at + k.x)
      [] k.kind = "repeat" -> Repeated(m, k.at)
      [] k.kind = "cancel" -> Canceled(m, k.at)

Allowed(k, m) ==
    \/ m.state = "none"
    \/ /\ NotBackwards(m, k.at)
       /\ m.state = "scheduled" \/ (m.state = "fired" /\ k.kind = "snooze")

(* With the lock, the reminder is read again and its change is worked out *)
Hold(c) ==
    /\ cmd[c].pc = "asked"
    /\ LET k == cmd[c]
           m == rem[k.r]
       IN  /\ lock[Owner[k.r]] = Nobody
           /\ IF Allowed(k, m)
              THEN /\ lock' = [lock EXCEPT ![Owner[k.r]] = c]
                   /\ Run(c, [pc |-> "held", r |-> k.r, was |-> m.rev, to |-> Makes(k, m)])
              ELSE Run(c, Idle) /\ UNCHANGED lock
    /\ UNCHANGED <<now, Stored, node, agentUp, hint, sch, poke, count, missed, deaf>>

(* save_reminder_transition, save_new_reminder *)
SaveUnpoked(c) ==
    /\ cmd[c].pc = "held"
    /\ rem[cmd[c].r].rev = cmd[c].was
    /\ rem' = [rem EXCEPT ![cmd[c].r] = cmd[c].to]
    /\ Unlock(Owner[cmd[c].r])
    /\ Run(c, Idle)
    /\ UNCHANGED <<now, unread, slot, node, agentUp, hint, sch, poke, count, missed, deaf>>
Save(c) ==
    /\ cmd[c].pc = "held"
    /\ rem[cmd[c].r].rev = cmd[c].was
    /\ rem' = [rem EXCEPT ![cmd[c].r] = cmd[c].to]
    /\ Unlock(Owner[cmd[c].r])
    /\ Run(c, [pc |-> "saved", r |-> cmd[c].r])
    /\ UNCHANGED <<now, unread, slot, node, agentUp, hint, sch, poke, count, missed, deaf>>

(* the database fails it *)
SaveFails(c) ==
    /\ cmd[c].pc = "held"
    /\ Upset
    /\ Unlock(Owner[cmd[c].r])
    /\ Run(c, Idle)
    /\ UNCHANGED <<now, Stored, node, agentUp, hint, sch, poke, missed, deaf>>

(* poke, ignored by a scheduler that is stopping *)
Poke(c) ==
    /\ cmd[c].pc = "saved"
    /\ poke' = (poke \/ node # "stopping")
    /\ Run(c, Idle)
    /\ UNCHANGED <<now, Stored, node, agentUp, hint, sch, lock, count, missed, deaf>>

-----------------------------------------------------------------------------
(* Around them *)

(* The commands that are being saved come through or do not; the others and *)
(* the poke of all of them are lost                                         *)
CommandsCutOff ==
    \E through \in SUBSET {c \in Cmds : cmd[c].pc = "held"} :
        /\ rem' = [r \in Rems |->
                     IF \E c \in through : cmd[c].r = r
                     THEN cmd[CHOOSE c \in through : cmd[c].r = r].to ELSE rem[r]]
        /\ deaf' = (deaf \/ through # {} \/ \E c \in Cmds : cmd[c].pc = "saved")
        /\ cmd' = [c \in Cmds |-> Idle]

(* The agent is changed or removed while the node runs: its commands are    *)
(* drained, and its queues go                                               *)
AgentStops ==
    /\ node = "up" /\ agentUp
    /\ Upset
    /\ CommandsCutOff
    /\ lock' = [o \in Owners |-> IF lock[o] \in Cmds THEN Nobody ELSE lock[o]]
    /\ agentUp' = FALSE
    /\ missed' = missed \cup hint
    /\ hint' = {}
    /\ UNCHANGED <<now, unread, slot, node, sch, poke>>

AgentStarts ==
    /\ node = "up" /\ ~ agentUp
    /\ agentUp' = TRUE
    /\ UNCHANGED <<now, Stored, node, volatile, count, missed, deaf>>

(* The agent checks its messages *)
AgentReads(o) ==
    /\ agentUp /\ o \in hint
    /\ hint' = hint \ {o}
    /\ unread' = unread \ {o}
    /\ missed' = missed \ {o}
    /\ UNCHANGED <<now, rem, slot, node, agentUp, sch, poke, lock, cmd, count, deaf>>

(* The node starts; its agent does, or fails to *)
NodeStarts ==
    /\ node = "down"
    /\ node' = "starting"
    /\ agentUp' \in BOOLEAN
    /\ Sch([Asleep EXCEPT !.pc = "recover"])
    /\ UNCHANGED <<now, Stored, hint, poke, lock, cmd, count, missed, deaf>>

GoesDown ==
    /\ node' = "down"
    /\ agentUp' = FALSE
    /\ hint' = {} /\ sch' = Asleep /\ poke' = FALSE
    /\ lock' = [o \in Owners |-> Nobody]
    /\ cmd' = [c \in Cmds |-> Idle]
    /\ missed' = {} /\ deaf' = FALSE
    /\ UNCHANGED <<now, unread, slot>>

(* A start that failed, or a scheduler that has stopped; the agents follow *)
NodeDown ==
    /\ node \in {"starting", "stopping"} /\ sch.pc = "off"
    /\ GoesDown
    /\ UNCHANGED <<rem, count>>

NodeCrashes ==
    /\ node # "down"
    /\ Upset
    /\ GoesDown
    /\ UNCHANGED rem

NodeStops ==
    /\ node = "up"
    /\ Upset
    /\ node' = "stopping"
    /\ poke' = TRUE
    /\ UNCHANGED <<now, Stored, agentUp, hint, sch, lock, cmd, missed, deaf>>

(* The scheduler is cancelled: `finally` publishes once more *)
StopTimesOut ==
    /\ node = "stopping" /\ sch.pc \notin {"off", "tell"}
    /\ Sch([sch EXCEPT !.pc = "tell", !.due = <<>>, !.after = "off",
                     !.cur = NoRem, !.at = 0, !.seen = Never])
    /\ lock' = [o \in Owners |-> IF lock[o] = Scheduler THEN Nobody ELSE lock[o]]
    /\ UNCHANGED <<now, Stored, node, agentUp, hint, poke, cmd, count, missed, deaf>>

(* The timer runs down beside the wall clock, which is also set, by hand or *)
(* by the network                                                           *)
Tick ==
    /\ now < MaxTime \/ sch.left > 0
    /\ now' = IF now < MaxTime THEN now + 1 ELSE now
    /\ Sch([sch EXCEPT !.left = IF @ > 0 THEN @ - 1 ELSE 0])
    /\ UNCHANGED <<Stored, node, agentUp, hint, poke, lock, cmd, count, missed, deaf>>

ClockIsSet ==
    /\ Upset
    /\ now' \in {now - 1, now + 1} \cap 0 .. MaxTime
    /\ UNCHANGED <<Stored, node, agentUp, volatile, missed, deaf>>

-----------------------------------------------------------------------------
Kinds == {"schedule", "schedule_repeat", "snooze", "retime", "repeat", "cancel"}

Command(c) == Hold(c) \/ Save(c) \/ Poke(c)

Next ==
    \/ Cycle \/ CancelUnusable \/ CycleFails \/ \E o \in Owners : TellFails(o)
    \/ \E c \in Cmds :
        \/ \E kind \in Kinds, r \in Rems, x \in Delays : Ask(c, kind, r, x)
        \/ Command(c) \/ SaveFails(c)
    \/ AgentStops \/ AgentStarts \/ \E o \in Owners : AgentReads(o)
    \/ NodeStarts \/ NodeDown \/ NodeCrashes \/ NodeStops \/ StopTimesOut
    \/ Tick \/ ClockIsSet

Spec == Init /\ [][Next]_vars

(* The scheduler's task and the commands go on, and so does time *)
FairSpec ==
    /\ Spec
    /\ WF_vars(Cycle) /\ WF_vars(Tick) /\ WF_vars(NodeDown)
    /\ \A c \in Cmds : WF_vars(Command(c))

-----------------------------------------------------------------------------
(* Properties *)

(* Every variable has its type, a reminder is to fire next as long as it is *)
(* scheduled, and a lock is held by whoever is about to commit under it.    *)
TypeOK ==
    /\ now \in 0 .. MaxTime
    /\ \A r \in Rems :
        /\ rem[r].state \in {"none", "scheduled", "fired", "canceled"}
        /\ rem[r].state = "scheduled" <=> rem[r].next # Never
        /\ rem[r].state = "fired" => ~ rem[r].repeat
    /\ unread \subseteq Owners /\ hint \subseteq Owners /\ missed \subseteq Owners
    /\ node \in {"down", "starting", "up", "stopping"}
    /\ {agentUp, poke, deaf} \subseteq BOOLEAN
    /\ sch.pc \in {"off", "recover", "tell", "list", "fire", "commit", "frontier", "arm",
                   "wait", "sleep", "retry"}
    /\ sch.left \in 0 .. Recheck
    /\ \A o \in Owners :
        /\ lock[o] = Scheduler => sch.pc = "commit" /\ Owner[Head(sch.due).r] = o
        /\ lock[o] \in Cmds => cmd[lock[o]].pc = "held" /\ Owner[cmd[lock[o]].r] = o

(* No reminder fires twice for one moment, nor for one before a moment it   *)
(* has fired for, whatever the clock does, however many occurrences were    *)
(* missed and however long a snooze or an edit waited for the lock: what it *)
(* is to fire for next comes after everything it fired for.                 *)
SlotsGoForward == TypeOK /\ \A r \in Scheduled : rem[r].next > slot[r]

(* The message of a fired reminder is never left for its agent to find by   *)
(* chance: until it is read, a wake is queued for it or the scheduler is to *)
(* publish one, through errors of the cycle, crashes and restarts.  It is   *)
(* missed by an agent that was down, or went down with the wake in its      *)
(* queue, and it is lost, the agent being up, where a read of its           *)
(* publishing fails: the scheduler does not look at the answer, and what is *)
(* pending is recovered only when the node starts.                          *)
WokenOrOwed ==
    node \in {"starting", "up"} =>
        \A o \in unread :
            o \in hint \cup sch.told \cup missed \/ sch.pc \in {"recover", "off"} \/ sch.after = "off"

(* A reminder whose time has come fires, or is changed, as long as the node *)
(* runs and every change reached the scheduler's ears.                      *)
Due(r) == r \in DueNow
DueFires ==
    \A r \in Rems : Due(r) ~> (~ Due(r) \/ node # "up" \/ deaf)
=============================================================================

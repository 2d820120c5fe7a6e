------------------------------- MODULE Deadlines -------------------------------
(***************************************************************************)
(* What a timer wheel promises, with no wheel in it: timers have deadlines *)
(* on a clock that moves forward in jumps, and whenever it moves, exactly   *)
(* the timers whose deadlines it reached go off.                            *)
(***************************************************************************)
EXTENDS Integers

CONSTANTS Timers
VARIABLES
    now,       \* the tick the timers have been brought up to
    due,       \* the deadline of each timer that is set, Unset otherwise
    rung       \* the timers that went off

Unset == -1

Init ==
    /\ now \in Nat
    /\ due = [t \in Timers |-> Unset]
    /\ rung = {}

(* A timer is set, or its deadline moved, and never to a moment that is past *)
Arm(t) ==
    /\ t \notin rung
    /\ due'[t] > now
    /\ due' = [due EXCEPT ![t] = due'[t]]
    /\ UNCHANGED <<now, rung>>

(* Timers are called off before their time *)
CallOff(T) ==
    /\ due' = [t \in Timers |-> IF t \in T THEN Unset ELSE due[t]]
    /\ UNCHANGED <<now, rung>>

(* The clock moves on, over every deadline up to the new moment *)
Over(tick) == {t \in Timers : due[t] # Unset /\ due[t] <= tick}

Reach ==
    /\ now' > now
    /\ rung' = rung \cup Over(now')
    /\ due' = [t \in Timers |-> IF t \in Over(now') THEN Unset ELSE due[t]]

Next ==
    \/ \E t \in Timers : Arm(t)
    \/ \E T \in SUBSET Timers : CallOff(T)
    \/ Reach

Spec == Init /\ [][Next]_<<now, due, rung>>
=============================================================================

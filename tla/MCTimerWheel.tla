----------------------------- MODULE MCTimerWheel -----------------------------
(* A small wheel: a near ring and two levels of two buckets each *)
EXTENDS TimerWheel

CONSTANTS t1, t2    \* model values for timers

TwoTimers == {t1, t2}

WidthsOfTwoLevels == [l \in 0 .. 2 |-> CASE l = 0 -> 2 [] l = 1 -> 4 [] l = 2 -> 8]
=============================================================================

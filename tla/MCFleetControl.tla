---------------------------- MODULE MCFleetControl ----------------------------
EXTENDS FleetControl, TLC

CONSTANTS a1, a2, r1, r2    \* model values

TwoAskers   == {a1, a2}
TwoRequests == {r1, r2}
=============================================================================

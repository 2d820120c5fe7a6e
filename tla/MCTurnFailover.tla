--------------------------- MODULE MCTurnFailover ---------------------------
EXTENDS TurnFailover

CONSTANTS a1, a2    \* model values for actors

TwoActors == {a1, a2}
=============================================================================

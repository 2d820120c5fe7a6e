-------------------------- MODULE MCSqliteExecutor --------------------------
EXTENDS SqliteExecutor, TLC

CONSTANTS c1, c2, c3    \* model values for callers

TwoCallers   == {c1, c2}
ThreeCallers == {c1, c2, c3}
(* The third only reads, so that one waits while two readers are lent *)
AsksOfThree ==
    [c \in ThreeCallers |-> CASE c = c1 -> Kinds
                              [] c = c2 -> {"transaction", "read"}
                              [] c = c3 -> {"read"}]
=============================================================================

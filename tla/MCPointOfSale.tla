--------------------------- MODULE MCPointOfSale ----------------------------
(* Small instances of PointOfSale for TLC.                                 *)
EXTENDS PointOfSale, TLC

CONSTANTS w1, w2, p1, p2, x, y, t1, t2

(* The faults each run allows.                                             *)
At(kinds, n) == [f \in Faults |-> IF f \in kinds THEN n ELSE 0]
PosFaults    == At({"api", "dup", "crash", "drop", "broker"}, 1)
LiveFaults   == At({"again", "abort", "xmpp"}, 1)

Symmetric == UNION {Permutations(S) : S \in {{w1, w2}, {p1, p2}, {x, y}}}

=============================================================================

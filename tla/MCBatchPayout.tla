--------------------------- MODULE MCBatchPayout ----------------------------
(* Small instances of BatchPayout for TLC.                                 *)
EXTENDS BatchPayout, TLC

CONSTANTS s1, s2, m1, m2, w1, w2

AllOfOne  == [s \in Sales |-> m1]
OneOfEach == [s \in Sales |-> IF s = s1 THEN m1 ELSE m2]

(* The faults each run allows.                                             *)
At(kinds, n)  == [f \in Faults |-> IF f \in kinds THEN n ELSE 0]
PayFaults     == At(Faults \ {"refuse"}, 1)
WebFaults     == At({"abort", "refuse"}, 1)
LiveFaults    == At({"api", "crash", "drop"}, 1)
OneRefusal    == At({"refuse"}, 1)

Symmetric == Permutations({w1, w2})

=============================================================================

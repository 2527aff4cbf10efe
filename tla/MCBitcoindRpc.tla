--------------------------- MODULE MCBitcoindRpc ----------------------------
(* Small instances of BitcoindRpc for TLC.                                 *)
EXTENDS BitcoindRpc

CONSTANTS c1, a1

(* Every fault, once ...                                                   *)
RpcFaults == [f \in Faults |-> 1]

(* ... and two of them in a behaviour, one if the client dies.  Liveness   *)
(* is not disturbed: no fault is fair, and no other step is cut off.       *)
TwoFaults ==
    Cardinality({f \in Faults : Spent(f) > 0}) <= IF Spent("client") > 0 THEN 1 ELSE 2

(* Below zero, and an amount the account can pay once.                     *)
SomeAmounts == {-1, 1}

=============================================================================

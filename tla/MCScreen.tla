----------------------------- MODULE MCScreen ------------------------------
(* A screen with one sale from before and one that is made on it, each     *)
(* confirmed once or twice over two connections.                           *)
EXTENDS Screen

CONSTANTS old, new, c1, c2

MCBudgets ==
    {[clicks |-> 1, repeats |-> 0, retries |-> 0],
     [clicks |-> 0, repeats |-> 1, retries |-> 0],
     [clicks |-> 0, repeats |-> 0, retries |-> 1]}

MCTexts == {{}, {new}}
MCMessages == {<<old, 1>>, <<old, 2>>, <<new, 1>>}
=============================================================================

----------------------------- MODULE MCStrophe -----------------------------
(* Strophe against servers that offer SCRAM, with and without a session    *)
(* request, PLAIN or only the old authentication, at once or one request   *)
(* late.                                                                   *)
EXTENDS Strophe

Server(offers, late, session) ==
    [offers |-> offers, late |-> late, session |-> session]

MCProfiles ==
    {Server({"SCRAM-SHA-1", "PLAIN"}, FALSE, TRUE),
     Server({"PLAIN", "ANONYMOUS"}, TRUE, FALSE),
     Server({"DIGEST-MD5", "PLAIN"}, FALSE, FALSE),
     Server({"ANONYMOUS"}, FALSE, FALSE)}

(* Each fault once, and two losses; or as many losses in a row as the      *)
(* error count and the count of sends tell apart, and nothing else.        *)
MCBudgets ==
    {[lose |-> 2, wait |-> 1, late |-> 1, garble |-> 1, kick |-> 1, refuse |-> 1],
     [lose |-> 6, wait |-> 1, late |-> 0, garble |-> 1, kick |-> 0, refuse |-> 0]}
=============================================================================

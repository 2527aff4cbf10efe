------------------------------- MODULE Stream -------------------------------
(* What a messaging connection of the point of sale screen promises to the *)
(* screen, whatever happens below it: pos.js is told of a connection's     *)
(* phases in this order only, and the confirmations the XMPP server puts   *)
(* on the connection are handed to onConfirm while it is open, each at     *)
(* most once and in any order.  Strophe implements this specification, and *)
(* Screen is written on top of it.                                         *)
EXTENDS Naturals, SequencesExt

CONSTANTS
    Conns,      \* the Strophe.Connection objects pos.js creates
    Messages    \* the confirmations the server may send

VARIABLES
    phase,      \* what pos.js was last told of each connection
    fails,      \* how often it was told CONNFAIL, after which it reconnects
    sent,       \* the confirmations the server has put on the connection
    seen        \* those handed to onConfirm, in order

svars == <<phase, fails, sent, seen>>

Phases == {"new", "connecting", "open", "failed", "closing", "closed"}

(* A connection that failed to authenticate or is closed never opens       *)
(* again; a closed one may be reported closing by an answer that is late.  *)
Follows(p) ==
    CASE p = "new"        -> {"connecting"}
      [] p = "connecting" -> {"open", "failed", "closing", "closed"}
      [] p = "open"       -> {"closing", "closed"}
      [] p = "failed"     -> {"closing", "closed"}
      [] p = "closing"    -> {"closed"}
      [] p = "closed"     -> {"closing"}

(* The orders in which the confirmations of a set may be handed over.      *)
Orders(S) == UNION {SetToSeqs(T) : T \in (SUBSET S) \ {{}}}

Unseen(c) == sent[c] \ ToSet(seen[c])

StreamInit ==
    /\ phase = [c \in Conns |-> "new"]
    /\ fails = [c \in Conns |-> 0]
    /\ sent = [c \in Conns |-> {}]
    /\ seen = [c \in Conns |-> <<>>]

(* pos.js is told of the next phase; n counts a CONNFAIL among the calls.  *)
Change(c, p, n) ==
    /\ p \in Follows(phase[c]) \cup (IF n = 1 THEN {"closing"} ELSE {})
    /\ n = 1 => p \in {"closing", "closed"} /\ fails[c] = 0
    /\ phase' = [phase EXCEPT ![c] = p]
    /\ fails' = [fails EXCEPT ![c] = @ + n]
    /\ UNCHANGED <<sent, seen>>

(* The server puts a confirmation on a connection that has been open.      *)
Put(c, m) ==
    /\ phase[c] \notin {"new", "connecting"}
    /\ m \notin sent[c]
    /\ sent' = [sent EXCEPT ![c] = @ \cup {m}]
    /\ UNCHANGED <<phase, fails, seen>>

(* The confirmations of one answer are handed to onConfirm.                *)
HandOver(c, q) ==
    /\ phase[c] \in {"open", "closing"}
    /\ seen' = [seen EXCEPT ![c] = @ \o q]
    /\ UNCHANGED <<phase, fails, sent>>

StreamNext ==
    \E c \in Conns :
        \/ \E p \in Phases, n \in 0 .. 1 : Change(c, p, n)
        \/ \E m \in Messages : Put(c, m)
        \/ \E q \in Orders(Unseen(c)) : HandOver(c, q)

StreamSpec == StreamInit /\ [][StreamNext]_svars

------------------------------------------------------------------------------
(* Every confirmation is handed over once at most, after it was sent, and  *)
(* on the connection it was sent on.                                       *)
HandedOverOnce ==
    \A c \in Conns : ToSet(seen[c]) \subseteq sent[c] /\ IsInjective(seen[c])

(* The inductive invariant.                                                *)
StreamInv ==
    /\ phase \in [Conns -> Phases] /\ fails \in [Conns -> 0 .. 1]
    /\ sent \in [Conns -> SUBSET Messages] /\ seen \in [Conns -> Seq(Messages)]
    /\ \A c \in Conns : IsFiniteSet(sent[c])
    /\ HandedOverOnce

=============================================================================

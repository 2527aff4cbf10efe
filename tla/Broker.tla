------------------------------- MODULE Broker -------------------------------
(***************************************************************************)
(* The RabbitMQ queue as coinexchange.btc.queue uses it.  A queue is the   *)
(* set of its messages that no consumer has acknowledged yet; a message is *)
(* a record whose field pos is its place in publication order.  Each       *)
(* CoinexchangeWorker consumes with prefetch_count=1, so a consumer holds  *)
(* at most one unacknowledged message; a message held by a consumer whose  *)
(* connection goes away is ready again at its original place.  Messages    *)
(* are published without a delivery mode: they do not survive a restart of *)
(* the broker although the queue, declared durable, does.                  *)
(***************************************************************************)
EXTENDS Integers

(* The messages waiting for a consumer: held[c] is what consumer c holds.  *)
Ready(queue, held) == {m \in queue : \A c \in DOMAIN held : held[c] # m}

(* The message the broker hands out next (none when nothing is ready).     *)
NextUp(queue, held) ==
    {m \in Ready(queue, held) : \A n \in Ready(queue, held) : m.pos <= n.pos}

=============================================================================

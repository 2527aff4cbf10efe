---------------------------- MODULE BatchPayout -----------------------------
(***************************************************************************)
(* From the open batch to money in the bank: the web request that makes a  *)
(* payment batch (views.make_batch, lib.make_merchant_batch), the queue    *)
(* payment_batches, the workers that pay batches out (the command          *)
(* pay_merchant_batches, lib.pay_coinbase_batch), the computation of the   *)
(* aggregates (lib.update_batch_aggregates, run by the workers and by the  *)
(* command process_coinbase_payout) and the merchant's Coinbase account.   *)
(*                                                                         *)
(* An amount of bitcoin is the set of the sales it is the sum of: two sums *)
(* agree when the sets do.  A request runs in one database transaction     *)
(* (commit_on_success): its writes are private until Commit, and its row   *)
(* locks make a second writer of the same sale wait.  Workers run outside  *)
(* a managed transaction: every save commits.                              *)
(*                                                                         *)
(* Sales come here confirmed.  The other writer of SalesTransaction.batch, *)
(* the whole-row s_tx.save() of a payment's notification (lib.py:203), is  *)
(* in PointOfSale: its BatchedStaysBatched says when that save leaves the  *)
(* column as this module does.                                             *)
(***************************************************************************)
EXTENDS Integers, FiniteSets, Broker

CONSTANTS
    Sales,        \* SalesTransaction rows whose btc_txid is set
    Merchants,
    MerchantOf,   \* MerchantOf[s] is the merchant of sale s
    Requests,     \* web threads that serve make_batch
    Workers,      \* pay_merchant_batches processes
    Cron,         \* the process_coinbase_payout command
    NoBatch,      \* NULL in a batch column
    NoMessage,    \* a consumer that holds no message
    MaxBatches,   \* bound on the batch ids the sequence hands out
    Budget        \* bound on the faults of each kind, see Faults

(* abort: a request dies or raises;  refuse: the publisher returns false;  *)
(* api: a Coinbase call of a worker raises;  crash: a worker process dies; *)
(* drop: a worker loses its connection to the broker;  broker: the broker  *)
(* restarts.                                                               *)
Faults == {"abort", "refuse", "api", "crash", "drop", "broker"}

BatchIds == 1..MaxBatches
Aggregators == Workers \cup {Cron}
Messages == [pos : Nat, batch : BatchIds]

ASSUME BatchesAssumption == MaxBatches \in Nat /\ NoBatch \notin BatchIds
ASSUME ProcessesAssumption ==
    Cron \notin Workers /\ IsFiniteSet(Workers) /\ NoMessage \notin Messages
ASSUME BudgetAssumption == Budget \in [Faults -> Nat]
ASSUME MerchantAssumption == MerchantOf \in [Sales -> Merchants]

VARIABLES
    \* the database, as another transaction reads it
    batchOf,      \* SalesTransaction.batch
    committed,    \* ids of the TransactionBatch rows
    summed,       \* the sales in TransactionBatch.btc_amount
    captured,     \* the sales in TransactionBatch.captured_amount
    paid,         \* batches with coinbase_txid and received_amount set
    aggregated,   \* batches with exchange_rate and realized_gain set
    nextBatch,    \* the id sequence of TransactionBatch
    \* the web requests
    rpc,          \* where request r is
    rtodo,        \* open sales whose Coinbase status r has still to read
    rlist,        \* batch_tx_list
    rbatch,       \* the row r inserted
    \* the broker
    queue,        \* unacknowledged messages of payment_batches
    sent,         \* how many messages were ever published
    held,         \* the message delivered to each worker
    \* the workers and the command
    wpc,          \* where worker w is
    wbatch,       \* the batch row worker w loaded
    todo,         \* rows selected by update_batch_aggregates, not yet done
    \* Coinbase
    complete,     \* sales whose Coinbase transaction is "complete"
    fees,         \* service fees sent for a batch
    sold,         \* times the bitcoin of a batch was sold
    \* what the environment did
    refused,      \* batches whose message the publisher refused
    budget        \* faults that may still happen

dbVars      == <<batchOf, committed, summed, captured, paid, aggregated, nextBatch>>
requestVars == <<rpc, rtodo, rlist, rbatch>>
brokerVars  == <<queue, sent, held>>
workerVars  == <<wpc, wbatch, todo>>
apiVars     == <<complete, fees, sold>>
faultVars   == <<refused, budget>>
vars == <<dbVars, requestVars, brokerVars, workerVars, apiVars, faultVars>>

Spend(kind) ==
    /\ budget[kind] > 0
    /\ budget' = [budget EXCEPT ![kind] = @ - 1]

Spent(kind) == Budget[kind] - budget[kind]

(* The sum runs over every batched sale, not over the batch's own.         *)
EveryMember(b) == {s \in Sales : batchOf[s] # NoBatch}

(* The aggregates are computed only where captured_amount is null.         *)
UncapturedOnly == {b \in (committed \cap paid) \ aggregated : captured[b] = {}}

(* The rows transactions.all() returns for batch b.                        *)
Members(b) == {s \in Sales : batchOf[s] = b}

(* The rows batch_query of update_batch_aggregates selects.                *)
Unaggregated == (committed \cap paid) \ aggregated

Init ==
    /\ batchOf = [s \in Sales |-> NoBatch]
    /\ committed = {} /\ paid = {} /\ aggregated = {}
    /\ summed = [b \in BatchIds |-> {}]
    /\ captured = [b \in BatchIds |-> {}]
    /\ nextBatch = 1
    /\ rpc = [r \in Requests |-> "idle"]
    /\ rtodo = [r \in Requests |-> {}]
    /\ rlist = [r \in Requests |-> {}]
    /\ rbatch = [r \in Requests |-> NoBatch]
    /\ queue = {} /\ sent = 0
    /\ held = [w \in Workers |-> NoMessage]
    /\ wpc = [w \in Workers |-> "idle"]
    /\ wbatch = [w \in Workers |-> NoBatch]
    /\ todo = [p \in Aggregators |-> {}]
    /\ complete = {}
    /\ fees = [b \in BatchIds |-> 0]
    /\ sold = [b \in BatchIds |-> 0]
    /\ refused = {}
    /\ budget = Budget

-----------------------------------------------------------------------------
(* Seeded defects: actions as they would be after a plausible mistake.  A  *)
(* property that none of them violates would say nothing of this program.  *)

(* basic_consume with no_ack=True: delivered is acknowledged.              *)
DeliverAcknowledges(w) ==
    /\ wpc[w] = "idle"
    /\ \E m \in NextUp(queue, held) :
         /\ held' = [held EXCEPT ![w] = m]
         /\ wbatch' = [wbatch EXCEPT ![w] = m.batch]
         /\ queue' = queue \ {m}
    /\ wpc' = [wpc EXCEPT ![w] = "lookup"]
    /\ UNCHANGED <<dbVars, requestVars, sent, todo, apiVars, faultVars>>

(* The batch row is inserted twice.                                        *)
CreateBatchTwice(r) ==
    /\ rpc[r] = "checking" /\ rtodo[r] = {} /\ rlist[r] # {}
    /\ nextBatch <= MaxBatches
    /\ rpc' = [rpc EXCEPT ![r] = "publishing"]
    /\ rbatch' = [rbatch EXCEPT ![r] = nextBatch + 1]
    /\ nextBatch' = nextBatch + 2
    /\ UNCHANGED <<batchOf, committed, summed, captured, paid, aggregated, rtodo, rlist,
                   brokerVars, workerVars, apiVars, faultVars>>

(* if status == "complete" is forgotten.                                   *)
CheckNothing(r) ==
    /\ rpc[r] = "checking"
    /\ \E s \in rtodo[r] :
         /\ rtodo' = [rtodo EXCEPT ![r] = @ \ {s}]
         /\ rlist' = [rlist EXCEPT ![r] = @ \cup {s}]
    /\ UNCHANGED <<dbVars, rpc, rbatch, brokerVars, workerVars, apiVars, faultVars>>

(* if not batch.coinbase_txid is forgotten.                                *)
LoadUnconditionally(w) ==
    /\ wpc[w] = "lookup" /\ wbatch[w] \in committed
    /\ wpc' = [wpc EXCEPT ![w] = "fee"]
    /\ UNCHANGED <<dbVars, requestVars, brokerVars, wbatch, todo, apiVars, faultVars>>

(* A batch that is already paid is taken for an error, and raises.         *)
LoadPaidRaises(w) ==
    /\ wpc[w] = "lookup" /\ wbatch[w] \in committed
    /\ IF wbatch[w] \in paid
       THEN /\ wpc' = [wpc EXCEPT ![w] = "down"]
            /\ held' = [held EXCEPT ![w] = NoMessage]
            /\ wbatch' = [wbatch EXCEPT ![w] = NoBatch]
       ELSE wpc' = [wpc EXCEPT ![w] = "fee"] /\ UNCHANGED <<held, wbatch>>
    /\ UNCHANGED <<dbVars, requestVars, queue, sent, todo, apiVars, faultVars>>

(* A payment that fails is put back on the queue and tried again.          *)
FailedPaymentRequeued(w) ==
    /\ Spend("api")
    /\ wpc[w] = "sell"
    /\ held' = [held EXCEPT ![w] = NoMessage]
    /\ wbatch' = [wbatch EXCEPT ![w] = NoBatch]
    /\ wpc' = [wpc EXCEPT ![w] = "idle"]
    /\ UNCHANGED <<dbVars, requestVars, queue, sent, todo, apiVars, refused>>

-----------------------------------------------------------------------------
(* The web request.                                                        *)

(* Coinbase confirms the payment of sale s.                                *)
TransactionCompletes(s) ==
    /\ s \notin complete
    /\ complete' = complete \cup {s}
    /\ UNCHANGED <<dbVars, requestVars, brokerVars, workerVars, fees, sold, faultVars>>

(* make_merchant_batch reads the merchant's open transactions.             *)
BeginBatch(r, merchant) ==
    /\ rpc[r] = "idle"
    /\ rpc' = [rpc EXCEPT ![r] = "checking"]
    /\ rtodo' = [rtodo EXCEPT ![r] =
                   {s \in Sales : MerchantOf[s] = merchant /\ batchOf[s] = NoBatch}]
    /\ UNCHANGED <<dbVars, rlist, rbatch, brokerVars, workerVars, apiVars, faultVars>>

(* One call of coinbase_api.get_transaction: only complete ones are kept.  *)
CheckTransaction(r) ==
    /\ rpc[r] = "checking"
    /\ \E s \in rtodo[r] :
         /\ rtodo' = [rtodo EXCEPT ![r] = @ \ {s}]
         /\ rlist' = [rlist EXCEPT ![r] = IF s \in complete THEN @ \cup {s} ELSE @]
    /\ UNCHANGED <<dbVars, rpc, rbatch, brokerVars, workerVars, apiVars, faultVars>>

(* "No transactions available for batching."                               *)
NothingToBatch(r) ==
    /\ rpc[r] = "checking" /\ rtodo[r] = {} /\ rlist[r] = {}
    /\ rpc' = [rpc EXCEPT ![r] = "idle"]
    /\ UNCHANGED <<dbVars, rtodo, rlist, rbatch, brokerVars, workerVars, apiVars, faultVars>>

(* The sales another open transaction has written: their rows are locked.  *)
Locked(r) == UNION {rlist[q] : q \in {p \in Requests \ {r} :
                                        rpc[p] \in {"publishing", "committing"}}}

(* batch.save() and the tx.save() of every listed sale, not yet committed. *)
CreateBatch(r) ==
    /\ rpc[r] = "checking" /\ rtodo[r] = {} /\ rlist[r] # {}
    /\ rlist[r] \cap Locked(r) = {}
    /\ nextBatch <= MaxBatches
    /\ rpc' = [rpc EXCEPT ![r] = "publishing"]
    /\ rbatch' = [rbatch EXCEPT ![r] = nextBatch]
    /\ nextBatch' = nextBatch + 1
    /\ UNCHANGED <<batchOf, committed, summed, captured, paid, aggregated, rtodo, rlist,
                   brokerVars, workerVars, apiVars, faultVars>>

(* The payout message goes out before the transaction commits.             *)
Publish(r) ==
    /\ rpc[r] = "publishing"
    /\ queue' = queue \cup {[pos |-> sent, batch |-> rbatch[r]]}
    /\ sent' = sent + 1
    /\ rpc' = [rpc EXCEPT ![r] = "committing"]
    /\ UNCHANGED <<dbVars, rtodo, rlist, rbatch, held, workerVars, apiVars, faultVars>>

(* send returns false: CreateBatchException("... Cancelling batch."), which*)
(* make_batch turns into an error response; the view returns normally, so  *)
(* commit_on_success commits.                                              *)
PublishRefused(r) ==
    /\ rpc[r] = "publishing"
    /\ Spend("refuse")
    /\ refused' = refused \cup {rbatch[r]}
    /\ rpc' = [rpc EXCEPT ![r] = "committing"]
    /\ UNCHANGED <<dbVars, rtodo, rlist, rbatch, brokerVars, workerVars, apiVars>>

Finish(r) ==
    /\ rpc' = [rpc EXCEPT ![r] = "idle"]
    /\ rtodo' = [rtodo EXCEPT ![r] = {}]
    /\ rlist' = [rlist EXCEPT ![r] = {}]
    /\ rbatch' = [rbatch EXCEPT ![r] = NoBatch]

(* The row and the sales' new batch become visible together.               *)
Commit(r) ==
    /\ rpc[r] = "committing"
    /\ committed' = committed \cup {rbatch[r]}
    /\ summed' = [summed EXCEPT ![rbatch[r]] = rlist[r]]
    /\ captured' = [captured EXCEPT ![rbatch[r]] = rlist[r]]
    /\ batchOf' = [s \in Sales |-> IF s \in rlist[r] THEN rbatch[r] ELSE batchOf[s]]
    /\ Finish(r)
    /\ UNCHANGED <<paid, aggregated, nextBatch, brokerVars, workerVars, apiVars, faultVars>>

(* Any other exception, or the death of the process: the transaction is    *)
(* rolled back.  A message already published stays published.              *)
RequestFails(r) ==
    /\ rpc[r] # "idle"
    /\ Spend("abort")
    /\ Finish(r)
    /\ UNCHANGED <<dbVars, brokerVars, workerVars, apiVars, refused>>

-----------------------------------------------------------------------------
(* The worker: my_handler of pay_merchant_batches.                         *)

Deliver(w) ==
    /\ wpc[w] = "idle"
    /\ \E m \in NextUp(queue, held) :
         /\ held' = [held EXCEPT ![w] = m]
         /\ wbatch' = [wbatch EXCEPT ![w] = m.batch]
    /\ wpc' = [wpc EXCEPT ![w] = "lookup"]
    /\ UNCHANGED <<dbVars, requestVars, queue, sent, todo, apiVars, faultVars>>

(* The process ends; the broker takes back the message it held.            *)
Exit(w) ==
    /\ wpc' = [wpc EXCEPT ![w] = "down"]
    /\ held' = [held EXCEPT ![w] = NoMessage]
    /\ wbatch' = [wbatch EXCEPT ![w] = NoBatch]
    /\ todo' = [todo EXCEPT ![w] = {}]

(* objects.get raises DoesNotExist outside the try: the command ends.      *)
BatchMissing(w) ==
    /\ wpc[w] = "lookup" /\ wbatch[w] \notin committed
    /\ Exit(w)
    /\ UNCHANGED <<dbVars, requestVars, queue, sent, apiVars, faultVars>>

(* if not batch.coinbase_txid: the row is read once, here.                 *)
LoadBatch(w) ==
    /\ wpc[w] = "lookup" /\ wbatch[w] \in committed
    /\ wpc' = [wpc EXCEPT ![w] = IF wbatch[w] \in paid THEN "ack" ELSE "fee"]
    /\ UNCHANGED <<dbVars, requestVars, brokerVars, wbatch, todo, apiVars, faultVars>>

(* api.send of the service fee.                                            *)
SendServiceFee(w) ==
    /\ wpc[w] = "fee"
    /\ fees' = [fees EXCEPT ![wbatch[w]] = @ + 1]
    /\ wpc' = [wpc EXCEPT ![w] = "sell"]
    /\ UNCHANGED <<dbVars, requestVars, brokerVars, wbatch, todo, complete, sold, faultVars>>

(* api.sell_btc of what is left.                                           *)
SellBitcoin(w) ==
    /\ wpc[w] = "sell"
    /\ sold' = [sold EXCEPT ![wbatch[w]] = @ + 1]
    /\ wpc' = [wpc EXCEPT ![w] = "save"]
    /\ UNCHANGED <<dbVars, requestVars, brokerVars, wbatch, todo, complete, fees, faultVars>>

(* The handler swallows an exception of pay_coinbase_batch and returns     *)
(* without acknowledging: the worker stays connected, holds its one        *)
(* message and gets no other.  The call that raised may have taken effect. *)
PaymentFails(w) ==
    /\ Spend("api")
    /\ wpc[w] \in {"fee", "sell"}
    /\ \/ UNCHANGED <<fees, sold>>
       \/ /\ wpc[w] = "fee"
          /\ fees' = [fees EXCEPT ![wbatch[w]] = @ + 1]
          /\ UNCHANGED sold
       \/ /\ wpc[w] = "sell"
          /\ sold' = [sold EXCEPT ![wbatch[w]] = @ + 1]
          /\ UNCHANGED fees
    /\ wpc' = [wpc EXCEPT ![w] = "wedged"]
    /\ UNCHANGED <<dbVars, requestVars, brokerVars, wbatch, todo, complete, refused>>

(* batch.save() writes every column of the row as loaded, so aggregates    *)
(* computed since then are NULL again.                                     *)
SaveBatch(w) ==
    /\ wpc[w] = "save"
    /\ paid' = paid \cup {wbatch[w]}
    /\ aggregated' = aggregated \ {wbatch[w]}
    /\ captured' = [captured EXCEPT ![wbatch[w]] = summed[wbatch[w]]]
    /\ wpc' = [wpc EXCEPT ![w] = "select"]
    /\ UNCHANGED <<batchOf, committed, summed, nextBatch, requestVars, brokerVars, wbatch,
                   todo, apiVars, faultVars>>

(* update_batch_aggregates runs its query.                                 *)
SelectBatches(w) ==
    /\ wpc[w] = "select"
    /\ todo' = [todo EXCEPT ![w] = Unaggregated]
    /\ wpc' = [wpc EXCEPT ![w] = "aggregate"]
    /\ UNCHANGED <<dbVars, requestVars, brokerVars, wbatch, apiVars, faultVars>>

(* The command process_coinbase_payout is started.                         *)
CronStart ==
    /\ todo[Cron] = {} /\ Unaggregated # {}
    /\ todo' = [todo EXCEPT ![Cron] = Unaggregated]
    /\ UNCHANGED <<dbVars, requestVars, brokerVars, wpc, wbatch, apiVars, faultVars>>

(* One round of the loop: captured_amount becomes the sum over the rows    *)
(* that are in the batch now, btc_amount stays.  Reading the rows and      *)
(* saving the sum are one step: a request that commits in between can only *)
(* take sales away, and a sum that counts them still is of summed sales.   *)
AggregateBatch(p) ==
    /\ p \in Workers => wpc[p] = "aggregate"
    /\ \E b \in todo[p] :
         /\ Members(b) # {}
         /\ captured' = [captured EXCEPT ![b] = Members(b)]
         /\ aggregated' = aggregated \cup {b}
         /\ todo' = [todo EXCEPT ![p] = @ \ {b}]
    /\ UNCHANGED <<batchOf, committed, summed, paid, nextBatch, requestVars, brokerVars, wpc,
                   wbatch, apiVars, faultVars>>

(* amount/btc_amount of a batch without rows divides by zero: a worker     *)
(* swallows the exception without acknowledging, the command ends.         *)
AggregateFails(p) ==
    /\ p \in Workers => wpc[p] = "aggregate"
    /\ \E b \in todo[p] : Members(b) = {}
    /\ todo' = [todo EXCEPT ![p] = {}]
    /\ wpc' = [w \in Workers |-> IF w = p THEN "wedged" ELSE wpc[w]]
    /\ UNCHANGED <<dbVars, requestVars, brokerVars, wbatch, apiVars, faultVars>>

AggregatesDone(w) ==
    /\ wpc[w] = "aggregate" /\ todo[w] = {}
    /\ wpc' = [wpc EXCEPT ![w] = "ack"]
    /\ UNCHANGED <<dbVars, requestVars, brokerVars, wbatch, todo, apiVars, faultVars>>

Ack(w) ==
    /\ wpc[w] = "ack" /\ held[w] # NoMessage
    /\ queue' = queue \ {held[w]}
    /\ held' = [held EXCEPT ![w] = NoMessage]
    /\ wbatch' = [wbatch EXCEPT ![w] = NoBatch]
    /\ wpc' = [wpc EXCEPT ![w] = "idle"]
    /\ UNCHANGED <<dbVars, requestVars, sent, todo, apiVars, faultVars>>

(* A worker that returns to a connection it has lost: start_consuming      *)
(* raises and the command ends.                                            *)
ConsumeFails(w) ==
    /\ wpc[w] \in {"ack", "wedged"} /\ held[w] = NoMessage
    /\ Exit(w)
    /\ UNCHANGED <<dbVars, requestVars, queue, sent, apiVars, faultVars>>

-----------------------------------------------------------------------------
(* The environment of the workers.                                         *)

WorkerCrash(w) ==
    /\ wpc[w] # "down"
    /\ Spend("crash")
    /\ Exit(w)
    /\ UNCHANGED <<dbVars, requestVars, queue, sent, apiVars, refused>>

(* The broker gives up on the connection while the handler goes on.        *)
ConnectionLost(w) ==
    /\ held[w] # NoMessage
    /\ Spend("drop")
    /\ held' = [held EXCEPT ![w] = NoMessage]
    /\ UNCHANGED <<dbVars, requestVars, queue, sent, workerVars, apiVars, refused>>

(* The queue survives, its messages do not; every connection is lost.      *)
BrokerRestart ==
    /\ Spend("broker")
    /\ queue' = {}
    /\ held' = [w \in Workers |-> NoMessage]
    /\ wpc' = [w \in Workers |-> IF wpc[w] = "idle" THEN "down" ELSE wpc[w]]
    /\ UNCHANGED <<dbVars, requestVars, sent, wbatch, todo, apiVars, refused>>

Restart(w) ==
    /\ wpc[w] = "down"
    /\ wpc' = [wpc EXCEPT ![w] = "idle"]
    /\ UNCHANGED <<dbVars, requestVars, brokerVars, wbatch, todo, apiVars, faultVars>>

-----------------------------------------------------------------------------
RequestStep(r) ==
    \/ CheckTransaction(r)
    \/ NothingToBatch(r)
    \/ CreateBatch(r)
    \/ Publish(r)
    \/ Commit(r)

WorkerStep(w) ==
    \/ Deliver(w)
    \/ BatchMissing(w)
    \/ LoadBatch(w)
    \/ SendServiceFee(w)
    \/ SellBitcoin(w)
    \/ SaveBatch(w)
    \/ SelectBatches(w)
    \/ AggregatesDone(w)
    \/ Ack(w)
    \/ ConsumeFails(w)

Next ==
    \/ \E s \in Sales : TransactionCompletes(s)
    \/ \E r \in Requests, m \in Merchants : BeginBatch(r, m)
    \/ \E r \in Requests : RequestStep(r) \/ PublishRefused(r) \/ RequestFails(r)
    \/ \E w \in Workers : WorkerStep(w) \/ PaymentFails(w)
    \/ \E w \in Workers : WorkerCrash(w) \/ ConnectionLost(w) \/ Restart(w)
    \/ \E p \in Aggregators : AggregateBatch(p) \/ AggregateFails(p)
    \/ CronStart
    \/ BrokerRestart

Spec == Init /\ [][Next]_vars

(* A started request runs to its end unless it fails; a consumer's library *)
(* loop hands it the next message; whoever operates the workers starts an  *)
(* ended one again.  Nothing makes a merchant press Make Batch, nothing in *)
(* the repository schedules the command.                                   *)
Fairness ==
    /\ \A r \in Requests : WF_vars(RequestStep(r))
    /\ \A w \in Workers :
         /\ WF_vars(WorkerStep(w))
         /\ WF_vars(AggregateBatch(w))
         /\ WF_vars(Restart(w))

FairSpec == Spec /\ Fairness

-----------------------------------------------------------------------------
(* Properties.                                                             *)

RequestStates == {"idle", "checking", "publishing", "committing"}
WorkerStates  == {"down", "idle", "lookup", "fee", "sell", "save", "select",
                  "aggregate", "ack", "wedged"}

(* Every variable has its type.                                            *)
TypeOK ==
    /\ batchOf \in [Sales -> BatchIds \cup {NoBatch}]
    /\ committed \subseteq BatchIds /\ paid \subseteq BatchIds /\ aggregated \subseteq BatchIds
    /\ summed \in [BatchIds -> SUBSET Sales] /\ captured \in [BatchIds -> SUBSET Sales]
    /\ nextBatch \in 1..MaxBatches + 1
    /\ rpc \in [Requests -> RequestStates]
    /\ rtodo \in [Requests -> SUBSET Sales] /\ rlist \in [Requests -> SUBSET Sales]
    /\ rbatch \in [Requests -> BatchIds \cup {NoBatch}]
    /\ queue \subseteq Messages /\ sent \in Nat
    /\ held \in [Workers -> Messages \cup {NoMessage}]
    /\ wpc \in [Workers -> WorkerStates]
    /\ wbatch \in [Workers -> BatchIds \cup {NoBatch}]
    /\ todo \in [Aggregators -> SUBSET BatchIds]
    /\ complete \subseteq Sales
    /\ fees \in [BatchIds -> Nat] /\ sold \in [BatchIds -> Nat]
    /\ refused \subseteq BatchIds
    /\ budget \in [Faults -> Nat]

(* A message for batch b is on the queue, unless the publisher refused it  *)
(* or a restart of the broker lost it.                                     *)
Announced(b) ==
    \/ \E m \in queue : m.batch = b
    \/ b \in refused
    \/ Spent("broker") > 0

(* pay_merchant_batches acknowledges a message only when the batch is paid *)
(* and make_merchant_batch publishes before the commit: whatever requests, *)
(* workers and connections do, a batch that is not paid out yet is still   *)
(* asked for on the queue.                                                 *)
NoBatchForgotten == \A b \in committed \ paid : Announced(b)

OneMerchant(S) == \A s, t \in S : MerchantOf[s] = MerchantOf[t]

(* The message overtakes the commit, and Coinbase statuses are read long   *)
(* before: still no service fee is sent and no bitcoin sold except for a   *)
(* batch that is in the database and consists of one merchant's sales,     *)
(* each of them confirmed by Coinbase.                                     *)
OnlyConfirmedBitcoinSold ==
    \A b \in BatchIds : fees[b] + sold[b] > 0 =>
        /\ b \in committed
        /\ summed[b] # {} /\ summed[b] \subseteq complete
        /\ OneMerchant(summed[b])

(* pay_coinbase_batch sends the service fee before each sale: however many *)
(* workers pay a batch, and wherever they stop, the bitcoin was never sold *)
(* more often than the fee was taken.                                      *)
FeeBeforeSale == \A b \in BatchIds : sold[b] <= fees[b]

(* Without an idempotence key a payment is repeated only when a message is *)
(* redelivered: once for each crash or lost connection of a worker, never  *)
(* because Coinbase refused a call.                                        *)
PaymentsBounded ==
    \A b \in BatchIds : fees[b] <= 1 + Spent("crash") + Spent("drop")

(* Some worker has read batch b as unpaid and is about to move its money.  *)
BeingPaid(b) == \E w \in Workers : wbatch[w] = b /\ wpc[w] \in {"fee", "sell"}

(* Redelivery after the row was saved and before the ack: a batch that is  *)
(* paid and that nobody is paying is never paid again.                     *)
PaidIsFinal == [][\A b \in paid : ~BeingPaid(b) => b \in paid' /\ ~BeingPaid(b)']_vars

(* update_batch_aggregates recomputes the captured amount from the sales   *)
(* that are in the batch now: never from one whose bitcoin was not part of *)
(* the batch when it was made.                                             *)
CapturedWithinSummed == \A b \in committed : captured[b] \subseteq summed[b]

(* When one request is served at a time the dollars captured are those of  *)
(* the bitcoin sold, before and after the aggregates are computed, by      *)
(* whichever process; a sale is in one batch, so no two batches sum it.    *)
CapturedIsSummed == \A b \in committed : captured[b] = summed[b] /\ Members(b) = summed[b]

(* admin.html promises that every batch made is paid out.  One failed      *)
(* Coinbase call wedges one worker: only the batch it holds has to wait,   *)
(* another worker pays the others.                                         *)
EveryBatchPaidOrStuck ==
    \A b \in BatchIds : (b \in committed) ~>
        (b \in paid \/ \E w \in Workers : wpc[w] = "wedged" /\ wbatch[w] = b)

(* The worker that pays a batch also computes its aggregates, unless it    *)
(* dies in between: redelivery finds the batch paid and skips them.  They  *)
(* are there for good in the end, although a second worker that got the    *)
(* same message overwrites them with the row it had loaded.                *)
PaidIsAggregated ==
    \A b \in BatchIds : (b \in paid) ~> ([](b \in aggregated) \/ Spent("crash") > 0)

(* "Cancelling batch.": a batch whose message was refused does not exist.  *)
RefusedIsCancelled == refused \cap committed = {}

-----------------------------------------------------------------------------
(* The inductive invariant behind NoBatchForgotten, OnlyConfirmedBitcoinSold,*)
(* FeeBeforeSale and PaidIsFinal.                                          *)

Writing(r) == rpc[r] \in {"publishing", "committing"}

(* What a request has read and written so far.                             *)
RequestInv ==
    \A r \in Requests :
        /\ rlist[r] \subseteq complete
        /\ OneMerchant(rtodo[r] \cup rlist[r])
        /\ rpc[r] = "idle" => rlist[r] = {}
        /\ Writing(r) =>
             /\ rbatch[r] \in BatchIds /\ rbatch[r] < nextBatch
             /\ rbatch[r] \notin committed
             /\ rlist[r] # {}
        /\ rpc[r] = "committing" => Announced(rbatch[r])

(* Two requests never write the same row.                                  *)
FreshIds ==
    \A q, r \in Requests : q # r /\ Writing(q) /\ Writing(r) => rbatch[q] # rbatch[r]

(* What a committed row says.                                              *)
CommittedInv ==
    /\ paid \subseteq committed
    /\ \A b \in committed :
         /\ b < nextBatch
         /\ summed[b] # {} /\ summed[b] \subseteq complete /\ OneMerchant(summed[b])

(* What a worker knows of the message it holds and the row it loaded.      *)
WorkerInv ==
    \A w \in Workers :
        /\ held[w] # NoMessage => held[w].batch = wbatch[w]
        /\ wpc[w] \in {"idle", "down"} => held[w] = NoMessage
        /\ wpc[w] \notin {"idle", "down"} => wbatch[w] \in BatchIds
        /\ wpc[w] \notin {"idle", "down", "lookup"} => wbatch[w] \in committed
        /\ wpc[w] \in {"select", "aggregate", "ack"} => wbatch[w] \in paid

(* Money moves for committed batches only.                                 *)
MoneyInv == \A b \in BatchIds : fees[b] + sold[b] > 0 => b \in committed

(* The workers that have sent the fee of batch b and not sold it yet.      *)
Selling(b) == {w \in Workers : wbatch[w] = b /\ wpc[w] = "sell"}

(* Each of them may still sell once.                                       *)
SalesCovered == \A b \in BatchIds : sold[b] + Cardinality(Selling(b)) <= fees[b]

(* The conjunction that every step of the specification preserves.         *)
IInv ==
    /\ TypeOK
    /\ \A f \in Faults : budget[f] <= Budget[f]
    /\ RequestInv /\ FreshIds /\ CommittedInv /\ WorkerInv /\ MoneyInv /\ SalesCovered
    /\ NoBatchForgotten

(* Behind CapturedWithinSummed: a sale points at a row that exists and that*)
(* summed it, whatever requests overlap.                                   *)
MembersInv ==
    /\ \A s \in Sales : batchOf[s] \in committed \cup {NoBatch}
    /\ \A b \in committed : Members(b) \subseteq summed[b]
    /\ \A p \in Aggregators : todo[p] \subseteq committed
    /\ CapturedWithinSummed

(* Behind CapturedIsSummed: what the one request has read is still open.   *)
ReadsAreFresh == \A r \in Requests : \A s \in rtodo[r] \cup rlist[r] : batchOf[s] = NoBatch

OneRequest == \A q, r \in Requests : q = r

(* Behind PaymentsBounded: one message for each batch, held by one worker; *)
(* a request that has not published yet is the only one to know its batch. *)
MessageInv ==
    /\ \A m, n \in queue : m.batch = n.batch => m = n
    /\ \A m \in queue : m.batch < nextBatch
    /\ \A w \in Workers :
         /\ wbatch[w] # NoBatch => wbatch[w] < nextBatch
         /\ held[w] # NoMessage => held[w] \in queue
         /\ \A v \in Workers : held[v] = held[w] => v = w \/ held[w] = NoMessage
    /\ \A r \in Requests : rpc[r] = "publishing" =>
         /\ \A m \in queue : m.batch # rbatch[r]
         /\ \A w \in Workers : wbatch[w] # rbatch[r]

(* The workers that may still send a fee for batch b, and the one more     *)
(* that will when its message is ready for delivery.                       *)
Charging(b) == {w \in Workers : wbatch[w] = b /\ wpc[w] \in {"lookup", "fee"}}
Again(b) == IF \E m \in Ready(queue, held) : m.batch = b THEN 1 ELSE 0

(* Only a crash or a lost connection makes a message ready again.          *)
FeesCovered ==
    \A b \in BatchIds :
        fees[b] + Cardinality(Charging(b)) + Again(b) <= 1 + Spent("crash") + Spent("drop")

=============================================================================

---------------------------- MODULE PointOfSale -----------------------------
(***************************************************************************)
(* From a new sale to its confirmation: the web request that makes a sale  *)
(* (account.api.views.newsale, lib.make_new_sale with the search for a     *)
(* receive address), the customer who pays, Coinbase's callback            *)
(* (views.coinbase_recv_callback) that puts the notification on the queue  *)
(* coinbase_receive_callback, and the workers (command                     *)
(* coinbase_recv_callbacks) that find the sale, record the payment and     *)
(* send the confirmation to the merchant's screen over XMPP.               *)
(*                                                                         *)
(* One merchant with a Coinbase wallet: sales and addresses of different   *)
(* merchants are never compared.  Web threads and workers run outside a    *)
(* managed transaction: every query and every save stands for itself, and  *)
(* a save writes the whole row as it was loaded.                           *)
(***************************************************************************)
EXTENDS Integers, FiniteSets, Broker

CONSTANTS
    MaxSales,     \* bound on the sales made
    MaxRows,      \* bound on the ReceiveAddress rows made
    Amounts,      \* bitcoin amounts of a sale
    Payments,     \* bitcoin transactions of customers
    Threads,      \* web threads that serve newsale
    Workers,      \* coinbase_recv_callbacks processes
    NoRow, NoAmount, NoSale, NoPayment, NoMessage,
    Budget        \* bound on the faults of each kind, see Faults

(* abort: a web thread dies;  api: Coinbase gives no receive address;      *)
(* again: a customer pays a sale once more;  dup: Coinbase repeats a       *)
(* callback;  xmpp: the XMPP server fails;  crash: a worker dies;          *)
(* drop: a worker loses its connection;  broker: the broker restarts.      *)
Faults == {"abort", "api", "again", "dup", "xmpp", "crash", "drop", "broker"}

Sales == 1..MaxSales
Rows == 1..MaxRows
Messages == [pos : Nat, payment : Payments]

(* A ReceiveAddress as a thread has it in memory: with a real address, or  *)
(* the placeholder '1' it is first saved with.                             *)
Loaded == [row : Rows, address : {"placeholder", "real"}]

ASSUME BoundsAssumption == MaxSales \in Nat /\ MaxRows \in Nat
ASSUME NullsAssumption ==
    /\ NoRow \notin Rows /\ NoSale \notin Sales /\ NoAmount \notin Amounts
    /\ NoPayment \notin Payments /\ NoMessage \notin Messages
ASSUME BudgetAssumption == Budget \in [Faults -> Nat]

VARIABLES
    \* the database
    address,      \* ReceiveAddress.address: "none" (no row), "placeholder", "real"
    saleRow,      \* SalesTransaction.btc_address (NoRow: no sale yet)
    saleAmount,   \* SalesTransaction.btc_amount
    txid,         \* SalesTransaction.btc_txid, and with it coinbase_txid
    batched,      \* sales with a batch
    \* the web threads
    tpc,          \* where thread t is
    tamount,      \* the amount it was asked for
    tfound,       \* available_addresses
    trow,         \* the row it settled on: at most one
    \* the customers, and Coinbase
    payable,      \* sales whose payment request shows a real address
    payFor,       \* the sale a bitcoin transaction was made for
    called,       \* payments Coinbase has sent a callback for
    \* the broker
    queue, sent, held,
    \* the workers
    wpc,          \* where worker w is
    wpay,         \* the payment it was notified of
    wsale,        \* the sale it loaded
    \* the screens
    green,        \* sales whose confirmation was sent
    budget        \* faults that may still happen

saleVars     == <<saleRow, saleAmount, txid, batched>>
threadVars   == <<tpc, tamount, tfound, trow>>
customerVars == <<payable, payFor, called>>
brokerVars   == <<queue, sent, held>>
workerVars   == <<wpc, wpay, wsale>>
vars == <<address, saleVars, threadVars, customerVars, brokerVars, workerVars, green, budget>>

Spend(kind) ==
    /\ budget[kind] > 0
    /\ budget' = [budget EXCEPT ![kind] = @ - 1]

Spent(kind) == Budget[kind] - budget[kind]

Made == {s \in Sales : saleRow[s] # NoRow}
Pending == {s \in Made : txid[s] = NoPayment}

(* The first id of an autoincrement column that is not in use.             *)
NextId(ids, used) == {i \in ids \ used : \A j \in ids \ used : i <= j}

Init ==
    /\ address = [i \in Rows |-> "none"]
    /\ saleRow = [s \in Sales |-> NoRow]
    /\ saleAmount = [s \in Sales |-> NoAmount]
    /\ txid = [s \in Sales |-> NoPayment]
    /\ batched = {}
    /\ tpc = [t \in Threads |-> "idle"]
    /\ tamount = [t \in Threads |-> NoAmount]
    /\ tfound = [t \in Threads |-> {}]
    /\ trow = [t \in Threads |-> {}]
    /\ payable = {} /\ called = {}
    /\ payFor = [p \in Payments |-> NoSale]
    /\ queue = {} /\ sent = 0
    /\ held = [w \in Workers |-> NoMessage]
    /\ wpc = [w \in Workers |-> "idle"]
    /\ wpay = [w \in Workers |-> NoPayment]
    /\ wsale = [w \in Workers |-> NoSale]
    /\ green = {}
    /\ budget = Budget

-----------------------------------------------------------------------------
(* Seeded defects: actions as they would be after a plausible mistake.  A  *)
(* property that none of them violates would say nothing of this program.  *)

(* The pending sales are not looked at.                                    *)
FreeAlways(t) == tfound[t]

(* The row is handed out while Coinbase is asked for its address later.    *)
CreateRowOnly(t) ==
    /\ tpc[t] = "generate"
    /\ \E i \in NextId(Rows, {j \in Rows : address[j] # "none"}) :
         /\ address' = [address EXCEPT ![i] = "placeholder"]
         /\ trow' = [trow EXCEPT ![t] = {[row |-> i, address |-> "placeholder"]}]
    /\ tpc' = [tpc EXCEPT ![t] = "save"]
    /\ UNCHANGED <<saleVars, tamount, tfound, customerVars, brokerVars, workerVars, green, budget>>

(* The view sends the body twice.                                          *)
CallbackSentTwice(p) ==
    /\ payFor[p] # NoSale /\ p \notin called
    /\ called' = called \cup {p}
    /\ queue' = queue \cup {[pos |-> sent, payment |-> p], [pos |-> sent + 1, payment |-> p]}
    /\ sent' = sent + 2
    /\ UNCHANGED <<address, saleVars, threadVars, payable, payFor, held, workerVars, green, budget>>

(* basic_consume with no_ack=True: delivered is acknowledged.              *)
DeliverAcknowledges(w) ==
    /\ wpc[w] = "idle"
    /\ \E m \in NextUp(queue, held) :
         /\ held' = [held EXCEPT ![w] = m]
         /\ wpay' = [wpay EXCEPT ![w] = m.payment]
         /\ queue' = queue \ {m}
    /\ wpc' = [wpc EXCEPT ![w] = "match"]
    /\ UNCHANGED <<address, saleVars, threadVars, customerVars, sent, wsale, green, budget>>

(* The first sale of the list although the list is empty.                  *)
NoMatchNotified(w) ==
    /\ wpc[w] = "match"
    /\ wpc' = [wpc EXCEPT ![w] = "notify"]
    /\ UNCHANGED <<address, saleVars, threadVars, customerVars, brokerVars, wpay, wsale, green,
                   budget>>

(* btc_amount is left out of the filter.                                   *)
MatchingAddress(p) == {s \in Pending : saleRow[s] = saleRow[payFor[p]]}

(* The recorded sale is not recognised, so no confirmation is sent.        *)
RecordSilently(w) ==
    /\ wpc[w] = "save"
    /\ txid' = [txid EXCEPT ![wsale[w]] = wpay[w]]
    /\ batched' = batched \ {wsale[w]}
    /\ wpc' = [wpc EXCEPT ![w] = "ack"]
    /\ UNCHANGED <<address, saleRow, saleAmount, threadVars, customerVars, brokerVars, wpay, wsale,
                   green, budget>>

-----------------------------------------------------------------------------
(* The web request: make_new_sale.                                         *)

(* newsale is called; the exchange rate gives the amount in bitcoin.       *)
NewSale(t, amount) ==
    /\ tpc[t] = "idle"
    /\ tpc' = [tpc EXCEPT ![t] = "search"]
    /\ tamount' = [tamount EXCEPT ![t] = amount]
    /\ UNCHANGED <<address, saleVars, tfound, trow, customerVars, brokerVars, workerVars,
                   green, budget>>

(* The merchant's rows with available=True: no code ever clears the flag.  *)
FindAddresses(t) ==
    LET rows == {i \in Rows : address[i] # "none"}
    IN  /\ tpc[t] = "search"
        /\ tfound' = [tfound EXCEPT ![t] = {[row |-> i, address |-> address[i]] : i \in rows}]
        /\ tpc' = [tpc EXCEPT ![t] = IF rows = {} THEN "generate" ELSE "filter"]
        /\ UNCHANGED <<address, saleVars, tamount, trow, customerVars, brokerVars, workerVars,
                       green, budget>>

(* The rows no pending sale of the same amount waits on.                   *)
Free(t) == {a \in tfound[t] :
              \A s \in Pending : saleAmount[s] = tamount[t] => saleRow[s] # a.row}

(* final_addresses[0], in whatever order the database lists the rows.      *)
ReuseAddress(t) ==
    /\ tpc[t] = "filter"
    /\ \E a \in Free(t) : trow' = [trow EXCEPT ![t] = {a}]
    /\ tpc' = [tpc EXCEPT ![t] = "save"]
    /\ UNCHANGED <<address, saleVars, tamount, tfound, customerVars, brokerVars, workerVars,
                   green, budget>>

NoAddressFree(t) ==
    /\ tpc[t] = "filter" /\ Free(t) = {}
    /\ tpc' = [tpc EXCEPT ![t] = "generate"]
    /\ UNCHANGED <<address, saleVars, tamount, tfound, trow, customerVars, brokerVars,
                   workerVars, green, budget>>

(* The row is saved first, available and with the address '1': its id is   *)
(* part of the callback URL.                                               *)
CreateRow(t) ==
    /\ tpc[t] = "generate"
    /\ \E i \in NextId(Rows, {j \in Rows : address[j] # "none"}) :
         /\ address' = [address EXCEPT ![i] = "placeholder"]
         /\ trow' = [trow EXCEPT ![t] = {[row |-> i, address |-> "real"]}]
    /\ tpc' = [tpc EXCEPT ![t] = "generating"]
    /\ UNCHANGED <<saleVars, tamount, tfound, customerVars, brokerVars, workerVars, green, budget>>

(* generate_receive_address answers and the address is saved.              *)
AddressGenerated(t) ==
    /\ tpc[t] = "generating"
    /\ address' = [i \in Rows |-> IF \E a \in trow[t] : a.row = i THEN "real" ELSE address[i]]
    /\ tpc' = [tpc EXCEPT ![t] = "save"]
    /\ UNCHANGED <<saleVars, tamount, tfound, trow, customerVars, brokerVars, workerVars, green,
                   budget>>

EndRequest(t) ==
    /\ tpc' = [tpc EXCEPT ![t] = "idle"]
    /\ tamount' = [tamount EXCEPT ![t] = NoAmount]
    /\ tfound' = [tfound EXCEPT ![t] = {}]
    /\ trow' = [trow EXCEPT ![t] = {}]

(* It raises: the request fails, the row stays.                            *)
AddressFails(t) ==
    /\ tpc[t] = "generating"
    /\ Spend("api")
    /\ EndRequest(t)
    /\ UNCHANGED <<address, saleVars, customerVars, brokerVars, workerVars, green>>

(* sale.save(), and the answer with the payment request.                   *)
SaveSale(t) ==
    /\ tpc[t] = "save"
    /\ \E a \in trow[t], s \in NextId(Sales, Made) :
         /\ saleRow' = [saleRow EXCEPT ![s] = a.row]
         /\ saleAmount' = [saleAmount EXCEPT ![s] = tamount[t]]
         /\ payable' = IF a.address = "real" THEN payable \cup {s} ELSE payable
    /\ EndRequest(t)
    /\ UNCHANGED <<address, txid, batched, payFor, called, brokerVars, workerVars, green, budget>>

RequestDies(t) ==
    /\ tpc[t] # "idle"
    /\ Spend("abort")
    /\ EndRequest(t)
    /\ UNCHANGED <<address, saleVars, customerVars, brokerVars, workerVars, green>>

-----------------------------------------------------------------------------
(* The customer and Coinbase.                                              *)

PaidFor(s) == \E p \in Payments : payFor[p] = s

(* A customer scans the request and sends the exact amount.                *)
Pay(s, p) ==
    /\ s \in payable /\ payFor[p] = NoSale
    /\ payFor' = [payFor EXCEPT ![p] = s]
    /\ IF PaidFor(s) THEN Spend("again") ELSE UNCHANGED budget
    /\ UNCHANGED <<address, saleVars, threadVars, payable, called, brokerVars, workerVars, green>>

(* Coinbase posts the notification; the view puts the body on the queue.   *)
(* Until the view has answered, Coinbase posts again.                      *)
Callback(p) ==
    /\ payFor[p] # NoSale
    /\ IF p \in called THEN Spend("dup") ELSE UNCHANGED budget
    /\ called' = called \cup {p}
    /\ queue' = queue \cup {[pos |-> sent, payment |-> p]}
    /\ sent' = sent + 1
    /\ UNCHANGED <<address, saleVars, threadVars, payable, payFor, held, workerVars, green>>

(* sale_list: a screen that is opened again shows the addresses of now.    *)
ListSales ==
    /\ payable' = payable \cup {s \in Pending : address[saleRow[s]] = "real"}
    /\ payable' # payable
    /\ UNCHANGED <<address, saleVars, threadVars, payFor, called, brokerVars, workerVars, green,
                   budget>>

(* A request modelled in BatchPayout commits a batch that contains sale s. *)
Batch(s) ==
    /\ txid[s] # NoPayment /\ s \notin batched
    /\ batched' = batched \cup {s}
    /\ UNCHANGED <<address, saleRow, saleAmount, txid, threadVars, customerVars, brokerVars,
                   workerVars, green, budget>>

-----------------------------------------------------------------------------
(* The worker: my_handler of coinbase_recv_callbacks.                      *)

Deliver(w) ==
    /\ wpc[w] = "idle"
    /\ \E m \in NextUp(queue, held) :
         /\ held' = [held EXCEPT ![w] = m]
         /\ wpay' = [wpay EXCEPT ![w] = m.payment]
    /\ wpc' = [wpc EXCEPT ![w] = "match"]
    /\ UNCHANGED <<address, saleVars, threadVars, customerVars, queue, sent, wsale, green, budget>>

(* The pending sales with the address and the amount of payment p.         *)
Matching(p) == {s \in Pending : /\ saleRow[s] = saleRow[payFor[p]]
                                /\ saleAmount[s] = saleAmount[payFor[p]]}

(* tx_list[0]; a pending sale is in no batch, so the copy has none.        *)
Match(w) ==
    /\ wpc[w] = "match"
    /\ \E s \in Matching(wpay[w]) : wsale' = [wsale EXCEPT ![w] = s]
    /\ wpc' = [wpc EXCEPT ![w] = "save"]
    /\ UNCHANGED <<address, saleVars, threadVars, customerVars, brokerVars, wpay, green, budget>>

(* The handler prints "Unexpected notification state!" and acknowledges.   *)
NoMatch(w) ==
    /\ wpc[w] = "match" /\ Matching(wpay[w]) = {}
    /\ wpc' = [wpc EXCEPT ![w] = "ack"]
    /\ UNCHANGED <<address, saleVars, threadVars, customerVars, brokerVars, wpay, wsale, green,
                   budget>>

(* The sales whose row would break the unique constraint on btc_txid.      *)
Clashes(w) == {s \in Made \ {wsale[w]} : txid[s] = wpay[w]}

(* s_tx.save() writes every column, the batch of the loaded copy included. *)
RecordPayment(w) ==
    /\ wpc[w] = "save" /\ Clashes(w) = {}
    /\ txid' = [txid EXCEPT ![wsale[w]] = wpay[w]]
    /\ batched' = batched \ {wsale[w]}
    /\ wpc' = [wpc EXCEPT ![w] = "notify"]
    /\ UNCHANGED <<address, saleRow, saleAmount, threadVars, customerVars, brokerVars, wpay, wsale,
                   green, budget>>

(* The process ends; the broker takes back the message it held.            *)
Exit(w) ==
    /\ wpc' = [wpc EXCEPT ![w] = "down"]
    /\ held' = [held EXCEPT ![w] = NoMessage]
    /\ wpay' = [wpay EXCEPT ![w] = NoPayment]
    /\ wsale' = [wsale EXCEPT ![w] = NoSale]

(* IntegrityError leaves the handler and ends the command.                 *)
RecordFails(w) ==
    /\ wpc[w] = "save" /\ Clashes(w) # {}
    /\ Exit(w)
    /\ UNCHANGED <<address, saleVars, threadVars, customerVars, queue, sent, green, budget>>

(* notify_transaction posts the confirmation to the XMPP server.           *)
Notify(w) ==
    /\ wpc[w] = "notify"
    /\ green' = green \cup {wsale[w]}
    /\ wpc' = [wpc EXCEPT ![w] = "ack"]
    /\ UNCHANGED <<address, saleVars, threadVars, customerVars, brokerVars, wpay, wsale, budget>>

(* The post raises, and so does the handler; or the server answers with an *)
(* HTTP error, which nobody looks at: the handler goes on.                 *)
NotifyFails(w) ==
    /\ wpc[w] = "notify"
    /\ Spend("xmpp")
    /\ \/ Exit(w)
       \/ wpc' = [wpc EXCEPT ![w] = "ack"] /\ UNCHANGED <<held, wpay, wsale>>
    /\ UNCHANGED <<address, saleVars, threadVars, customerVars, queue, sent, green>>

Ack(w) ==
    /\ wpc[w] = "ack" /\ held[w] # NoMessage
    /\ queue' = queue \ {held[w]}
    /\ held' = [held EXCEPT ![w] = NoMessage]
    /\ wpc' = [wpc EXCEPT ![w] = "idle"]
    /\ wpay' = [wpay EXCEPT ![w] = NoPayment]
    /\ wsale' = [wsale EXCEPT ![w] = NoSale]
    /\ UNCHANGED <<address, saleVars, threadVars, customerVars, sent, green, budget>>

(* The acknowledgement finds the connection gone: the command ends.        *)
AckFails(w) ==
    /\ wpc[w] = "ack" /\ held[w] = NoMessage
    /\ Exit(w)
    /\ UNCHANGED <<address, saleVars, threadVars, customerVars, queue, sent, green, budget>>

-----------------------------------------------------------------------------
(* The environment of the workers.                                         *)

WorkerCrash(w) ==
    /\ wpc[w] # "down"
    /\ Spend("crash")
    /\ Exit(w)
    /\ UNCHANGED <<address, saleVars, threadVars, customerVars, queue, sent, green>>

(* The broker gives up on the connection while the handler goes on.        *)
ConnectionLost(w) ==
    /\ held[w] # NoMessage
    /\ Spend("drop")
    /\ held' = [held EXCEPT ![w] = NoMessage]
    /\ UNCHANGED <<address, saleVars, threadVars, customerVars, queue, sent, workerVars, green>>

(* The queue survives, its messages do not; every connection is lost.      *)
BrokerRestart ==
    /\ Spend("broker")
    /\ queue' = {}
    /\ held' = [w \in Workers |-> NoMessage]
    /\ wpc' = [w \in Workers |-> IF wpc[w] = "idle" THEN "down" ELSE wpc[w]]
    /\ UNCHANGED <<address, saleVars, threadVars, customerVars, sent, wpay, wsale, green>>

Restart(w) ==
    /\ wpc[w] = "down"
    /\ wpc' = [wpc EXCEPT ![w] = "idle"]
    /\ UNCHANGED <<address, saleVars, threadVars, customerVars, brokerVars, wpay, wsale, green,
                   budget>>

-----------------------------------------------------------------------------
ThreadStep(t) ==
    \/ FindAddresses(t)
    \/ ReuseAddress(t)
    \/ NoAddressFree(t)
    \/ CreateRow(t)
    \/ AddressGenerated(t)
    \/ SaveSale(t)

WorkerStep(w) ==
    \/ Deliver(w)
    \/ Match(w)
    \/ NoMatch(w)
    \/ RecordPayment(w)
    \/ RecordFails(w)
    \/ Notify(w)
    \/ Ack(w)
    \/ AckFails(w)

Next ==
    \/ \E t \in Threads, a \in Amounts : NewSale(t, a)
    \/ \E t \in Threads : ThreadStep(t) \/ AddressFails(t) \/ RequestDies(t)
    \/ ListSales
    \/ \E s \in Sales, p \in Payments : Pay(s, p)
    \/ \E p \in Payments : Callback(p)
    \/ \E s \in Sales : Batch(s)
    \/ \E w \in Workers : WorkerStep(w) \/ NotifyFails(w)
    \/ \E w \in Workers : WorkerCrash(w) \/ ConnectionLost(w) \/ Restart(w)
    \/ BrokerRestart

Spec == Init /\ [][Next]_vars

(* Coinbase posts what it has received; a consumer's library loop hands it *)
(* the next message; whoever operates the workers starts an ended one      *)
(* again.  Customers need not pay, merchants need not sell.                *)
Fairness ==
    /\ \A p \in Payments : WF_vars(Callback(p) /\ p \notin called)
    /\ \A w \in Workers : WF_vars(WorkerStep(w)) /\ WF_vars(Restart(w))

FairSpec == Spec /\ Fairness

-----------------------------------------------------------------------------
(* Properties.                                                             *)

ThreadStates == {"idle", "search", "filter", "generate", "generating", "save"}
WorkerStates == {"down", "idle", "match", "save", "notify", "ack"}

(* Every variable has its type.                                            *)
TypeOK ==
    /\ address \in [Rows -> {"none", "placeholder", "real"}]
    /\ saleRow \in [Sales -> Rows \cup {NoRow}]
    /\ saleAmount \in [Sales -> Amounts \cup {NoAmount}]
    /\ txid \in [Sales -> Payments \cup {NoPayment}]
    /\ batched \subseteq Sales /\ payable \subseteq Sales /\ green \subseteq Sales
    /\ tpc \in [Threads -> ThreadStates]
    /\ tamount \in [Threads -> Amounts \cup {NoAmount}]
    /\ tfound \in [Threads -> SUBSET Loaded] /\ trow \in [Threads -> SUBSET Loaded]
    /\ payFor \in [Payments -> Sales \cup {NoSale}] /\ called \subseteq Payments
    /\ queue \subseteq Messages /\ sent \in Nat
    /\ held \in [Workers -> Messages \cup {NoMessage}]
    /\ wpc \in [Workers -> WorkerStates]
    /\ wpay \in [Workers -> Payments \cup {NoPayment}]
    /\ wsale \in [Workers -> Sales \cup {NoSale}]
    /\ budget \in [Faults -> Nat]

(* get_available_receive_address: when sales are made one at a time, no    *)
(* two pending sales wait for the same amount at the same address, however *)
(* often addresses are reused, requests die and workers lag behind.        *)
PendingDistinct ==
    \A s, t \in Pending : s # t /\ saleAmount[s] = saleAmount[t] => saleRow[s] # saleRow[t]

(* ... so that, when customers pay a sale once, a sale is only ever        *)
(* recorded as paid by the customer who paid it: repeated callbacks,       *)
(* redelivered messages and crashed workers never credit another sale.     *)
RecordedByOwnPayment == \A s \in Made : txid[s] # NoPayment => payFor[txid[s]] = s

(* A notification the callback view has accepted is recorded or still on   *)
(* the queue; when customers pay a sale once, only a restart of the broker *)
(* can lose it.                                                            *)
NotificationKept ==
    \A p \in called :
        \/ \E s \in Made : txid[s] = p
        \/ \E m \in queue : m.payment = p
        \/ Spent("broker") > 0

(* Whatever requests and workers do at the same time, a sale shown as      *)
(* confirmed has a payment of its own: to its address, of its amount, and  *)
(* counted for no other sale.                                              *)
GreenHasItsMoney ==
    \A s \in green :
        /\ txid[s] \in called
        /\ saleRow[payFor[txid[s]]] = saleRow[s]
        /\ saleAmount[payFor[txid[s]]] = saleAmount[s]
        /\ \A t \in Made \ {s} : txid[t] # txid[s]

(* RecordPayment writes the batch column it loaded: only a notification    *)
(* that is queued twice or redelivered to another worker can bring a       *)
(* batched sale back to the open batch (to be paid out again), whichever   *)
(* worker dies where.                                                      *)
BatchedStaysBatched ==
    [][Spent("dup") + Spent("drop") = 0 => batched \subseteq batched']_vars

(* "a payment QR code that your customer can then scan and pay": when      *)
(* sales are made one at a time, none is made on a row that still has the  *)
(* placeholder address, however rows are reused, as long as no request was *)
(* refused an address or died while it waited for one.                     *)
PayableWhileAnswered == Spent("api") + Spent("abort") = 0 => Made \subseteq payable

(* "Once the customer has paid the transaction on the point of sale screen *)
(* will turn green": each paid sale, also one that is paid twice or shown  *)
(* late, unless the XMPP server fails or refuses the confirmation, for     *)
(* then it is not sent again.  Requests may overlap, but not so that two sales of one     *)
(* amount wait at one address: the worker cannot tell their payments       *)
(* apart.                                                                  *)
PaidTurnsGreen ==
    []PendingDistinct =>
        \A s \in Sales : PaidFor(s) ~> (s \in green \/ Spent("xmpp") > 0)

-----------------------------------------------------------------------------
(* The inductive invariants: IInv behind GreenHasItsMoney, whatever runs   *)
(* at the same time; SerialInv behind the properties that need one thread  *)
(* (Serial) and customers who pay once (budget for "again" is 0), with     *)
(* PendingDistinct and ThreadInv, which one thread is enough for.          *)

(* Payment p was sent to the address of sale s, with its amount.           *)
Fits(p, s) ==
    /\ p \in called /\ s \in Made
    /\ saleRow[payFor[p]] = saleRow[s] /\ saleAmount[payFor[p]] = saleAmount[s]

(* What the tables and the payments say of each other.                     *)
SalesInv ==
    /\ payable \subseteq Made
    /\ \A p \in Payments : payFor[p] # NoSale => payFor[p] \in payable
    /\ \A p \in called : payFor[p] # NoSale
    /\ \A s \in Sales : txid[s] # NoPayment => Fits(txid[s], s)
    /\ \A s, t \in Sales : txid[s] # NoPayment /\ txid[s] = txid[t] => s = t
    /\ \A s \in green : txid[s] # NoPayment

(* What a worker knows of its message and of the sale it loaded.           *)
WorkerInv ==
    /\ \A m \in queue : m.payment \in called
    /\ \A w \in Workers :
         /\ held[w] # NoMessage => held[w].payment = wpay[w] /\ wpc[w] \notin {"idle", "down"}
         /\ wpc[w] \notin {"idle", "down"} => wpay[w] \in called
         /\ wpc[w] \in {"save", "notify"} => Fits(wpay[w], wsale[w])
         /\ wpc[w] = "notify" => txid[wsale[w]] # NoPayment

(* The conjunction that every step preserves.                              *)
IInv ==
    /\ TypeOK /\ SalesInv /\ WorkerInv
    /\ \A f \in Faults : budget[f] <= Budget[f]

Serial == \A t, u \in Threads : t = u

(* A row is in use before a thread or a sale refers to it, and the row a   *)
(* thread settled on is free of pending sales of its amount.               *)
ThreadInv ==
    /\ \A s \in Made : address[saleRow[s]] # "none"
    /\ \A t \in Threads :
         /\ \A a \in tfound[t] \cup trow[t] : address[a.row] # "none"
         /\ tpc[t] \in {"generating", "save"} =>
              \A a \in trow[t], s \in Pending :
                  saleAmount[s] = tamount[t] => saleRow[s] # a.row

(* The sale of a payment that has been recorded.                           *)
Recorded(p) == txid[payFor[p]] = p

(* No sale is paid twice.                                                  *)
PaidOnce ==
    /\ budget["again"] = 0
    /\ \A p, q \in Payments : payFor[p] # NoSale /\ payFor[p] = payFor[q] => p = q

(* A worker saves the payment of the very sale, unless that has it already.*)
OwnInv ==
    \A w \in Workers :
        /\ wpc[w] = "save" => wsale[w] = payFor[wpay[w]] \/ Recorded(wpay[w])
        /\ wpc[w] \in {"notify", "ack"} => Recorded(wpay[w])

SerialInv ==
    /\ PendingDistinct /\ ThreadInv /\ PaidOnce
    /\ RecordedByOwnPayment /\ OwnInv /\ NotificationKept

(* Behind PayableWhileAnswered, for one thread: a placeholder row is the   *)
(* one the thread waits for, so that every address it reads is real.       *)
Waited(i) == \E t \in Threads : tpc[t] = "generating" /\ \E a \in trow[t] : a.row = i

AddressInv ==
    /\ \A i \in Rows : address[i] = "placeholder" => Waited(i)
    /\ \A t \in Threads : \A a \in tfound[t] \cup trow[t] : a.address = "real"
    /\ Made \subseteq payable

AnsweredInv == Spent("api") + Spent("abort") = 0 => AddressInv

(* Behind BatchedStaysBatched: unless a callback or a delivery is repeated,*)
(* a notification is with one worker, and the sale this worker is about to *)
(* save for it is still pending.                                           *)
Busy(w) == wpc[w] \notin {"idle", "down"}

OneNotification ==
    /\ \A m, n \in queue : m.payment = n.payment => m = n
    /\ \A v, w \in Workers : Busy(v) /\ Busy(w) /\ wpay[v] = wpay[w] => v = w
    /\ \A w \in Workers, m \in queue : Busy(w) /\ m.payment = wpay[w] => held[w] = m
    /\ \A w \in Workers :
         wpc[w] = "save" /\ wsale[w] = payFor[wpay[w]] => txid[wsale[w]] = NoPayment

BatchedInv ==
    /\ \A s \in batched : txid[s] # NoPayment
    /\ Spent("dup") + Spent("drop") = 0 => OneNotification

=============================================================================

# Bitcoin Retail in TLA+

TLA+ models of Bitcoin Retail (`src/coinexchange`): a Django application with which merchants take bitcoin
at a point of sale and have it paid out in dollars. Every module is written from the source; `PROJECT.json`
names, for every definition, the lines it stands for.

## 1. The system

Processes: the web server (several threads, each request served by one of them), one or more workers
`pay_merchant_batches`, one or more workers `coinbase_recv_callbacks`, the command
`process_coinbase_payout` (started by an operator: nothing in the repository schedules it), the agent beside
bitcoind, the poller of the transaction log. They share a PostgreSQL database and RabbitMQ queues, and call
Coinbase, bitcoind and an XMPP server. In the browser `pos.js` is the point of sale screen, on top of the
libraries Strophe (XMPP over BOSH), Handlebars and qrcode, and the report page has two date fields with
bootstrap-datepicker; JavaScript runs one callback at a time there, and callbacks interleave.

    user -- withdraw --> web process: WithdrawlRequest --> queue bitcoind_rpc --> BitcoindAgent: getbalance,
        sendfrom (bitcoind) --> the client's callback queue --> WithdrawlRequest.status, txid
    merchant -- newsale --> web thread --> ReceiveAddress, SalesTransaction
    customer -- bitcoin --> Coinbase -- callback --> web thread --> queue coinbase_receive_callback
        --> coinbase_recv_callbacks: SalesTransaction.btc_txid --> XMPP --> BOSH, Strophe --> pos.js: the sale's panel turns green
    merchant -- Make Batch --> web thread: TransactionBatch, SalesTransaction.batch --> queue payment_batches
        --> pay_merchant_batches: service fee, sale of the bitcoin (Coinbase), TransactionBatch.coinbase_txid
        --> update_batch_aggregates (this worker, or process_coinbase_payout)

### Components

| Component | State | Operations | What is hard | What makes it correct | Module |
|---|---|---|---|---|---|
| Message queue, `btc/queue/__init__.py` | durable queues of transient messages; one prefetched message per worker | publish, deliver, acknowledge, redeliver | lost connections, broker restarts, redelivery order | a message is handed out until acknowledged, in publication order | `Broker` |
| Batch payout, `pos/lib.py`, `pos/views.py`, `pay_merchant_batches.py`, `process_coinbase_payout.py` | `TransactionBatch`, `SalesTransaction.batch`, the workers' loaded rows, Coinbase's balance | make a batch, publish, commit or roll back, send the fee, sell, save, compute aggregates, acknowledge | message before commit; calls without idempotence key; swallowed exceptions; rows written back as loaded | no batch forgotten, no bitcoin sold twice or unconfirmed, dollars captured match bitcoin sold, every batch paid | `BatchPayout` |
| Point of sale, `account/api/views.py`, `pos/lib.py`, `coinbase_recv_callbacks.py`, `xmpp.py` | `ReceiveAddress`, `SalesTransaction`, web threads, workers, screens | new sale, find or generate an address, list sales, callback, match, record, notify | reuse of addresses by concurrent threads; repeated and redelivered notifications; failures between save, notify and acknowledge | pending sales distinguishable; a payment counts for the sale it was made for, once; paid sales turn green | `PointOfSale` |
| Unexpected payments, `pos/lib.py:145-171` | `UnexpectedPayment` | save a payment no sale waits for | the tests for it come after the access that fails | no payment disappears | section 8 |
| Point of sale screen, `pos/static/pos/pos.js`, `handlebar_http_template.js` | panels, their animations and colours, templates in flight, logins, dialogs | log in, show the history, add a sale, turn green, review a sale | answers in any order; repeated confirmations during an animation; a connection that ends and one that is begun | green only what is paid; a toggled panel comes back; what is confirmed while it is shown turns green | `Screen` on `Stream` |
| XMPP connection, `pos/static/strophe.js` | status, handlers, queue of requests with their rids, error count | log in, poll, send again, throttle, hand stanzas over, disconnect | lost, late and swapped answers; failures counted over all requests; timers | no confirmation lost or handed over twice while the connection is open; a disconnection ends | `Strophe`, which implements `Stream` |
| QR code of a sale, `qr/qrcode.js` | the best mask so far, the modules, the compressor | encode, correct, mask, draw, compress | boundaries: blocks of two lengths, a text that just fits, the compressor's code length | the code scans, the image is the code | `QrData`, `QrImage`, `QrCode`; `QrReader` reads |
| Datepicker of the reports, `bootstrap-datepicker.js` | selected, shown and focused date, view | mouse, keyboard, typing, pasting | short months and year ends; dates shared as objects | what is picked is what is shown; dates after today need Enter or a shared object | `Calendar`, `Datepicker` |
| Templates, `handlebars-v1.3.0.js` | the compilers' stacks, the generated functions | compile, execute opcodes, render | variables reused by nested expressions; contexts handed from block to block | the text is what the tree means | `HbValue` .. `Handlebars` |
| Coinbase tokens, `coinbase/__init__.py` | OAuth access and refresh token, expiry | use, refresh | two threads refresh at once; refresh inside a transaction that is rolled back | the stored refresh token is the one Coinbase accepts | planned: `CoinbaseTokens` |
| RPC to bitcoind and withdrawals, `btc/queue/bitcoind_client.py`, `bitcoind_agent.py`, `btc/clientlib.py`, `WithdrawlView` in `account/api/views.py` | `WithdrawlRequest`, the client's correlation id, callback queues, the agent's command, bitcoind's balances | ask for the balance, save a request, publish a command, wait, time out, health check; check, send, answer, acknowledge | late answers on a shared callback queue; redelivered commands; the check of the balance and the send count different confirmations; uncaught exceptions | an answer belongs to its call; what is recorded is what happened; commands leave the queue | `BitcoindRpc` |
| Transaction log, `btc/agentlib.py`, `poll_pos_transactions.py` | `CoinTxnLog`, the poller's place | store, poll, match | restarts; the same transaction stored twice | every transaction stored once and matched | not modelled |
| Batch arithmetic, `pos/lib.py:269-279, 404-434` | - | fee, sold amount, gains, report | minima, division by zero, NULL columns | sums of the parts | not modelled |
| Merchant accounts and settings, `account/views.py`, `btc/models.py` | settings rows | edit | single writes | - | not planned |
| XMPP authentication, `extauth-md5.py` | none | check a password | - | - | not planned |
| Public pages, templates, static files | none | show | - | - | not planned |
| Payout polling, `pos/lib.py:326-377` | `TransactionBatch` | find the transfer of a batch | superseded: the only call is commented out | - | not planned |

## 2. Modules and how they correspond to the code

`Broker` has the two operators every consumer is written with: the messages that are ready and the one that is
handed out next. A queue is the set of its unacknowledged messages; `pos` is the place in publication order.
Everything else about RabbitMQ is in the actions of the modules that use it: `Deliver` gives a message to a
consumer that has none (`prefetch_count=1`), `Ack` removes it, `Exit`, `WorkerCrash` and `ConnectionLost` make
it ready again at its old place, `BrokerRestart` empties the queue (no publisher sets a delivery mode).

The three modules of the server have the same layout: constants with named assumptions, one variable per column or
local the control depends on, the seeded defects (section 5), the actions of each process in the order of the
code, the environment, `Next`, `Fairness`, the properties and the inductive invariant. A program counter per
process (`rpc`, `tpc`, `wpc`, `cpc`, `apc`) stands for the place between two calls that others can observe: a
query, a save, a publication, a call of Coinbase or bitcoind. What happens between two such places is one
action. Faults are actions that use up `Budget[kind]`; the theorems hold for every budget.

**`BatchPayout`.** `BeginBatch .. Commit` is `views.make_batch` with `lib.make_merchant_batch`. The view is the
only one under `commit_on_success`: the row it inserts and the sales it writes are kept in `rbatch` and `rlist`
until `Commit` makes them visible, and `Locked` makes a second writer of the same sale wait as PostgreSQL does.
`Publish` happens before `Commit`; `PublishRefused` is the exception that the view turns into an ordinary
response, `RequestFails` every other one. `Deliver .. Ack` is `pay_merchant_batches.my_handler` with
`pay_coinbase_batch`: fee, sale and save are three steps, and `wedged` is the handler that swallowed an
exception and returned without acknowledging. `SelectBatches`, `AggregateBatch` and `AggregatesDone` are
`update_batch_aggregates`, run by workers and, from `CronStart`, by `process_coinbase_payout`; the read of a
batch's sales and `b.save()` are one step, between which no property could tell. An amount of bitcoin is the set
of the sales it is a sum of. The other writer of a sale's batch, the stale `s_tx.save()` of `lib.py:203`, is in
`PointOfSale` (`RecordPayment`).

**`PointOfSale`.** `NewSale .. SaveSale` is `newsale` with `make_new_sale` and `get_available_receive_address`:
the addresses free of pending sales of the amount, otherwise a new row that is saved with the placeholder `'1'`
before Coinbase is asked for an address. `Callback` is `coinbase_recv_callback`. `Match`, `RecordPayment`,
`Notify`, `Ack` are the worker `coinbase_recv_callbacks` with `process_coinbase_payment_notification`; the sale
is matched by address and amount only, and `RecordPayment` writes the whole row as it was loaded. `ListSales`
shows the pending sales with the addresses of now when the screen is opened, `Batch` takes a recorded sale out of
the open batch. `NotifyFails` is the post to the XMPP server that raises, and the HTTP error that `send_message`
never looks at. `Pay` is a customer, also a second time for the same sale.

**`BitcoindRpc`.** `Post .. RecordResult` is `WithdrawlView.post` with `get_user_balance` and the calls of
`BitcoindClient`; `IgnoreAnswer` and `Matches` are `_receive_response`, `Timeout` the exception of
`_response_wait` (the correlation id stays in the client), `HealthCheck` the test message of `get_instance`.
`Deliver .. Ack` is `BitcoindAgent._rpc_callback`: a failed `getbalance` becomes an answer, a failed withdrawal
ends the process. `Balance` counts all bitcoin received, `deep` what has five confirmations, `Mature` is a
block being found; a transaction costs its amount and `Fee`, and `Sendable` is what `sendfrom` accepts: an amount
above zero that `deep` covers with the fee. `Amounts` may hold zero and negative amounts, as the form, the view
and the agent's check let them pass. One account has all bitcoin of the wallet.

**`Stream`, `Strophe`.** `Stream` is what a messaging connection promises to the screen: its phases in an order,
and the server's confirmations handed to `onConfirm` while it is open, each at most once. `Strophe` is the library:
`conn` is a `Strophe.Connection` with its `Strophe.Bosh`, `srv` the session at the connection manager (modelled
from how the library uses it, with the answers it keeps for requests that are sent again). The body of a request is the
set of its stanzas; a login puts one of `LoginStanzas` in a body at most, the one the server answers. What a callback does is a composition of functions of `conn` named after the
methods, and every callback is one action: an answer (`Deliver`, `Garble`, `Refuse`, `Lose`), the idle timer
(`Idle`), a backoff timer (`BackoffEnds`). Times are classes: a request is new, fresh, past the secondary or past
the primary timeout. `KeepsStream` is the refinement, with `conn.status` mapped to the phase.

**`Screen`** extends `Stream` with `pos.js`: two connections that behave as `Stream` allows (so that everything
`Strophe` does is included), the AJAX answers in any order, and the panels. An animation of jQuery is an entry of
its panel's queue; `Animate` completes the first one and runs its callback, which is `Turned`.

**`QrData`, `QrImage`, `QrCode`, `QrReader`.** The first two are functions: text to codewords, and pixels to GIF
and base 64. `QrCode` is `make` and `createImgTag` step by step: a mask is tried, the best is kept, a row of
pixels is compressed. `QrReader` is the specification it is checked against, a reader written from the symbol's
geometry and the standard's decoding, not from the encoder.

**`Calendar`, `Datepicker`.** `Calendar` has `moveMonth`, `parseDate`, `formatDate` on dates counted in days;
`Datepicker` has the inputs, one action each. `alias` records which variables hold the same object as `viewDate`,
because the code changes dates in place. JavaScript's `Date` in UTC is external: the first days of years and months
(`NewYear`, `MonthStart`) and back (`YearOf`, `MonthOf`), for every day. The loops of the code (`Settled`, `MoveMany`,
`Moved`, `BackInto`) are functions of the turn, so that they can be proved about. The loop over months runs in years of
twelve and the months that are left (`MoveTwelve`, `MoveMonths`): a decade in one recursion is too deep for TLC's stack.

**`HbValue`, `HbTree`, `HbCompiler`, `HbGenerator`, `HbRuntime`, `Handlebars`.** JavaScript's values and the
built-in helpers; the tree of a template with `Meaning`, the text it stands for; the compiler to opcodes; the code
generator, one operator per opcode with its two stacks; the evaluation of the generated functions. `Handlebars` is
the state machine: a template is chosen, its blocks are compiled inside out, opcode by opcode, and the result is
rendered with a context.

The `MC...` modules give small values to the constants; the `...Proofs` modules extend a component and hold its
theorems.

## 3. Runs, bounds and what they show

| Run | Instance | Question |
|---|---|---|
| `PayoutFaults` | 2 sales, 1 merchant, 1 request at a time, 2 workers and the command, 3 batch ids, one fault of every kind but refusal | are payments made once, in order, for confirmed and committed bitcoin, and are the sums right? |
| `PayoutConcurrent` | 2 requests at once, 1 worker, 5 batch ids, one failed request, one refused message | what survives when requests overlap? |
| `PayoutLive` | 2 merchants with one sale each, 2 workers, one failed Coinbase call, one crash, one lost connection | is every batch paid and, in the end, aggregated for good? |
| `PosFaults` | 2 sales, 2 address rows, 2 amounts, 2 payments, 1 thread, 2 workers; repeated callback, address not given, crash, lost connection, broker restart | are payments credited to the sale they were made for? |
| `PosLive` | 2 threads, 1 worker, 2 payments of 2 sales, or both of one, one dead request, one failed or refused confirmation | does every paid sale turn green? |
| `RpcFaults` | 1 client, 1 agent, 2 withdrawals, 4 calls, amounts -1 and 1 of 2 with a fee of 1; at most two of failing bitcoind, lost connection, broker restart and a dead agent, or a dead client alone | does the record agree with what bitcoind did, and does every command leave the queue? |
| `Strophe` | 1 connection, 2 confirmations, 4 kinds of server; each fault once with two lost answers, or six lost answers | does the library keep the promise of `Stream`, lose nothing, and end? |
| `Screen` | 2 sales, 2 connections, 3 confirmations (one sale is confirmed twice); one click, one repetition or one retry | do panels show what is paid? |
| `QrCode` | 5 sizes, 7 texts from empty to too long, a string table of 127 codes | does the image scan? |
| `Datepicker` | 6 inputs from 31 January 2014; years 1900 to 2100 | are the dates those of a calendar, and which of them can be selected? |
| `Handlebars` | 1580 templates, 16 contexts | does compiled code write what the tree means? |
| `RefusedBatch` | `PayoutFaults` with one refusal | violates "Cancelling batch." |

*Why these bounds.* Two sales are needed for a batch to lose one of its members to another batch and for an
address to be wanted twice; a third adds no relation the properties speak of. Two workers are needed for a
redelivered message to meet its first consumer; one for liveness of the poisoned queue. Three batch ids let one
request fail (an id is lost with a rollback) and still leave two batches. Two amounts make an address reusable
while it is in use. Four calls are two withdrawals with their questions for the balance, so that the late answer of
one meets the question and the command of the other. The amounts are one that `sendfrom` refuses always and one
that the account can pay once, when its bitcoin is confirmed. In the concurrent runs of the server the interleaving is that of the actions, at each query, save and publication.
Strophe's limits are the code's own (two requests at a time, five errors, more than five sends), and six lost answers pass
each of them. A sale confirmed twice is the shortest way to two animations of one panel; a click leaves a dialog
behind that answers can meet. The sizes of code have one block and several, blocks of one and of two lengths, and
the first type with a type number; a table of 127 codes fills up in a small image as the real one, of 4095, does
in a large one. Six inputs are enough to open the picker, leave the shown month, go up to the years, select
and pick what the selection left behind; the proofs of section 6 cover every day on which the page is opened. The templates have one to three statements: whitespace needs a neighbour on both sides, a
clash of variables needs two expressions, a context needs blocks three deep. Every fault occurs once, at any place; two faults of different kinds combine (`RpcFaults`: two at most, by the
constraint `TwoFaults`; as no fault is fair, a behaviour without more of them is a fair one). Counters are bounded by
guards that name the bound: `MaxBatches`, `MaxSales`, `MaxRows`, `MaxCalls`, `MaxInputs`, `FirstYear` and `LastYear`, `MaxSends`, `TableLimit`, and the `Budgets`.

*Deadlock* is checked in the payout runs, where an idle system can always start the command, and in `Handlebars`,
where a compiled template can always be rendered. In the others the merchant, the customers or the users may stop
when the bounds are used up, a connection is closed for good and a QR code is done, so the check is off.

*Symmetry* is used for processes, amounts and payments in safety runs only.

### A violation: where the code and its own text disagree

- `RefusedBatch`: "Post processing queue unavailable.  Cancelling batch." is raised after the batch was saved and is
  caught inside `commit_on_success`: the batch is committed, its sales have left the open batch, nobody will pay.

### Limits of the code that the models contain

The passing properties are conditional where the code is; each condition marks a behaviour of the model.

- `CapturedIsSummed` needs one request at a time: nothing looks at `batch` again between the query for open
  transactions and the saves, so two overlapping requests put one sale in two batches and its bitcoin is sold
  twice. `PayoutConcurrent` shows what remains: what a batch buys for are sales it summed, in another batch too.
- `NoBatchForgotten` and `NotificationKept` except a restart of the broker, which loses every waiting message: none is
  published with a delivery mode.
- `PaidIsAggregated` is checked with one request for each merchant. Two requests that sum the same sales can leave a
  batch without rows, and `update_batch_aggregates` then divides by zero (`AggregateFails`) for every process that
  reaches it.
- `EveryCommandServed` names a withdrawal that passes the agent's check and that `sendfrom` can never make: an amount
  of zero or less, which `WithdrawlRequestForm` and `views.py:118-122` accept, or a balance that leaves no fee. It
  ends every agent and stays at the head of the queue for good; the commands behind it are never served.
- `EveryBatchPaidOrStuck` needs requests that commit: the message is out before the transaction ends. If the
  request then fails, `objects.get` raises outside the handler's `try` (`BatchMissing`), and the message is first in
  the queue again after each restart.
- `PendingDistinct` and `RecordedByOwnPayment` need one web thread: two threads look for pending sales before either
  has saved its own; two sales of one amount share an address and the notification goes to the first of them,
  whoever paid. `PosFaults` has one thread; the case is in the model, and `PosLive` excepts it.
- `RecordedByOwnPayment` and `NotificationKept` need customers who pay a sale once: the second payment of a sale may
  be credited to a newer sale of its address and amount, or overwrite the first one's transaction id.
- `PaymentsBounded`, `SentOncePerDelivery`: a crash or lost connection between a call that moves money and the
  acknowledgement repeats the call (no idempotence key), so that a batch pays its fee, or a withdrawal is sent,
  once per redelivery.
- `EveryBatchPaidOrStuck`: one failed Coinbase call leaves the worker `wedged` with its prefetched message.
- `PaidIsAggregated`: a crash between the save and the aggregates leaves the aggregates to the command. The property
  includes a `batch.save()` that writes older aggregates over the newer ones (a redelivered message, after a lost
  connection): its worker then computes them again.
- `PayableWhileAnswered`: when Coinbase fails to give an address, or the request dies while it waits for one, the
  placeholder row stays available and the next sale shows `bitcoin:1`.
- `BatchedStaysBatched`: a callback that arrives twice, or is redelivered while its first consumer goes on, makes
  a stale row overwrite the batch of a sale.
- `PaidTurnsGreen` is checked without crashes of workers and excepts a failure of XMPP, the silent HTTP error too:
  after the save the confirmation is not sent again.
  It speaks of behaviours in which no two pending sales have the same address and amount: requests that overlap
  can make such sales, and the worker credits the payment of one to the other.
- A notification redelivered after its address was reused can match the newer sale; the unique constraint on
  `btc_txid` then ends the worker at each delivery (`RecordFails`). `RecordedByOwnPayment` shows that, when
  sales are made one at a time and paid once, it never credits that sale.
- `SentOncePerDelivery` lets a refused withdrawal have been sent when its command was redelivered: the second
  execution may refuse what the first has sent.
- A withdrawal whose answer is late stays `not_requested` although it was sent.
- `NoConfirmationLost` excuses a connection that gave up: a request that was sent more than five times is taken from the
  queue without a word (strophe.js:4298), an answer that is not XML is dropped, and five failed requests, each
  "resent automatically until their error count reaches 5", abort all of them, those that did not fail too (4139-4147).
  `errors` is not initialised, so failures count only after the first answer.
- The time limit of a disconnection runs only while the idle timer does; `this.disconnecting` is a property of the
  connection, not of `Bosh`, so the branch of `_onRequestStateChange` that reads it is never taken. A terminating
  answer that comes after a 404 reports CONNFAIL after DISCONNECTED, and pos.js then logs in again.
- `ShownTurnsGreen` speaks of sales that have a panel when the confirmation comes. One that overtakes the template of
  its panel finds nothing, and the panel then comes yellow and stays so, against "will turn green" (admin.html:61-62).
  So does every panel after DISCONNECTED, AUTHFAIL or a failed request for credentials, which pos.js does not answer.
- `PanelReturns` excludes a sale with two panels (it came from the history and from the dialog): each panel is
  toggled three times, and both end up hidden. A text too long for the QR code throws in `generateQR`, and the new
  sale gets no panel.
- `OnlyEnterAndYearPickLate`: the arrow keys check the range with the selected date and focus another, and Enter
  checks nothing, so a date after `endDate` ("all later dates will be disabled", docs/options.rst:67) can be selected.
  After Enter or Escape the view shares the selected date's object, and picking a month or year changes the selection
  unseen: Enter on 31 December 2013 in the view of years, then a click on 2014, selects 1 December 2014 on
  31 January 2014. A statement that named Enter alone held for five inputs; its proof failed at `PickYear`,
  and six inputs are its shortest counterexample. A click does not clear the keyboard's focus, so a later Enter
  toggles the date focused before; a text that cannot be read means today; what was pasted is dropped when the picker
  hides.
- `WritesWhatTheTreeMeans` covers templates outside three cases of the library in which it does not hold: a
  subexpression's variable is overwritten by a path of several parts, or by a second subexpression in a hash, that
  is compiled after it (`lookup` replaces the top variable; `assignToHash` frees it while it is in use); a helper
  that is not registered is looked up on the context the last parameter was read from; a program of one statement
  that writes nothing returns `undefined`, which a block writes. None of the pages' templates is of these shapes.
  `StackIsBalanced` is about the compiler's two stacks and the count of variables, and holds in these cases too: it
  does not say that a value is not overwritten. Helpers are the same operators in the compiled code and in the
  meaning, so a wrong helper would not show.
- `CodeScans` and `ImageShowsCode`: the reader shares the encoder's tables of blocks and of pattern positions and the
  mask functions, so a wrong entry would not show; with a table of 127 codes the code lengths 8 to 12 are not reached.

## 4. Fairness

Weak fairness is assumed for what runs by itself. Payout: a request that was started ends (the web server runs
it), the library's consuming loop gives a worker its next message and the handler's next step, and an ended
worker is started again. Point of sale: Coinbase posts each payment once, workers as above. RPC: agents as
above, and blocks are found. `Strophe`: whatever of the browser's timers, the network and the connection manager
can happen, something does (one weak fairness condition for all of them; faults are bounded and not fair).
`Screen`: AJAX answers come, animations end, and the confirmations of an open connection are handed over, which is
what `ConfirmationArrives` shows of `Strophe`. The restarts are an assumption about the operator: no supervisor is part of the
repository. Nothing is assumed of merchants, customers and users (they may stop at any time), of
`process_coinbase_payout` (nothing schedules it), or of faults.

## 5. Seeded defects

Each property of a passing run has a definition in the same module that changes one mapped action as a
plausible mistake would: a consumer with `no_ack=True` (`DeliverAcknowledges`), an answer taken without
comparing correlation ids (`MatchesAny`), a command sent again after a timeout (`TimeoutRetries`), a batch made
whose aggregates count every sale (`EveryMember`), the amount left out of the match (`MatchingAddress`), a request
taken from the queue before its answer (`Status0RemovesEarly`), QR blocks written one after another
(`BlockAfterBlock`), a month left without settling the day (`MoveOneUnsettled`), and so on.
`PROJECT.json` lists which property refutes which; with the defect in place TLC finds a violation.

## 6. Proofs

All proofs hold for every number of sales, batches, processes, clients, connections and calls and every budget of
faults, from the named assumptions on the constants (bounds are naturals, sentinels are no values, `Workers` and
`Agents` are finite, a confirmation names a sale and is no stanza of the login, the years of the datepicker have three
digits or more and the page is opened in one of them). Each inductive invariant was
checked by TLC on the instance of its run before it was proved.

**`BatchPayoutProofs`.** `IInv` joins the types with what a request has read (`RequestInv`: confirmed sales of
one merchant; an id nobody else writes, `FreshIds`), what committed rows say (`CommittedInv`), what a worker
knows (`WorkerInv`: it got past the lookup only for a committed batch, past the save only for a paid one), and
`SalesCovered`: the sales made plus the workers that have sent a fee and not sold yet never exceed the fees.
`NoBatchForgotten` alone is not inductive: the acknowledgement needs that the worker's batch is paid, the commit
that the message went out before. It gives `TypeCorrect`, `NothingForgotten`, `OnlyConfirmedSold`,
`FeesPrecedeSales`, `PaidOnce`. Three more invariants are proved on top of it:

- `MembersInv`: a sale is in no batch or in a committed one, and the members of a committed batch are among the sales it
  summed, because a request writes what it has read and a worker's stale `batch.save()` writes no sale. It gives
  `CapturedFromSummed`, for overlapping requests too. (The stale `s_tx.save()` of a notification can take a sale out
  of its batch, so that a later batch sums it again; `BatchedForGood` says when it does not.)
- `ReadsAreFresh`, under `OneRequest`: what the only request read is still open when it saves. It gives
  `CapturedSerially`; the two requests of `PayoutConcurrent` show that the hypothesis is needed.
- `MessageInv` and `FeesCovered`: a batch is asked for by one message at a time, which one worker at most holds; the
  fees sent, the workers that may still send one (`Charging`) and the message that waits (`Again`) together never
  exceed one and the crashes and lost connections so far. `FeesBounded` needs this potential because the bound
  alone says nothing of a worker that is about to send.

**`PointOfSaleProofs`.** `IInv` says that a recorded payment fits its sale by address and amount and is recorded
once (`SalesInv`), and that a worker saves only what fits (`WorkerInv`); it holds under any concurrency and
gives `ConfirmedHasItsMoney`. The stronger results need `Serial` (one web thread). With it alone, the row a thread
settled on stays free of pending sales of its amount (`ThreadInv`) and pending sales are distinguishable:
`PendingStaysDistinct`, however often customers pay. `RecordedOwn`, `NothingLost` and `BatchedForGood` also assume
that customers pay a sale once (`Budget["again"] = 0`), which the code does not enforce: then a worker that has
loaded a sale loaded the one that was paid (`OwnInv`). Two more:

- `PayableSerially` with `AddressInv` and `AnsweredInv`: a row with the placeholder is the one the thread is waiting
  for, unless a request was refused or died there. `PosFaults` has no dead request (it would double the run), the
  theorem has.
- `BatchedForGood` with `BatchedInv`: as long as no callback or delivery is repeated, one notification of a payment is
  on its way at a time (`OneNotification`), and a worker that has loaded a row is the only one who will write it.

**`BitcoindRpcProofs`.** Correlation ids are handed out once (`CommandInv`), so a command or answer that carries
the id a client waits for is that client's own and concerns the row it waits with (`OwnCommandInv`); an answer
stays true from the agent to the row because transactions are not undone (`AnswerInv`); and an agent that is
about to acknowledge has put its answer on the queue (`AckInv`). These give `ProcessedSent`, `NoVainWait` and
`TypeCorrect`. `SentAsDelivered` counts: a row is asked for once (`RowInv`: its command has not been made, is on
its way, or is done), and for every row the sends, the executions in progress (`Executing`), the command that waits
(`Again`) and the refusal (`Refused`) together never exceed one and the redeliveries so far (`SendsCovered`): a
refusal is an execution that sent nothing, so the bound of a refused row is lower by one.

**`StreamProofs`.** `HandedOver` is a lemma: what the guards of the abstract `Stream` (`Orders`, `Unseen`) mean. What
it says of the code comes from the two refinements, `StreamKept` and `ScreenUsesStream`.

**`ScreenProofs`.** `ScreenUsesStream` is a refinement: every step of the screen is a step of `Stream` or leaves its
variables alone, so what `Stream` promises (`HandedOverOnce`) holds on the screen. `ScreenInv` is inductive (`ScreenInvariant`) and has a part
for each property:

- `LoginInv`: a login is a request, a timer or a connection, and a connection gives it up when it reports CONNFAIL,
  which it does once. `OneLogin` counts connections in three phases, which is not inductive: a connection that is
  closing may still fail and start the timer.
- `PaidInv`: a turn that waits in a panel's queue was started by a confirmation that was sent, hence of a confirmed
  sale. It gives `GreenWhenPaid`.
- `QueueInv` and `BackInv`: a turn carries all panels its sale had when it was started, its own among them, and a panel
  that is alone will be visible after its queue has run (`Restored`, which looks through the queue with a witness for
  each position, so that no induction over sequences is needed). `AlonePanelReturns` is `BackInv` at the empty queue.
  A second panel of the sale breaks the count of toggles, and the theorem has the hypothesis the code needs.

**`StropheProofs`.** `StreamKept` is the refinement: each callback of `Strophe`, each answer, timer and fault, is a step
of `Stream` or leaves pos.js as it was. By what `Stream` promises the library thus hands a confirmation over once at most,
whatever is lost, late, out of order or sent again. `ConfirmationsKept` and `TypeCorrect` are the invariants of the run.
The only assumption, `MessagesAssumption`, says that a confirmation is no stanza of the login; what a server offers, the
confirmations, `Window` and `Budgets` are arbitrary. None of the three properties is inductive, and all follow from
`Inv` (`SpecInv`), which the connection and the session satisfy between callbacks:

- *Login* (`OneAtATime`, `LoginOnItsWay`): until it is decided the client has one request or one stanza at a time, and the
  answer to it is the only item the server has anywhere. So an answer of the login meets the handler it is for, and no
  two of them, nor one of them and a failure, move the phase twice.
- *Confirmations* (`OnePlace`): each one sent is in the server's queue, in one answer the server keeps, or handed over,
  and in one of these places once. A request that is sent again fetches the same answer, and what is fetched leaves
  with its request, so it is handed over once.
- *Answers* (`Awaited`, `Arrives`): while the connection is open and has given nothing up, the rids that the server holds open, and the
  answers it keeps, belong to requests that are still queued. `NoConfirmationLost` needs this: a confirmation in an answer no
  request asks for would be "on its way" for ever.
- *Endings* (`Standing`, `Terminated`): CONNFAIL is told once, because a connection that is closing does not tell it again and the server ends a
  session once.

A callback is a composition of functions of `conn`, and the proof has the same shape. What each function does to the
record is a lemma (`Fewer`: requests gone; `Asking`: one more; `Closing`, `Ended`, `Decided`: the ways a login or a
connection can go), an answer's children are followed along the recursive function `Handled` by the least position where it would go wrong, each callback
has a lemma that `Done` holds (the invariant after it, and `Moves` or `Handed`: the step of `Stream`), and each action one that it
is `Stepped`. `Stored` and `Handled` are in the model as functions so that they can be reasoned about. The invariant is
that of one connection; `Screen` composes two.

`UpdateTxStatus` is written without recursion for these proofs: several confirmations of one answer meet the same
panels, so each panel gets as many turns as the answer has confirmations of its sale.

**`CalendarProofs`, `DatepickerProofs`.** What a date library is tested for on a few days is proved for all of them.
`DateParts` and `OnlyMonth` say that `MonthStart` and `MonthOf` are inverse to each other: an estimate of the year from
146097 days in 400 years is wrong by one at most (`NewYearBounds`, `YearOfDay`), and so is the month from 31 days
(`MonthOfDay`). On them rest

- `MoveMonthLands`: `moveMonth` by any number of months, forward or back, ends on the same day of the month it moves
  to, or on its last. The loop that steps back (`SettledLands`) ends because a short month is followed by a long one
  of the same year (`ShortMonth`); the loop over months (`MoveMonthsLands`, and cut into years `MoveManyLands`)
  works for any number of them (`LoopExists`, `LoopUnique`).
- `WritesWhatItReads`: `parseDate` reads what `formatDate` writes, whatever today is. Setting the year may turn a
  29 February into 1 March and setting the month may run over; `BackInto` makes up for both.
- `CellsPick`, `DatesReal` and `TypeCorrect` for every state of the picker, from `DateInv` (`DateInvariant`): variables
  that are the same object have the same date, and `endDate`, which is parsed from a text, is today.
- `LateDates`: the property above. A click on a day selects the cell's own date (`CellPicksItself`) and the cell is not
  disabled; the first day of a month that may be picked is not after today (`PickedMonth`); the first day of a month of
  this year may be (`PickedYear`), which leaves the step that the statement names.

`DateStep` uses that dates stay between `FirstYear` and `LastYear`, the model's bound on time, as positive numbers of days;
`Date.UTC` takes a year below 100 for one of the last century, which `YearsAssumption` excludes. Of relative texts
(`Moved`) nothing is proved but that their result is tested against `endDate`.

The theorems hold for concurrent requests, threads, clients, agents and connections where the runs have few:
`ConfirmedHasItsMoney`, `FeesPrecedeSales` and the inductive invariants are not repeated by a run.

*Model-checked only:* the liveness properties (beyond the prover: fairness and ENABLED), so that `Strophe`
also delivers and ends, `ConfirmationArrives` and `DisconnectionEnds`, is checked only; what `QrData`, `QrImage`
and the `Hb...` modules compute, and with it `QrReader` and `Handlebars`: it is recursive, uses
`Bitwise`, or needs induction over the data.

## 7. Plan

1. Done: `Broker`, `BatchPayout`, `PointOfSale`, `BitcoindRpc`, `Stream`, `Screen`, `Strophe`, `Calendar` and
   `Datepicker` with runs and proofs; the QR code and the templates with runs.
2. `CoinbaseTokens` (`coinbase/__init__.py`, `coinbase/views.py`): concurrent refresh, refresh inside a
   transaction that rolls back, exchange of the authorization code. Property: the stored refresh token is the one
   Coinbase accepts, as long as one thread refreshes at a time.
3. Threads that share a `BitcoindClient`; `SaleLifecycle`, the abstraction of a sale (waiting, paid, batched)
   that `PointOfSale` refines for serial threads.

## 8. Not modelled, and why

Unexpected payments: the code that saves them cannot be reached (`lib.py:175` fails first, and an empty result
raises no `DoesNotExist`); `NoMatch` has what happens instead. Signup, profiles, settings forms, `api.js` and public
pages: single writes per request, or none. `extauth-md5.py`: a stateless hash comparison.
`update_pending_coinbase_payouts`: its only call is commented out. The transaction log and its poller, bulk
redemption of transaction inputs (`send_all_tx_inputs`, `rescan_transactions`): how merchants without a Coinbase
wallet are paid; the models take a merchant who has one. The figures of fees, exchange rates, gains and reports: sets of sales stand for
amounts. Bootstrap's widgets: visual effects of a third party.

Of Strophe: attach, pause and resume, `sendIQ`, `flush`, Websocket, the failure of `xhr.open`, the XML builder and
the hash functions. Of the datepicker: options the page does not use, time zones and midnight, and a typed text with a
comma, which `update` splits (bootstrap-datepicker.js:625). Of Handlebars: the
generated lexer and parser (the tree is the input), partials, precompilation, options the pages do not set,
exceptions for malformed paths. The encoding of messages (JSON, YAML), log output and page layout: no property
depends on them.

---------------------------- MODULE BitcoindRpc -----------------------------
(***************************************************************************)
(* Withdrawals over the RPC queue of bitcoind: the web request             *)
(* (account.api.views.WithdrawlView, clientlib.get_user_balance), the      *)
(* client that publishes a command and waits for its answer on a queue of  *)
(* its own (BitcoindClient), the agents beside bitcoind that execute the   *)
(* commands (BitcoindAgent), and the account's bitcoin.                    *)
(*                                                                         *)
(* The withdrawals of one account, which has the whole wallet.  A web      *)
(* process serves one request at a time with its one client.  Every save   *)
(* commits.  A transaction is known by the withdrawal it was made for.     *)
(***************************************************************************)
EXTENDS Integers, FiniteSets, Broker

CONSTANTS
    Clients,      \* web processes, each with its BitcoindClient
    Agents,       \* BitcoindAgent processes
    Amounts,      \* amounts of bitcoin a user asks for, zero and below too
    Funds,        \* bitcoin the account has received
    Fee,          \* what the network takes for a transaction
    MaxRows,      \* bound on the WithdrawlRequest rows
    MaxCalls,     \* bound on the calls made
    NoRow, NoMessage, NoAnswer,
    Budget        \* bound on the faults of each kind, see Faults

(* client: a web process dies;  rpc: bitcoind fails a call;  crash: an     *)
(* agent dies;  drop: an agent loses its connection;  broker: the broker   *)
(* restarts.                                                               *)
Faults == {"client", "rpc", "crash", "drop", "broker"}

Rows == 1..MaxRows
Calls == 1..MaxCalls

(* What the agents answer.  A balance comes with its value, a processed    *)
(* withdrawal with its transaction.                                        *)
Refusals == {"insufficient", "invalid"}
Results == {"balance", "error", "processed"} \cup Refusals
Answers == [call : Calls, result : Results, value : Nat, tx : Rows \cup {NoRow}]

(* A command: getbalance (row is NoRow) or user_withdrawl.  Its position is*)
(* its correlation id.                                                     *)
Messages == [pos : Calls, client : Clients, row : Rows \cup {NoRow}]

ASSUME BoundsAssumption == MaxRows \in Nat /\ MaxCalls \in Nat
ASSUME FundsAssumption == Funds \in Nat /\ Fee \in Nat /\ Amounts \subseteq Int
ASSUME NullsAssumption ==
    /\ NoRow \notin Rows /\ NoMessage \notin Messages /\ NoAnswer \notin Answers
ASSUME BudgetAssumption == Budget \in [Faults -> Nat]
ASSUME AgentsAssumption == IsFiniteSet(Agents)

VARIABLES
    \* the database
    amount,       \* WithdrawlRequest.amount
    valid,        \* rows whose to_address bitcoind accepts
    status,       \* WithdrawlRequest.status ("none": no such row)
    txid,         \* WithdrawlRequest.txid
    btcBalance,   \* CoinExchangeUser.btc_balance
    \* the web processes
    cpc,          \* where client c is
    corr,         \* correlation_id (0: None)
    camount,      \* the amount the request asks for
    crow,         \* the row it saved
    canswer,      \* the answer it returned from user_withdrawl
    \* the broker
    calls,        \* how many commands were ever published
    queue,        \* unacknowledged messages of bitcoind_rpc
    held,         \* the message delivered to each agent
    replies,      \* the answers on the callback queue of client c
    \* the agents
    apc,          \* where agent a is
    amsg,         \* the command it executes
    areply,       \* its answer
    \* bitcoind
    deep,         \* received bitcoin with five confirmations
    spent,        \* bitcoin that has left the account
    sends,        \* transactions made for a withdrawal
    budget        \* faults that may still happen

dbVars     == <<amount, valid, status, txid, btcBalance>>
clientVars == <<cpc, corr, camount, crow, canswer>>
brokerVars == <<calls, queue, held, replies>>
agentVars  == <<apc, amsg, areply>>
coinVars   == <<deep, spent, sends>>
vars == <<dbVars, clientVars, brokerVars, agentVars, coinVars, budget>>

Spend(kind) ==
    /\ budget[kind] > 0
    /\ budget' = [budget EXCEPT ![kind] = @ - 1]

Spent(kind) == Budget[kind] - budget[kind]

Saved == {r \in Rows : status[r] # "none"}

Init ==
    /\ amount = [r \in Rows |-> 0] /\ valid = {}
    /\ status = [r \in Rows |-> "none"]
    /\ txid = [r \in Rows |-> NoRow]
    /\ btcBalance = 0
    /\ cpc = [c \in Clients |-> "idle"]
    /\ corr = [c \in Clients |-> 0]
    /\ camount = [c \in Clients |-> 0]
    /\ crow = [c \in Clients |-> NoRow]
    /\ canswer = [c \in Clients |-> NoAnswer]
    /\ calls = 0 /\ queue = {}
    /\ held = [a \in Agents |-> NoMessage]
    /\ replies = [c \in Clients |-> {}]
    /\ apc = [a \in Agents |-> "idle"]
    /\ amsg = [a \in Agents |-> NoMessage]
    /\ areply = [a \in Agents |-> NoAnswer]
    /\ deep \in 0..Funds /\ spent = 0
    /\ sends = [r \in Rows |-> 0]
    /\ budget = Budget

-----------------------------------------------------------------------------
(* Seeded defects: definitions as they would be after a plausible mistake. *)
(* A property that none of them violates would say nothing of this program.*)

(* The correlation id of an answer is not looked at.                       *)
MatchesAny(c, m) == m.call \in Calls

(* A command without an answer is sent again.                              *)
TimeoutRetries(c) ==
    /\ cpc[c] = "request" /\ calls < MaxCalls
    /\ calls' = calls + 1
    /\ corr' = [corr EXCEPT ![c] = calls + 1]
    /\ queue' = queue \cup {[pos |-> calls + 1, client |-> c, row |-> crow[c]]}
    /\ UNCHANGED <<dbVars, cpc, camount, crow, canswer, held, replies, agentVars, coinVars,
                   budget>>

(* basic_consume with no_ack=True: delivered is acknowledged.              *)
DeliverAcknowledges(a) ==
    /\ apc[a] = "idle"
    /\ \E m \in NextUp(queue, held) :
         /\ held' = [held EXCEPT ![a] = m]
         /\ amsg' = [amsg EXCEPT ![a] = m]
         /\ queue' = queue \ {m}
    /\ apc' = [apc EXCEPT ![a] = "check"]
    /\ UNCHANGED <<dbVars, clientVars, calls, replies, areply, coinVars, budget>>

(* What sendfrom accepts: more than nothing, and covered with its fee by   *)
(* bitcoin of five confirmations.                                          *)
Sendable(r) == amount[r] > 0 /\ deep - spent >= amount[r] + Fee

(* The exception is caught around the transaction alone.                   *)
SendRaisesCaught(a) ==
    /\ apc[a] = "send"
    /\ ~Sendable(amsg[a].row)
    /\ areply' = [areply EXCEPT ![a] = [call |-> amsg[a].pos, result |-> "processed",
                                       value |-> 0, tx |-> amsg[a].row]]
    /\ apc' = [apc EXCEPT ![a] = "reply"]
    /\ UNCHANGED <<dbVars, clientVars, brokerVars, amsg, coinVars, budget>>

(* The exception is printed, and the handler returns without acknowledging.*)
SendRaisesSwallowed(a) ==
    /\ apc[a] = "send"
    /\ ~Sendable(amsg[a].row)
    /\ apc' = [apc EXCEPT ![a] = "wedged"]
    /\ UNCHANGED <<dbVars, clientVars, brokerVars, amsg, areply, coinVars, budget>>

-----------------------------------------------------------------------------
(* The web process: WithdrawlView.post with its BitcoindClient.            *)

Waiting(c) == cpc[c] \in {"balance", "request"}

(* _send_command: a new correlation id, and the command on the queue.      *)
SendCommand(c, row) ==
    /\ calls < MaxCalls
    /\ calls' = calls + 1
    /\ corr' = [corr EXCEPT ![c] = calls + 1]
    /\ queue' = queue \cup {[pos |-> calls + 1, client |-> c, row |-> row]}

(* A withdrawal is posted; get_user_balance asks for the balance.  The form*)
(* takes an amount below zero, and "0" is a text that is not empty.        *)
Post(c, n) ==
    /\ cpc[c] = "idle"
    /\ SendCommand(c, NoRow)
    /\ cpc' = [cpc EXCEPT ![c] = "balance"]
    /\ camount' = [camount EXCEPT ![c] = n]
    /\ UNCHANGED <<dbVars, crow, canswer, held, replies, agentVars, coinVars, budget>>

(* _receive_response: the answer of an earlier call is not kept.           *)
Matches(c, m) == m.call = corr[c]

IgnoreAnswer(c) ==
    /\ Waiting(c)
    /\ \E m \in replies[c] :
         /\ ~Matches(c, m)
         /\ replies' = [replies EXCEPT ![c] = @ \ {m}]
    /\ UNCHANGED <<dbVars, clientVars, calls, queue, held, agentVars, coinVars, budget>>

(* The balance is saved with the user and compared; what bitcoind says of  *)
(* an error is greater than every number.  The form may have errors.       *)
BalanceAnswered(c) ==
    /\ cpc[c] = "balance"
    /\ \E m \in replies[c] :
         /\ Matches(c, m)
         /\ replies' = [replies EXCEPT ![c] = @ \ {m}]
         /\ btcBalance' = IF m.result = "balance" THEN m.value ELSE btcBalance
         /\ \/ cpc' = [cpc EXCEPT ![c] = "idle"]
            \/ /\ ~(m.result = "balance" /\ camount[c] > m.value)
               /\ cpc' = [cpc EXCEPT ![c] = "save"]
    /\ corr' = [corr EXCEPT ![c] = 0]
    /\ UNCHANGED <<amount, valid, status, txid, camount, crow, canswer, calls, queue, held,
                   agentVars, coinVars, budget>>

(* The row is saved as "not_requested" with the address that was entered.  *)
SaveRequest(c) ==
    /\ cpc[c] = "save"
    /\ \E r \in Rows \ Saved :
         /\ \A q \in Rows \ Saved : r <= q
         /\ amount' = [amount EXCEPT ![r] = camount[c]]
         /\ status' = [status EXCEPT ![r] = "not_requested"]
         /\ valid' \in {valid, valid \cup {r}}
         /\ crow' = [crow EXCEPT ![c] = r]
    /\ cpc' = [cpc EXCEPT ![c] = "send"]
    /\ UNCHANGED <<txid, btcBalance, corr, camount, canswer, brokerVars, agentVars, coinVars,
                   budget>>

(* user_withdrawl publishes the command.                                   *)
SendRequest(c) ==
    /\ cpc[c] = "send"
    /\ SendCommand(c, crow[c])
    /\ cpc' = [cpc EXCEPT ![c] = "request"]
    /\ UNCHANGED <<dbVars, camount, crow, canswer, held, replies, agentVars, coinVars, budget>>

RequestAnswered(c) ==
    /\ cpc[c] = "request"
    /\ \E m \in replies[c] :
         /\ Matches(c, m)
         /\ replies' = [replies EXCEPT ![c] = @ \ {m}]
         /\ canswer' = [canswer EXCEPT ![c] = m]
    /\ corr' = [corr EXCEPT ![c] = 0]
    /\ cpc' = [cpc EXCEPT ![c] = "record"]
    /\ UNCHANGED <<dbVars, camount, crow, calls, queue, held, agentVars, coinVars, budget>>

EndPost(c) ==
    /\ cpc' = [cpc EXCEPT ![c] = "idle"]
    /\ camount' = [camount EXCEPT ![c] = 0]
    /\ crow' = [crow EXCEPT ![c] = NoRow]
    /\ canswer' = [canswer EXCEPT ![c] = NoAnswer]

(* The result and the transaction are saved with the row.                  *)
RecordResult(c) ==
    /\ cpc[c] = "record"
    /\ status' = [status EXCEPT ![crow[c]] = canswer[c].result]
    /\ txid' = [txid EXCEPT ![crow[c]] = canswer[c].tx]
    /\ EndPost(c)
    /\ UNCHANGED <<amount, valid, btcBalance, corr, brokerVars, agentVars, coinVars, budget>>

(* _response_wait raises after rpc_timeout: the request fails, the command *)
(* stays on the queue and the correlation id in the client.                *)
Timeout(c) ==
    /\ Waiting(c)
    /\ EndPost(c)
    /\ UNCHANGED <<dbVars, corr, brokerVars, agentVars, coinVars, budget>>

(* get_instance after 30 seconds: the client reads its queue to the end, or*)
(* is replaced by one with an empty queue.                                 *)
HealthCheck(c) ==
    /\ cpc[c] \in {"idle", "send"} /\ replies[c] # {}
    /\ replies' = [replies EXCEPT ![c] = {}]
    /\ corr' = [corr EXCEPT ![c] = 0]
    /\ UNCHANGED <<dbVars, cpc, camount, crow, canswer, calls, queue, held, agentVars, coinVars,
                   budget>>

(* The callback queue is exclusive: it goes with the process.              *)
ClientDies(c) ==
    /\ cpc[c] # "idle"
    /\ Spend("client")
    /\ EndPost(c)
    /\ corr' = [corr EXCEPT ![c] = 0]
    /\ replies' = [replies EXCEPT ![c] = {}]
    /\ UNCHANGED <<dbVars, calls, queue, held, agentVars, coinVars>>

-----------------------------------------------------------------------------
(* The agent: _rpc_callback.                                               *)

Deliver(a) ==
    /\ apc[a] = "idle"
    /\ \E m \in NextUp(queue, held) :
         /\ held' = [held EXCEPT ![a] = m]
         /\ amsg' = [amsg EXCEPT ![a] = m]
    /\ apc' = [apc EXCEPT ![a] = "check"]
    /\ UNCHANGED <<dbVars, clientVars, calls, queue, replies, areply, coinVars, budget>>

Answer(a, result, value, tx) ==
    /\ areply' = [areply EXCEPT ![a] =
                    [call |-> amsg[a].pos, result |-> result, value |-> value, tx |-> tx]]
    /\ apc' = [apc EXCEPT ![a] = "reply"]

(* getbalance counts what has one confirmation.                            *)
Balance == Funds - spent

Query(a) ==
    /\ apc[a] = "check" /\ amsg[a].row = NoRow
    /\ Answer(a, "balance", Balance, NoRow)
    /\ UNCHANGED <<dbVars, clientVars, brokerVars, amsg, coinVars, budget>>

(* The exception of a command that is passed through becomes the answer.   *)
QueryFails(a) ==
    /\ apc[a] = "check" /\ amsg[a].row = NoRow
    /\ Spend("rpc")
    /\ Answer(a, "error", 0, NoRow)
    /\ UNCHANGED <<dbVars, clientVars, brokerVars, amsg, coinVars>>

(* The balance is compared again, then the address.                        *)
CheckWithdrawal(a) ==
    LET r == amsg[a].row
    IN  /\ apc[a] = "check" /\ r # NoRow
        /\ \/ /\ Balance < amount[r]
              /\ Answer(a, "insufficient", 0, NoRow)
           \/ /\ Balance >= amount[r] /\ r \notin valid
              /\ Answer(a, "invalid", 0, NoRow)
           \/ /\ Balance >= amount[r] /\ r \in valid
              /\ apc' = [apc EXCEPT ![a] = "send"]
              /\ UNCHANGED areply
        /\ UNCHANGED <<dbVars, clientVars, brokerVars, amsg, coinVars, budget>>

(* A transaction of bitcoind for withdrawal r.                             *)
Transact(r) ==
    /\ sends' = [sends EXCEPT ![r] = @ + 1]
    /\ spent' = spent + amount[r] + Fee

(* sendfrom with minconf=5.                                                *)
SendFrom(a) ==
    LET r == amsg[a].row
    IN  /\ apc[a] = "send"
        /\ Sendable(r)
        /\ Transact(r)
        /\ Answer(a, "processed", 0, r)
        /\ UNCHANGED <<dbVars, clientVars, brokerVars, amsg, deep, budget>>

(* The process ends; the broker takes back the message it held.            *)
Exit(a) ==
    /\ apc' = [apc EXCEPT ![a] = "down"]
    /\ held' = [held EXCEPT ![a] = NoMessage]
    /\ amsg' = [amsg EXCEPT ![a] = NoMessage]
    /\ areply' = [areply EXCEPT ![a] = NoAnswer]

(* The balance of the check has too few confirmations, does not cover the  *)
(* fee or was spent by another agent, or the amount is not above zero:     *)
(* sendfrom raises, nothing catches it.                                    *)
SendRaises(a) ==
    /\ apc[a] = "send"
    /\ ~Sendable(amsg[a].row)
    /\ Exit(a)
    /\ UNCHANGED <<dbVars, clientVars, calls, queue, replies, coinVars, budget>>

(* Any other failure of bitcoind during a withdrawal, sent or not sent.    *)
BitcoindFails(a) ==
    /\ Spend("rpc")
    /\ \/ /\ apc[a] = "check" /\ amsg[a].row # NoRow
          /\ UNCHANGED <<spent, sends>>
       \/ /\ apc[a] = "send" /\ Sendable(amsg[a].row)
          /\ Transact(amsg[a].row) \/ UNCHANGED <<spent, sends>>
    /\ Exit(a)
    /\ UNCHANGED <<dbVars, clientVars, calls, queue, replies, deep>>

(* The answer goes to the queue reply_to names, then the command is done.  *)
Reply(a) ==
    /\ apc[a] = "reply" /\ held[a] # NoMessage
    /\ replies' = [replies EXCEPT ![amsg[a].client] = @ \cup {areply[a]}]
    /\ apc' = [apc EXCEPT ![a] = "ack"]
    /\ UNCHANGED <<dbVars, clientVars, calls, queue, held, amsg, areply, coinVars, budget>>

Ack(a) ==
    /\ apc[a] = "ack" /\ held[a] # NoMessage
    /\ queue' = queue \ {held[a]}
    /\ held' = [held EXCEPT ![a] = NoMessage]
    /\ amsg' = [amsg EXCEPT ![a] = NoMessage]
    /\ areply' = [areply EXCEPT ![a] = NoAnswer]
    /\ apc' = [apc EXCEPT ![a] = "idle"]
    /\ UNCHANGED <<dbVars, clientVars, calls, replies, coinVars, budget>>

(* The connection is found to be gone: the agent ends.                     *)
ConnectionGone(a) ==
    /\ apc[a] \in {"reply", "ack"} /\ held[a] = NoMessage
    /\ Exit(a)
    /\ UNCHANGED <<dbVars, clientVars, calls, queue, replies, coinVars, budget>>

-----------------------------------------------------------------------------
(* The environment.                                                        *)

AgentCrash(a) ==
    /\ apc[a] # "down"
    /\ Spend("crash")
    /\ Exit(a)
    /\ UNCHANGED <<dbVars, clientVars, calls, queue, replies, coinVars>>

(* The broker gives up on the connection while the agent goes on.          *)
ConnectionLost(a) ==
    /\ held[a] # NoMessage
    /\ Spend("drop")
    /\ held' = [held EXCEPT ![a] = NoMessage]
    /\ UNCHANGED <<dbVars, clientVars, calls, queue, replies, agentVars, coinVars>>

(* Messages and callback queues are lost, and every connection: a client   *)
(* that waits raises.                                                      *)
BrokerRestart ==
    LET waiting == {c \in Clients : Waiting(c)}
    IN  /\ Spend("broker")
        /\ queue' = {}
        /\ replies' = [c \in Clients |-> {}]
        /\ held' = [a \in Agents |-> NoMessage]
        /\ apc' = [a \in Agents |-> IF apc[a] = "idle" THEN "down" ELSE apc[a]]
        /\ cpc' = [c \in Clients |-> IF c \in waiting THEN "idle" ELSE cpc[c]]
        /\ camount' = [c \in Clients |-> IF c \in waiting THEN 0 ELSE camount[c]]
        /\ crow' = [c \in Clients |-> IF c \in waiting THEN NoRow ELSE crow[c]]
        /\ UNCHANGED <<dbVars, corr, canswer, calls, amsg, areply, coinVars>>

Restart(a) ==
    /\ apc[a] = "down"
    /\ apc' = [apc EXCEPT ![a] = "idle"]
    /\ UNCHANGED <<dbVars, clientVars, brokerVars, amsg, areply, coinVars, budget>>

(* Blocks are found: what was received has its confirmations.              *)
Mature ==
    /\ deep # Funds
    /\ deep' = Funds
    /\ UNCHANGED <<dbVars, clientVars, brokerVars, agentVars, spent, sends, budget>>

-----------------------------------------------------------------------------
ClientStep(c) ==
    \/ \E n \in Amounts : Post(c, n)
    \/ IgnoreAnswer(c)
    \/ BalanceAnswered(c)
    \/ SaveRequest(c)
    \/ SendRequest(c)
    \/ RequestAnswered(c)
    \/ RecordResult(c)
    \/ Timeout(c)
    \/ HealthCheck(c)

AgentStep(a) ==
    \/ Deliver(a)
    \/ Query(a)
    \/ CheckWithdrawal(a)
    \/ SendFrom(a)
    \/ SendRaises(a)
    \/ Reply(a)
    \/ Ack(a)
    \/ ConnectionGone(a)

Next ==
    \/ \E c \in Clients : ClientStep(c) \/ ClientDies(c)
    \/ \E a \in Agents : AgentStep(a) \/ QueryFails(a) \/ BitcoindFails(a)
    \/ \E a \in Agents : AgentCrash(a) \/ ConnectionLost(a) \/ Restart(a)
    \/ BrokerRestart
    \/ Mature

Spec == Init /\ [][Next]_vars

(* The agent's library loop hands it the next message, its operator starts *)
(* it again, and the network finds blocks.  Clients need not do anything.  *)
Fairness ==
    /\ \A a \in Agents : WF_vars(AgentStep(a)) /\ WF_vars(Restart(a))
    /\ WF_vars(Mature)

FairSpec == Spec /\ Fairness

-----------------------------------------------------------------------------
(* Properties.                                                             *)

ClientStates == {"idle", "balance", "save", "send", "request", "record"}
AgentStates == {"down", "idle", "check", "send", "reply", "ack"}

(* Every variable has its type.                                            *)
TypeOK ==
    /\ amount \in [Rows -> Amounts \cup {0}] /\ valid \subseteq Rows
    /\ status \in [Rows -> {"none", "not_requested", "processed"} \cup Refusals]
    /\ txid \in [Rows -> Rows \cup {NoRow}]
    /\ btcBalance \in Nat
    /\ cpc \in [Clients -> ClientStates]
    /\ corr \in [Clients -> Calls \cup {0}]
    /\ camount \in [Clients -> Amounts \cup {0}]
    /\ crow \in [Clients -> Rows \cup {NoRow}]
    /\ canswer \in [Clients -> Answers \cup {NoAnswer}]
    /\ calls \in 0..MaxCalls /\ queue \subseteq Messages
    /\ held \in [Agents -> Messages \cup {NoMessage}]
    /\ replies \in [Clients -> SUBSET Answers]
    /\ apc \in [Agents -> AgentStates]
    /\ amsg \in [Agents -> Messages \cup {NoMessage}]
    /\ areply \in [Agents -> Answers \cup {NoAnswer}]
    /\ deep \in 0..Funds /\ spent \in 0..deep
    /\ sends \in [Rows -> Nat]
    /\ budget \in [Faults -> Nat]

(* Answers arrive after their caller has given up and commands are         *)
(* executed twice, yet a withdrawal recorded as processed was sent, and    *)
(* the transaction recorded with it is its own.                            *)
ProcessedWasSent ==
    \A r \in Rows : status[r] = "processed" => sends[r] > 0 /\ txid[r] = r

(* A withdrawal is sent once, and once more at most for each redelivery of *)
(* its command; one that is recorded as refused kept its bitcoin, unless a *)
(* command was redelivered: the answer is that of the last execution.      *)
Redeliveries == Spent("crash") + Spent("drop") + Spent("rpc")
SentOncePerDelivery ==
    \A r \in Rows : sends[r] <= (IF status[r] \in Refusals THEN 0 ELSE 1) + Redeliveries

(* The answer is published before the command is acknowledged: until the   *)
(* broker restarts, a client waits for a command that is still to be       *)
(* executed or for an answer that is on its queue, never for nothing.      *)
NeverWaitsInVain ==
    \A c \in Clients : Waiting(c) =>
        \/ \E m \in queue : m.pos = corr[c]
        \/ \E m \in replies[c] : m.call = corr[c]
        \/ Spent("broker") > 0

(* What the agent's check lets pass and sendfrom refuses whatever blocks   *)
(* are found: nothing or less, or a balance that leaves no fee.            *)
Unpayable(r) ==
    /\ r \in valid /\ Balance >= amount[r]
    /\ amount[r] <= 0 \/ Balance < amount[r] + Fee

(* A command leaves the queue in the end, although every agent that tries  *)
(* a withdrawal of unconfirmed bitcoin dies of it and returns it to the    *)
(* head of the queue.  Only a withdrawal that sendfrom can never make stays*)
(* there for good, and stops the commands behind it.                       *)
EveryCommandServed ==
    \A k \in Calls : (\E m \in queue : m.pos = k) ~>
        \/ ~(\E m \in queue : m.pos = k)
        \/ [](\E m \in queue : m.pos <= k /\ m.row # NoRow /\ Unpayable(m.row))

-----------------------------------------------------------------------------
(* The inductive invariant behind ProcessedWasSent and NeverWaitsInVain.   *)

Busy(a) == apc[a] \notin {"idle", "down"}

(* Correlation ids are handed out once, and an agent works on the command  *)
(* it was handed.                                                          *)
CommandInv ==
    /\ \A m \in queue : m.pos <= calls
    /\ \A c \in Clients :
         /\ corr[c] <= calls
         /\ \A n \in replies[c] : n.call <= calls
         /\ cpc[c] \in {"send", "request", "record"} => crow[c] \in Rows
    /\ \A a \in Agents :
         /\ Busy(a) => amsg[a] \in Messages /\ amsg[a].pos <= calls
         /\ held[a] # NoMessage => Busy(a) /\ held[a] = amsg[a]
         /\ apc[a] = "send" => amsg[a].row # NoRow

(* The row of the command that client c waits for.                         *)
Expected(c) == IF cpc[c] = "request" THEN crow[c] ELSE NoRow

IsFor(m, c) == m.client = c /\ m.row = Expected(c)

(* An answer to a withdrawal of that row, which tells the truth.           *)
Fits(n, row) ==
    /\ row # NoRow => n.result \in {"processed"} \cup Refusals
    /\ n.result = "processed" => n.tx = row
Truthful(n) == n.result = "processed" => n.tx \in Rows /\ sends[n.tx] > 0

(* The command with the correlation id of a waiting client is its own.     *)
OwnCommandInv ==
    \A c \in Clients : Waiting(c) =>
        /\ \A m \in queue : m.pos = corr[c] => IsFor(m, c)
        /\ \A a \in Agents : Busy(a) /\ amsg[a].pos = corr[c] => IsFor(amsg[a], c)

(* So is the answer, from the agent through the queue to the row.          *)
AnswerInv ==
    /\ \A a \in Agents : apc[a] \in {"reply", "ack"} =>
         /\ areply[a] \in Answers /\ areply[a].call = amsg[a].pos
         /\ Fits(areply[a], amsg[a].row) /\ Truthful(areply[a])
    /\ \A c \in Clients :
         /\ \A n \in replies[c] :
              /\ Truthful(n)
              /\ Waiting(c) /\ n.call = corr[c] => Fits(n, Expected(c))
         /\ cpc[c] = "record" =>
              canswer[c] \in Answers /\ Fits(canswer[c], crow[c]) /\ Truthful(canswer[c])

Answered(c) ==
    \/ \E n \in replies[c] : n.call = corr[c]
    \/ Spent("broker") > 0

(* An agent about to acknowledge has answered.                             *)
AckInv ==
    \A a \in Agents, c \in Clients :
        apc[a] = "ack" /\ Waiting(c) /\ corr[c] = amsg[a].pos => Answered(c)

(* The conjunction that every step preserves.                              *)
IInv ==
    /\ TypeOK
    /\ \A f \in Faults : budget[f] <= Budget[f]
    /\ CommandInv /\ OwnCommandInv /\ AnswerInv /\ AckInv
    /\ ProcessedWasSent /\ NeverWaitsInVain

(* Behind SentOncePerDelivery.  One command for each row, with one agent;  *)
(* a row that a client has saved and not sent a command for is untouched.  *)
Untouched(r) ==
    /\ \A m \in queue : m.row # r
    /\ \A a \in Agents : Busy(a) => amsg[a].row # r
    /\ sends[r] = 0 /\ status[r] \notin Refusals

RowInv ==
    /\ \A r \in Rows \ Saved : Untouched(r)
    /\ \A c \in Clients :
         /\ crow[c] # NoRow => crow[c] \in Saved
         /\ cpc[c] = "send" => Untouched(crow[c])
         /\ \A d \in Clients : crow[c] = crow[d] => c = d \/ crow[c] = NoRow

DeliveryInv ==
    /\ \A m, n \in queue : m.row = n.row => m = n \/ m.row = NoRow
    /\ \A a \in Agents :
         /\ held[a] # NoMessage => held[a] \in queue
         /\ \A b \in Agents : held[a] = held[b] => a = b \/ held[a] = NoMessage

(* The agents that may still send withdrawal r, the one more that will when*)
(* its command is ready for delivery, and the one less that was refused.   *)
Executing(r) == {a \in Agents : apc[a] \in {"check", "send"} /\ amsg[a].row = r}
Again(r) == IF \E m \in Ready(queue, held) : m.row = r THEN 1 ELSE 0

Refused(r) ==
    \/ status[r] \in Refusals
    \/ \E a \in Agents :
         apc[a] \in {"reply", "ack"} /\ amsg[a].row = r /\ areply[a].result \in Refusals
    \/ \E c \in Clients :
         /\ crow[c] = r
         /\ \/ cpc[c] = "record" /\ canswer[c].result \in Refusals
            \/ /\ cpc[c] = "request"
               /\ \E n \in replies[c] : n.call = corr[c] /\ n.result \in Refusals

(* Only a redelivery makes one more execution of a command.                *)
SendsCovered ==
    \A r \in Rows :
        sends[r] + Cardinality(Executing(r)) + Again(r) + (IF Refused(r) THEN 1 ELSE 0)
            <= 1 + Redeliveries

=============================================================================

------------------------- MODULE BitcoindRpcProofs --------------------------
(***************************************************************************)
(* Theorems about BitcoindRpc, for every number of clients and agents, of  *)
(* withdrawals and calls, and every budget of faults.                      *)
(***************************************************************************)
EXTENDS BitcoindRpc, FiniteSetTheorems, TLAPS

USE BoundsAssumption, FundsAssumption, NullsAssumption, BudgetAssumption

-----------------------------------------------------------------------------
(* Faults only use up the budget.                                          *)
LEMMA SpendDecreases ==
    ASSUME budget \in [Faults -> Nat], NEW kind \in Faults, Spend(kind)
    PROVE  /\ budget' \in [Faults -> Nat]
           /\ \A f \in Faults : budget'[f] <= budget[f]
  BY DEF Spend

(* A busy agent has a command.                                             *)
LEMMA BusyHasCommand ==
    ASSUME IInv, NEW a \in Agents, Busy(a)
    PROVE  amsg[a] \in Messages
  BY DEF IInv, CommandInv

(* A published command is a message with a new correlation id.             *)
LEMMA CommandTyped ==
    ASSUME TypeOK, NEW c \in Clients, NEW row \in Rows \cup {NoRow}, SendCommand(c, row)
    PROVE  /\ calls' \in 0..MaxCalls /\ queue' \subseteq Messages
           /\ corr' \in [Clients -> Calls \cup {0}]
<1>1. calls + 1 \in Calls
  BY DEF TypeOK, SendCommand, Calls
<1>2. [pos |-> calls + 1, client |-> c, row |-> row] \in Messages
  BY <1>1 DEF Messages
<1> QED
  BY <1>1, <1>2 DEF TypeOK, SendCommand, Calls

(* The answer to a command carries its correlation id.                     *)
LEMMA AnswerTyped ==
    ASSUME TypeOK, NEW a \in Agents, amsg[a] \in Messages,
           NEW result \in Results, NEW value \in Nat, NEW tx \in Rows \cup {NoRow},
           Answer(a, result, value, tx)
    PROVE  /\ areply' \in [Agents -> Answers \cup {NoAnswer}]
           /\ apc' \in [Agents -> AgentStates]
<1>1. [call |-> amsg[a].pos, result |-> result, value |-> value, tx |-> tx] \in Answers
  BY DEF Messages, Answers
<1> QED
  BY <1>1 DEF TypeOK, Answer, AgentStates

(* A transaction of what sendfrom accepts leaves no debt.                  *)
LEMMA TransactTyped ==
    ASSUME TypeOK, NEW r \in Rows, Transact(r), Sendable(r)
    PROVE  sends' \in [Rows -> Nat] /\ spent' \in 0..deep
<1>1. amount[r] \in Amounts \cup {0}
  BY DEF TypeOK
<1>2. amount[r] \in Int /\ Fee \in Nat
  <2>1. Amounts \subseteq Int /\ Fee \in Nat
    BY FundsAssumption DEF FundsAssumption
  <2>2. \A n \in Amounts \cup {0} : n \in Int
    BY <2>1
  <2> QED
    BY <1>1, <2>1, <2>2
<1>3. deep \in Nat /\ spent \in Nat /\ sends \in [Rows -> Nat]
  BY FundsAssumption DEF FundsAssumption, TypeOK
<1>4. spent' = spent + amount[r] + Fee /\ amount[r] > 0 /\ deep - spent >= amount[r] + Fee
  BY DEF Transact, Sendable
<1>5. spent' \in 0..deep
  BY <1>2, <1>3, <1>4
<1>6. sends' \in [Rows -> Nat]
  BY <1>3 DEF Transact
<1> QED
  BY <1>5, <1>6

(* A request that ends leaves nothing behind.                              *)
LEMMA EndPostTyped ==
    ASSUME TypeOK, NEW c \in Clients, EndPost(c)
    PROVE  /\ cpc' \in [Clients -> ClientStates]
           /\ camount' \in [Clients -> Amounts \cup {0}]
           /\ crow' \in [Clients -> Rows \cup {NoRow}]
           /\ canswer' \in [Clients -> Answers \cup {NoAnswer}]
  BY DEF TypeOK, EndPost, ClientStates

(* So does an agent.                                                       *)
LEMMA ExitTyped ==
    ASSUME TypeOK, NEW a \in Agents, Exit(a)
    PROVE  /\ apc' \in [Agents -> AgentStates]
           /\ held' \in [Agents -> Messages \cup {NoMessage}]
           /\ amsg' \in [Agents -> Messages \cup {NoMessage}]
           /\ areply' \in [Agents -> Answers \cup {NoAnswer}]
  BY DEF TypeOK, Exit, AgentStates

-----------------------------------------------------------------------------
(* Every step keeps every type.                                            *)
LEMMA TypeStep == IInv /\ [Next]_vars => TypeOK'
<1> SUFFICES ASSUME IInv, [Next]_vars PROVE TypeOK'
  OBVIOUS
<1> USE DEF IInv, TypeOK, dbVars, clientVars, brokerVars, agentVars, coinVars
<1>1. ASSUME NEW c \in Clients, NEW n \in Amounts, Post(c, n)
      PROVE  TypeOK'
  BY <1>1, CommandTyped DEF Post, ClientStates
<1>2. ASSUME NEW c \in Clients, IgnoreAnswer(c)
      PROVE  TypeOK'
  BY <1>2 DEF IgnoreAnswer
<1>3. ASSUME NEW c \in Clients, BalanceAnswered(c)
      PROVE  TypeOK'
  <2> PICK m \in replies[c] : btcBalance' = IF m.result = "balance" THEN m.value ELSE btcBalance
    BY <1>3 DEF BalanceAnswered
  <2>1. m \in Answers
    OBVIOUS
  <2>2. btcBalance' \in Nat
    BY <2>1 DEF Answers
  <2>3. cpc' \in [Clients -> ClientStates] /\ replies' \in [Clients -> SUBSET Answers]
    BY <1>3 DEF BalanceAnswered, ClientStates
  <2> QED
    BY <1>3, <2>2, <2>3 DEF BalanceAnswered
<1>4. ASSUME NEW c \in Clients, SaveRequest(c)
      PROVE  TypeOK'
  BY <1>4 DEF SaveRequest, ClientStates, Saved, Rows
<1>5. ASSUME NEW c \in Clients, SendRequest(c)
      PROVE  TypeOK'
  BY <1>5, CommandTyped DEF SendRequest, ClientStates, CommandInv
<1>6. ASSUME NEW c \in Clients, RequestAnswered(c)
      PROVE  TypeOK'
  BY <1>6 DEF RequestAnswered, ClientStates
<1>7. ASSUME NEW c \in Clients, RecordResult(c)
      PROVE  TypeOK'
  <2>1. canswer[c] \in Answers /\ crow[c] \in Rows /\ Fits(canswer[c], crow[c])
    BY <1>7 DEF RecordResult, AnswerInv, CommandInv
  <2>2. canswer[c].result \in {"processed"} \cup Refusals /\ canswer[c].tx \in Rows \cup {NoRow}
    BY <2>1 DEF Fits, Answers
  <2> QED
    BY <1>7, <2>2, EndPostTyped DEF RecordResult
<1>8. ASSUME NEW c \in Clients, Timeout(c)
      PROVE  TypeOK'
  BY <1>8, EndPostTyped DEF Timeout
<1>9. ASSUME NEW c \in Clients, HealthCheck(c) \/ ClientDies(c)
      PROVE  TypeOK'
  BY <1>9, EndPostTyped, SpendDecreases DEF HealthCheck, ClientDies, Faults
<1>10. ASSUME NEW a \in Agents, Deliver(a)
      PROVE  TypeOK'
  BY <1>10 DEF Deliver, NextUp, Ready, AgentStates
<1>11. ASSUME NEW a \in Agents, Query(a) \/ QueryFails(a)
      PROVE  TypeOK'
  BY <1>11, AnswerTyped, BusyHasCommand, SpendDecreases DEF Query, QueryFails, Balance,
     Results, Faults, Busy
<1>12. ASSUME NEW a \in Agents, CheckWithdrawal(a)
      PROVE  TypeOK'
  BY <1>12, AnswerTyped, BusyHasCommand DEF CheckWithdrawal, Results, Refusals,
     AgentStates, Busy
<1>13. ASSUME NEW a \in Agents, SendFrom(a)
      PROVE  TypeOK'
  <2>1. amsg[a] \in Messages /\ amsg[a].row \in Rows
    BY <1>13, BusyHasCommand DEF SendFrom, Busy, CommandInv, Messages
  <2>2. sends' \in [Rows -> Nat] /\ spent' \in 0..deep
    BY <1>13, <2>1, TransactTyped DEF SendFrom
  <2> QED
    BY <1>13, <2>1, <2>2, AnswerTyped DEF SendFrom, Transact, Results
<1>14. ASSUME NEW a \in Agents, SendRaises(a) \/ ConnectionGone(a) \/ AgentCrash(a)
      PROVE  TypeOK'
  BY <1>14, ExitTyped, SpendDecreases DEF SendRaises, ConnectionGone, AgentCrash,
     Faults
<1>15. ASSUME NEW a \in Agents, BitcoindFails(a)
      PROVE  TypeOK'
  <2>1. ASSUME apc[a] = "send", Transact(amsg[a].row), Sendable(amsg[a].row)
        PROVE  sends' \in [Rows -> Nat] /\ spent' \in 0..deep
    <3>1. amsg[a].row \in Rows
      BY <2>1, BusyHasCommand DEF Busy, CommandInv, Messages
    <3> QED
      BY <2>1, <3>1, TransactTyped
  <2>2. sends' \in [Rows -> Nat] /\ spent' \in 0..deep
    BY <1>15, <2>1 DEF BitcoindFails
  <2> QED
    BY <1>15, <2>2, ExitTyped, SpendDecreases DEF BitcoindFails, Faults
<1>16. ASSUME NEW a \in Agents, Reply(a)
      PROVE  TypeOK'
  <2>1. amsg[a].client \in Clients /\ areply[a] \in Answers
    BY <1>16, BusyHasCommand DEF Reply, Busy, AnswerInv, Messages
  <2> QED
    BY <1>16, <2>1 DEF Reply, AgentStates
<1>17. ASSUME NEW a \in Agents, Ack(a)
      PROVE  TypeOK'
  BY <1>17 DEF Ack, AgentStates
<1>18. ASSUME NEW a \in Agents, ConnectionLost(a) \/ Restart(a)
      PROVE  TypeOK'
  BY <1>18, SpendDecreases DEF ConnectionLost, Restart, AgentStates, Faults
<1>19. ASSUME BrokerRestart
      PROVE  TypeOK'
  BY <1>19, SpendDecreases DEF BrokerRestart, AgentStates, ClientStates, Faults
<1>20. ASSUME Mature
      PROVE  TypeOK'
  BY <1>20 DEF Mature
<1>21. CASE UNCHANGED vars
  BY <1>21 DEF vars
<1> QED
  BY <1>1, <1>2, <1>3, <1>4, <1>5, <1>6, <1>7, <1>8, <1>9, <1>10, <1>11, <1>12, <1>13,
     <1>14, <1>15, <1>16, <1>17, <1>18, <1>19, <1>20, <1>21 DEF Next, ClientStep,
     AgentStep

(* Correlation ids stay fresh.                                             *)
LEMMA CommandStep == IInv /\ [Next]_vars => CommandInv'
<1> SUFFICES ASSUME IInv, [Next]_vars PROVE CommandInv'
  OBVIOUS
<1> USE DEF IInv, TypeOK, CommandInv, Busy, Waiting, Calls, Messages, Answers, dbVars,
        clientVars, brokerVars, agentVars, coinVars
<1>1. ASSUME NEW c \in Clients, NEW n \in Amounts, Post(c, n)
      PROVE  CommandInv'
  BY <1>1, SMTT(30) DEF Post, SendCommand
<1>2. ASSUME NEW c \in Clients, IgnoreAnswer(c)
      PROVE  CommandInv'
  BY <1>2 DEF IgnoreAnswer
<1>3. ASSUME NEW c \in Clients, BalanceAnswered(c)
      PROVE  CommandInv'
  BY <1>3 DEF BalanceAnswered
<1>4. ASSUME NEW c \in Clients, SaveRequest(c)
      PROVE  CommandInv'
  BY <1>4 DEF SaveRequest
<1>5. ASSUME NEW c \in Clients, SendRequest(c)
      PROVE  CommandInv'
  BY <1>5 DEF SendRequest, SendCommand
<1>6. ASSUME NEW c \in Clients, RequestAnswered(c)
      PROVE  CommandInv'
  BY <1>6 DEF RequestAnswered
<1>7. ASSUME NEW c \in Clients, RecordResult(c)
      PROVE  CommandInv'
  BY <1>7 DEF RecordResult, EndPost
<1>8. ASSUME NEW c \in Clients, Timeout(c)
      PROVE  CommandInv'
  BY <1>8 DEF Timeout, EndPost
<1>9. ASSUME NEW c \in Clients, HealthCheck(c) \/ ClientDies(c)
      PROVE  CommandInv'
  BY <1>9 DEF HealthCheck, ClientDies, EndPost, Spend
<1>10. ASSUME NEW a \in Agents, Deliver(a)
      PROVE  CommandInv'
  BY <1>10 DEF Deliver, NextUp, Ready
<1>11. ASSUME NEW a \in Agents, Query(a) \/ QueryFails(a)
      PROVE  CommandInv'
  BY <1>11 DEF Query, QueryFails, Answer, Balance, Spend
<1>12. ASSUME NEW a \in Agents, CheckWithdrawal(a)
      PROVE  CommandInv'
  BY <1>12 DEF CheckWithdrawal, Answer, Balance
<1>13. ASSUME NEW a \in Agents, SendFrom(a)
      PROVE  CommandInv'
  BY <1>13 DEF SendFrom, Transact, Answer
<1>14. ASSUME NEW a \in Agents, SendRaises(a) \/ ConnectionGone(a) \/ AgentCrash(a)
      PROVE  CommandInv'
  BY <1>14 DEF SendRaises, ConnectionGone, AgentCrash, Exit, Spend
<1>15. ASSUME NEW a \in Agents, BitcoindFails(a)
      PROVE  CommandInv'
  BY <1>15 DEF BitcoindFails, Transact, Exit, Spend
<1>16. ASSUME NEW a \in Agents, Reply(a)
      PROVE  CommandInv'
  <2>1. amsg[a].client \in Clients /\ areply[a].call <= calls
    BY <1>16 DEF Reply, AnswerInv
  <2> QED
    BY <1>16, <2>1 DEF Reply
<1>17. ASSUME NEW a \in Agents, Ack(a)
      PROVE  CommandInv'
  BY <1>17 DEF Ack
<1>18. ASSUME NEW a \in Agents, ConnectionLost(a) \/ Restart(a)
      PROVE  CommandInv'
  BY <1>18 DEF ConnectionLost, Restart, Spend
<1>19. ASSUME BrokerRestart
      PROVE  CommandInv'
  BY <1>19 DEF BrokerRestart, Spend
<1>20. ASSUME Mature
      PROVE  CommandInv'
  BY <1>20 DEF Mature
<1>21. CASE UNCHANGED vars
  BY <1>21 DEF vars
<1> QED
  BY <1>1, <1>2, <1>3, <1>4, <1>5, <1>6, <1>7, <1>8, <1>9, <1>10, <1>11, <1>12, <1>13,
     <1>14, <1>15, <1>16, <1>17, <1>18, <1>19, <1>20, <1>21 DEF Next, ClientStep,
     AgentStep

(* A waiting client's command stays its own.                               *)
LEMMA OwnCommandStep == IInv /\ [Next]_vars => OwnCommandInv'
<1> SUFFICES ASSUME IInv, [Next]_vars PROVE OwnCommandInv'
  OBVIOUS
<1> USE DEF IInv, TypeOK, CommandInv, OwnCommandInv, IsFor, Expected, Busy, Waiting, Calls,
        Messages, dbVars, clientVars, brokerVars, agentVars, coinVars
<1>1. ASSUME NEW c \in Clients, NEW n \in Amounts, Post(c, n)
      PROVE  OwnCommandInv'
  BY <1>1 DEF Post, SendCommand
<1>2. ASSUME NEW c \in Clients, IgnoreAnswer(c)
      PROVE  OwnCommandInv'
  BY <1>2 DEF IgnoreAnswer
<1>3. ASSUME NEW c \in Clients, BalanceAnswered(c)
      PROVE  OwnCommandInv'
  BY <1>3 DEF BalanceAnswered
<1>4. ASSUME NEW c \in Clients, SaveRequest(c)
      PROVE  OwnCommandInv'
  BY <1>4 DEF SaveRequest
<1>5. ASSUME NEW c \in Clients, SendRequest(c)
      PROVE  OwnCommandInv'
  BY <1>5 DEF SendRequest, SendCommand
<1>6. ASSUME NEW c \in Clients, RequestAnswered(c)
      PROVE  OwnCommandInv'
  BY <1>6 DEF RequestAnswered
<1>7. ASSUME NEW c \in Clients, RecordResult(c)
      PROVE  OwnCommandInv'
  BY <1>7 DEF RecordResult, EndPost
<1>8. ASSUME NEW c \in Clients, Timeout(c)
      PROVE  OwnCommandInv'
  BY <1>8 DEF Timeout, EndPost
<1>9. ASSUME NEW c \in Clients, HealthCheck(c) \/ ClientDies(c)
      PROVE  OwnCommandInv'
  BY <1>9 DEF HealthCheck, ClientDies, EndPost, Spend
<1>10. ASSUME NEW a \in Agents, Deliver(a)
      PROVE  OwnCommandInv'
  BY <1>10 DEF Deliver, NextUp, Ready
<1>11. ASSUME NEW a \in Agents, Query(a) \/ QueryFails(a)
      PROVE  OwnCommandInv'
  BY <1>11, SMTT(30) DEF Query, QueryFails, Answer, Balance, Spend
<1>12. ASSUME NEW a \in Agents, CheckWithdrawal(a)
      PROVE  OwnCommandInv'
  BY <1>12 DEF CheckWithdrawal, Answer, Balance
<1>13. ASSUME NEW a \in Agents, SendFrom(a)
      PROVE  OwnCommandInv'
  BY <1>13 DEF SendFrom, Transact, Answer
<1>14. ASSUME NEW a \in Agents, SendRaises(a) \/ ConnectionGone(a) \/ AgentCrash(a)
      PROVE  OwnCommandInv'
  BY <1>14 DEF SendRaises, ConnectionGone, AgentCrash, Exit, Spend
<1>15. ASSUME NEW a \in Agents, BitcoindFails(a)
      PROVE  OwnCommandInv'
  BY <1>15 DEF BitcoindFails, Transact, Exit, Spend
<1>16. ASSUME NEW a \in Agents, Reply(a)
      PROVE  OwnCommandInv'
  BY <1>16 DEF Reply
<1>17. ASSUME NEW a \in Agents, Ack(a)
      PROVE  OwnCommandInv'
  BY <1>17 DEF Ack
<1>18. ASSUME NEW a \in Agents, ConnectionLost(a) \/ Restart(a)
      PROVE  OwnCommandInv'
  BY <1>18 DEF ConnectionLost, Restart, Spend
<1>19. ASSUME BrokerRestart
      PROVE  OwnCommandInv'
  BY <1>19 DEF BrokerRestart, Spend
<1>20. ASSUME Mature
      PROVE  OwnCommandInv'
  BY <1>20 DEF Mature
<1>21. CASE UNCHANGED vars
  BY <1>21 DEF vars
<1> QED
  BY <1>1, <1>2, <1>3, <1>4, <1>5, <1>6, <1>7, <1>8, <1>9, <1>10, <1>11, <1>12, <1>13,
     <1>14, <1>15, <1>16, <1>17, <1>18, <1>19, <1>20, <1>21 DEF Next, ClientStep,
     AgentStep

(* Answers stay true and belong to the command of their correlation id.    *)
LEMMA AnswerStep == IInv /\ [Next]_vars => AnswerInv'
<1> SUFFICES ASSUME IInv, [Next]_vars PROVE AnswerInv'
  OBVIOUS
<1> USE DEF IInv, TypeOK, CommandInv, OwnCommandInv, AnswerInv, IsFor, Fits, Truthful,
        Expected, Busy, Waiting, Matches, Calls, Messages, Answers, Results, Refusals,
        dbVars, clientVars, brokerVars, agentVars, coinVars
<1>1. ASSUME NEW c \in Clients, NEW n \in Amounts, Post(c, n)
      PROVE  AnswerInv'
  BY <1>1 DEF Post, SendCommand
<1>2. ASSUME NEW c \in Clients, IgnoreAnswer(c)
      PROVE  AnswerInv'
  BY <1>2 DEF IgnoreAnswer
<1>3. ASSUME NEW c \in Clients, BalanceAnswered(c)
      PROVE  AnswerInv'
  BY <1>3 DEF BalanceAnswered
<1>4. ASSUME NEW c \in Clients, SaveRequest(c)
      PROVE  AnswerInv'
  BY <1>4 DEF SaveRequest
<1>5. ASSUME NEW c \in Clients, SendRequest(c)
      PROVE  AnswerInv'
  BY <1>5 DEF SendRequest, SendCommand
<1>6. ASSUME NEW c \in Clients, RequestAnswered(c)
      PROVE  AnswerInv'
  BY <1>6 DEF RequestAnswered
<1>7. ASSUME NEW c \in Clients, RecordResult(c)
      PROVE  AnswerInv'
  BY <1>7 DEF RecordResult, EndPost
<1>8. ASSUME NEW c \in Clients, Timeout(c)
      PROVE  AnswerInv'
  BY <1>8 DEF Timeout, EndPost
<1>9. ASSUME NEW c \in Clients, HealthCheck(c) \/ ClientDies(c)
      PROVE  AnswerInv'
  BY <1>9 DEF HealthCheck, ClientDies, EndPost, Spend
<1>10. ASSUME NEW a \in Agents, Deliver(a)
      PROVE  AnswerInv'
  BY <1>10 DEF Deliver, NextUp, Ready
<1>11. ASSUME NEW a \in Agents, Query(a) \/ QueryFails(a)
      PROVE  AnswerInv'
  <2>1. CASE Query(a)
    BY <2>1 DEF Query, Answer, Balance
  <2>2. CASE QueryFails(a)
    BY <2>2 DEF QueryFails, Answer
  <2> QED
    BY <1>11, <2>1, <2>2
<1>12. ASSUME NEW a \in Agents, CheckWithdrawal(a)
      PROVE  AnswerInv'
  BY <1>12 DEF CheckWithdrawal, Answer, Balance
<1>13. ASSUME NEW a \in Agents, SendFrom(a)
      PROVE  AnswerInv'
  BY <1>13 DEF SendFrom, Transact, Answer
<1>14. ASSUME NEW a \in Agents, SendRaises(a) \/ ConnectionGone(a) \/ AgentCrash(a)
      PROVE  AnswerInv'
  BY <1>14, SMTT(30) DEF SendRaises, ConnectionGone, AgentCrash, Exit, Spend
<1>15. ASSUME NEW a \in Agents, BitcoindFails(a)
      PROVE  AnswerInv'
  <2>1. \A r \in Rows : sends[r] > 0 => sends'[r] > 0
    <3>1. ASSUME apc[a] = "send", Transact(amsg[a].row)
          PROVE  \A r \in Rows : sends[r] > 0 => sends'[r] > 0
      BY <3>1 DEF Transact
    <3> QED
      BY <1>15, <3>1 DEF BitcoindFails
  <2>2. \A n \in Answers : Truthful(n) => Truthful(n)'
    BY <2>1
  <2>3. apc' = [apc EXCEPT ![a] = "down"] /\ areply' = [areply EXCEPT ![a] = NoAnswer]
    BY <1>15 DEF BitcoindFails, Exit
  <2>4. \A b \in Agents \ {a} : amsg'[b] = amsg[b]
    BY <1>15 DEF BitcoindFails, Exit
  <2>5. UNCHANGED <<cpc, corr, crow, canswer, replies>>
    BY <1>15 DEF BitcoindFails
  <2>6. \A b \in Agents : apc'[b] \in {"reply", "ack"} =>
          /\ areply'[b] \in Answers /\ areply'[b].call = amsg'[b].pos
          /\ Fits(areply'[b], amsg'[b].row) /\ Truthful(areply[b])'
    BY <2>2, <2>3, <2>4
  <2>7. \A d \in Clients :
          /\ \A n \in replies[d] : Truthful(n)'
          /\ cpc[d] = "record" => Truthful(canswer[d])'
    BY <2>2, <2>5
  <2> HIDE DEF Fits, Truthful, Answers
  <2> QED
    BY <2>5, <2>6, <2>7
<1>16. ASSUME NEW a \in Agents, Reply(a)
      PROVE  AnswerInv'
  BY <1>16 DEF Reply
<1>17. ASSUME NEW a \in Agents, Ack(a)
      PROVE  AnswerInv'
  BY <1>17 DEF Ack
<1>18. ASSUME NEW a \in Agents, ConnectionLost(a) \/ Restart(a)
      PROVE  AnswerInv'
  BY <1>18 DEF ConnectionLost, Restart, Spend
<1>19. ASSUME BrokerRestart
      PROVE  AnswerInv'
  BY <1>19 DEF BrokerRestart, Spend
<1>20. ASSUME Mature
      PROVE  AnswerInv'
  BY <1>20 DEF Mature
<1>21. CASE UNCHANGED vars
  BY <1>21 DEF vars
<1> QED
  BY <1>1, <1>2, <1>3, <1>4, <1>5, <1>6, <1>7, <1>8, <1>9, <1>10, <1>11, <1>12, <1>13,
     <1>14, <1>15, <1>16, <1>17, <1>18, <1>19, <1>20, <1>21 DEF Next, ClientStep,
     AgentStep

(* A command is acknowledged after it was answered.                        *)
LEMMA AckStep == IInv /\ [Next]_vars => AckInv'
<1> SUFFICES ASSUME IInv, [Next]_vars PROVE AckInv'
  OBVIOUS
<1> USE DEF IInv, TypeOK, CommandInv, OwnCommandInv, AnswerInv, AckInv, IsFor, Answered,
        Spent, Busy, Waiting, Matches, Calls, Messages, Faults, dbVars, clientVars,
        brokerVars, agentVars, coinVars
<1>1. ASSUME NEW c \in Clients, NEW n \in Amounts, Post(c, n)
      PROVE  AckInv'
  BY <1>1 DEF Post, SendCommand
<1>2. ASSUME NEW c \in Clients, IgnoreAnswer(c)
      PROVE  AckInv'
  BY <1>2 DEF IgnoreAnswer
<1>3. ASSUME NEW c \in Clients, BalanceAnswered(c)
      PROVE  AckInv'
  BY <1>3 DEF BalanceAnswered
<1>4. ASSUME NEW c \in Clients, SaveRequest(c)
      PROVE  AckInv'
  BY <1>4 DEF SaveRequest
<1>5. ASSUME NEW c \in Clients, SendRequest(c)
      PROVE  AckInv'
  BY <1>5 DEF SendRequest, SendCommand
<1>6. ASSUME NEW c \in Clients, RequestAnswered(c)
      PROVE  AckInv'
  BY <1>6 DEF RequestAnswered
<1>7. ASSUME NEW c \in Clients, RecordResult(c)
      PROVE  AckInv'
  BY <1>7 DEF RecordResult, EndPost
<1>8. ASSUME NEW c \in Clients, Timeout(c)
      PROVE  AckInv'
  BY <1>8 DEF Timeout, EndPost
<1>9. ASSUME NEW c \in Clients, HealthCheck(c) \/ ClientDies(c)
      PROVE  AckInv'
  BY <1>9 DEF HealthCheck, ClientDies, EndPost, Spend
<1>10. ASSUME NEW a \in Agents, Deliver(a)
      PROVE  AckInv'
  BY <1>10 DEF Deliver, NextUp, Ready
<1>11. ASSUME NEW a \in Agents, Query(a) \/ QueryFails(a)
      PROVE  AckInv'
  BY <1>11 DEF Query, QueryFails, Answer, Balance, Spend
<1>12. ASSUME NEW a \in Agents, CheckWithdrawal(a)
      PROVE  AckInv'
  BY <1>12 DEF CheckWithdrawal, Answer, Balance
<1>13. ASSUME NEW a \in Agents, SendFrom(a)
      PROVE  AckInv'
  BY <1>13 DEF SendFrom, Transact, Answer
<1>14. ASSUME NEW a \in Agents, SendRaises(a) \/ ConnectionGone(a) \/ AgentCrash(a)
      PROVE  AckInv'
  BY <1>14 DEF SendRaises, ConnectionGone, AgentCrash, Exit, Spend
<1>15. ASSUME NEW a \in Agents, BitcoindFails(a)
      PROVE  AckInv'
  BY <1>15 DEF BitcoindFails, Transact, Exit, Spend
<1>16. ASSUME NEW a \in Agents, Reply(a)
      PROVE  AckInv'
  BY <1>16 DEF Reply
<1>17. ASSUME NEW a \in Agents, Ack(a)
      PROVE  AckInv'
  BY <1>17 DEF Ack
<1>18. ASSUME NEW a \in Agents, ConnectionLost(a) \/ Restart(a)
      PROVE  AckInv'
  BY <1>18 DEF ConnectionLost, Restart, Spend
<1>19. ASSUME BrokerRestart
      PROVE  AckInv'
  BY <1>19 DEF BrokerRestart, Spend
<1>20. ASSUME Mature
      PROVE  AckInv'
  BY <1>20 DEF Mature
<1>21. CASE UNCHANGED vars
  BY <1>21 DEF vars
<1> QED
  BY <1>1, <1>2, <1>3, <1>4, <1>5, <1>6, <1>7, <1>8, <1>9, <1>10, <1>11, <1>12, <1>13,
     <1>14, <1>15, <1>16, <1>17, <1>18, <1>19, <1>20, <1>21 DEF Next, ClientStep,
     AgentStep

(* What is recorded as processed was sent.                                 *)
LEMMA WasSentStep == IInv /\ [Next]_vars => ProcessedWasSent'
<1> SUFFICES ASSUME IInv, [Next]_vars PROVE ProcessedWasSent'
  OBVIOUS
<1> USE DEF IInv, TypeOK, CommandInv, AnswerInv, ProcessedWasSent, Fits, Truthful, Saved,
        Refusals, dbVars, clientVars, brokerVars, agentVars, coinVars
<1>1. ASSUME NEW c \in Clients, NEW n \in Amounts, Post(c, n)
      PROVE  ProcessedWasSent'
  BY <1>1 DEF Post, SendCommand
<1>2. ASSUME NEW c \in Clients, IgnoreAnswer(c)
      PROVE  ProcessedWasSent'
  BY <1>2 DEF IgnoreAnswer
<1>3. ASSUME NEW c \in Clients, BalanceAnswered(c)
      PROVE  ProcessedWasSent'
  BY <1>3 DEF BalanceAnswered
<1>4. ASSUME NEW c \in Clients, SaveRequest(c)
      PROVE  ProcessedWasSent'
  BY <1>4 DEF SaveRequest
<1>5. ASSUME NEW c \in Clients, SendRequest(c)
      PROVE  ProcessedWasSent'
  BY <1>5 DEF SendRequest, SendCommand
<1>6. ASSUME NEW c \in Clients, RequestAnswered(c)
      PROVE  ProcessedWasSent'
  BY <1>6 DEF RequestAnswered
<1>7. ASSUME NEW c \in Clients, RecordResult(c)
      PROVE  ProcessedWasSent'
  BY <1>7 DEF RecordResult, EndPost
<1>8. ASSUME NEW c \in Clients, Timeout(c)
      PROVE  ProcessedWasSent'
  BY <1>8 DEF Timeout, EndPost
<1>9. ASSUME NEW c \in Clients, HealthCheck(c) \/ ClientDies(c)
      PROVE  ProcessedWasSent'
  BY <1>9 DEF HealthCheck, ClientDies, EndPost, Spend
<1>10. ASSUME NEW a \in Agents, Deliver(a)
      PROVE  ProcessedWasSent'
  BY <1>10 DEF Deliver, NextUp, Ready
<1>11. ASSUME NEW a \in Agents, Query(a) \/ QueryFails(a)
      PROVE  ProcessedWasSent'
  BY <1>11 DEF Query, QueryFails, Answer, Balance, Spend
<1>12. ASSUME NEW a \in Agents, CheckWithdrawal(a)
      PROVE  ProcessedWasSent'
  BY <1>12 DEF CheckWithdrawal, Answer, Balance
<1>13. ASSUME NEW a \in Agents, SendFrom(a)
      PROVE  ProcessedWasSent'
  BY <1>13 DEF SendFrom, Transact, Answer
<1>14. ASSUME NEW a \in Agents, SendRaises(a) \/ ConnectionGone(a) \/ AgentCrash(a)
      PROVE  ProcessedWasSent'
  BY <1>14 DEF SendRaises, ConnectionGone, AgentCrash, Exit, Spend
<1>15. ASSUME NEW a \in Agents, BitcoindFails(a)
      PROVE  ProcessedWasSent'
  BY <1>15 DEF BitcoindFails, Transact, Exit, Spend
<1>16. ASSUME NEW a \in Agents, Reply(a)
      PROVE  ProcessedWasSent'
  BY <1>16 DEF Reply
<1>17. ASSUME NEW a \in Agents, Ack(a)
      PROVE  ProcessedWasSent'
  BY <1>17 DEF Ack
<1>18. ASSUME NEW a \in Agents, ConnectionLost(a) \/ Restart(a)
      PROVE  ProcessedWasSent'
  BY <1>18 DEF ConnectionLost, Restart, Spend
<1>19. ASSUME BrokerRestart
      PROVE  ProcessedWasSent'
  BY <1>19 DEF BrokerRestart, Spend
<1>20. ASSUME Mature
      PROVE  ProcessedWasSent'
  BY <1>20 DEF Mature
<1>21. CASE UNCHANGED vars
  BY <1>21 DEF vars
<1> QED
  BY <1>1, <1>2, <1>3, <1>4, <1>5, <1>6, <1>7, <1>8, <1>9, <1>10, <1>11, <1>12, <1>13,
     <1>14, <1>15, <1>16, <1>17, <1>18, <1>19, <1>20, <1>21 DEF Next, ClientStep,
     AgentStep

(* A waiting client keeps its command or its answer.                       *)
LEMMA WaitStep == IInv /\ [Next]_vars => NeverWaitsInVain'
<1> SUFFICES ASSUME IInv, [Next]_vars PROVE NeverWaitsInVain'
  OBVIOUS
<1> USE DEF IInv, TypeOK, CommandInv, AckInv, NeverWaitsInVain, Answered, Spent, Busy,
        Waiting, Matches, Faults, dbVars, clientVars, brokerVars, agentVars, coinVars
<1>1. ASSUME NEW c \in Clients, NEW n \in Amounts, Post(c, n)
      PROVE  NeverWaitsInVain'
  <2> DEFINE new == [pos |-> calls + 1, client |-> c, row |-> NoRow]
  <2>1. new \in queue' /\ new.pos = corr'[c]
    BY <1>1 DEF Post, SendCommand
  <2>2. \A d \in Clients \ {c} : Waiting(d)' => Waiting(d) /\ corr'[d] = corr[d]
    BY <1>1 DEF Post, SendCommand
  <2>3. queue \subseteq queue' /\ UNCHANGED <<replies, budget>>
    BY <1>1 DEF Post, SendCommand
  <2> HIDE DEF new
  <2> QED
    BY <2>1, <2>2, <2>3
<1>2. ASSUME NEW c \in Clients, IgnoreAnswer(c)
      PROVE  NeverWaitsInVain'
  BY <1>2 DEF IgnoreAnswer
<1>3. ASSUME NEW c \in Clients, BalanceAnswered(c)
      PROVE  NeverWaitsInVain'
  BY <1>3 DEF BalanceAnswered
<1>4. ASSUME NEW c \in Clients, SaveRequest(c)
      PROVE  NeverWaitsInVain'
  BY <1>4 DEF SaveRequest
<1>5. ASSUME NEW c \in Clients, SendRequest(c)
      PROVE  NeverWaitsInVain'
  <2> DEFINE new == [pos |-> calls + 1, client |-> c, row |-> crow[c]]
  <2>1. new \in queue' /\ new.pos = corr'[c]
    BY <1>5 DEF SendRequest, SendCommand
  <2>2. \A d \in Clients \ {c} : Waiting(d)' => Waiting(d) /\ corr'[d] = corr[d]
    BY <1>5 DEF SendRequest, SendCommand
  <2>3. queue \subseteq queue' /\ UNCHANGED <<replies, budget>>
    BY <1>5 DEF SendRequest, SendCommand
  <2> HIDE DEF new
  <2> QED
    BY <2>1, <2>2, <2>3
<1>6. ASSUME NEW c \in Clients, RequestAnswered(c)
      PROVE  NeverWaitsInVain'
  BY <1>6 DEF RequestAnswered
<1>7. ASSUME NEW c \in Clients, RecordResult(c)
      PROVE  NeverWaitsInVain'
  BY <1>7 DEF RecordResult, EndPost
<1>8. ASSUME NEW c \in Clients, Timeout(c)
      PROVE  NeverWaitsInVain'
  BY <1>8 DEF Timeout, EndPost
<1>9. ASSUME NEW c \in Clients, HealthCheck(c) \/ ClientDies(c)
      PROVE  NeverWaitsInVain'
  BY <1>9 DEF HealthCheck, ClientDies, EndPost, Spend
<1>10. ASSUME NEW a \in Agents, Deliver(a)
      PROVE  NeverWaitsInVain'
  BY <1>10 DEF Deliver, NextUp, Ready
<1>11. ASSUME NEW a \in Agents, Query(a) \/ QueryFails(a)
      PROVE  NeverWaitsInVain'
  BY <1>11 DEF Query, QueryFails, Answer, Balance, Spend
<1>12. ASSUME NEW a \in Agents, CheckWithdrawal(a)
      PROVE  NeverWaitsInVain'
  BY <1>12 DEF CheckWithdrawal, Answer, Balance
<1>13. ASSUME NEW a \in Agents, SendFrom(a)
      PROVE  NeverWaitsInVain'
  BY <1>13 DEF SendFrom, Transact, Answer
<1>14. ASSUME NEW a \in Agents, SendRaises(a) \/ ConnectionGone(a) \/ AgentCrash(a)
      PROVE  NeverWaitsInVain'
  BY <1>14 DEF SendRaises, ConnectionGone, AgentCrash, Exit, Spend
<1>15. ASSUME NEW a \in Agents, BitcoindFails(a)
      PROVE  NeverWaitsInVain'
  BY <1>15 DEF BitcoindFails, Transact, Exit, Spend
<1>16. ASSUME NEW a \in Agents, Reply(a)
      PROVE  NeverWaitsInVain'
  BY <1>16 DEF Reply
<1>17. ASSUME NEW a \in Agents, Ack(a)
      PROVE  NeverWaitsInVain'
  BY <1>17 DEF Ack
<1>18. ASSUME NEW a \in Agents, ConnectionLost(a) \/ Restart(a)
      PROVE  NeverWaitsInVain'
  BY <1>18 DEF ConnectionLost, Restart, Spend
<1>19. ASSUME BrokerRestart
      PROVE  NeverWaitsInVain'
  BY <1>19 DEF BrokerRestart, Spend
<1>20. ASSUME Mature
      PROVE  NeverWaitsInVain'
  BY <1>20 DEF Mature
<1>21. CASE UNCHANGED vars
  BY <1>21 DEF vars
<1> QED
  BY <1>1, <1>2, <1>3, <1>4, <1>5, <1>6, <1>7, <1>8, <1>9, <1>10, <1>11, <1>12, <1>13,
     <1>14, <1>15, <1>16, <1>17, <1>18, <1>19, <1>20, <1>21 DEF Next, ClientStep,
     AgentStep

(* It holds at the start.                                                  *)
LEMMA InitInv == Init => IInv
BY DEF Init, IInv, TypeOK, CommandInv, OwnCommandInv, AnswerInv, AckInv, ProcessedWasSent,
   NeverWaitsInVain, Waiting, Busy, ClientStates, AgentStates, Refusals, Truthful

(* Faults are only spent.                                                  *)
LEMMA BudgetStep ==
    IInv /\ [Next]_vars =>
        \A f \in Faults : budget'[f] <= budget[f] /\ budget'[f] <= Budget[f]
<1> SUFFICES ASSUME IInv, [Next]_vars
             PROVE  \A f \in Faults : budget'[f] <= budget[f] /\ budget'[f] <= Budget[f]
  OBVIOUS
<1>1. ASSUME NEW c \in Clients, ClientStep(c)
      PROVE  UNCHANGED budget
  BY <1>1 DEF ClientStep, Post, IgnoreAnswer, BalanceAnswered, SaveRequest, SendRequest,
     RequestAnswered, RecordResult, Timeout, HealthCheck
<1>2. ASSUME NEW a \in Agents, AgentStep(a)
      PROVE  UNCHANGED budget
  BY <1>2 DEF AgentStep, Deliver, Query, CheckWithdrawal, SendFrom, SendRaises, Reply, Ack,
     ConnectionGone
<1>3. ASSUME NEW c \in Clients, ClientDies(c)
      PROVE  Spend("client")
  BY <1>3 DEF ClientDies
<1>4. ASSUME NEW a \in Agents, QueryFails(a) \/ BitcoindFails(a)
      PROVE  Spend("rpc")
  BY <1>4 DEF QueryFails, BitcoindFails
<1>5. ASSUME NEW a \in Agents, AgentCrash(a) \/ ConnectionLost(a)
      PROVE  Spend("crash") \/ Spend("drop")
  BY <1>5 DEF AgentCrash, ConnectionLost
<1>6. ASSUME BrokerRestart \/ Mature \/ (\E a \in Agents : Restart(a)) \/ UNCHANGED vars
      PROVE  UNCHANGED budget \/ Spend("broker")
  BY <1>6 DEF BrokerRestart, Mature, Restart, vars
<1>7. UNCHANGED budget \/ \E kind \in Faults : Spend(kind)
  BY <1>1, <1>2, <1>3, <1>4, <1>5, <1>6 DEF Next, Faults
<1>8. budget \in [Faults -> Nat] /\ \A f \in Faults : budget[f] <= Budget[f]
  BY DEF IInv, TypeOK
<1> QED
  BY <1>7, <1>8, SpendDecreases

(* Every step keeps the invariant.                                         *)
LEMMA StepInv == IInv /\ [Next]_vars => IInv'
<1> SUFFICES ASSUME IInv, [Next]_vars PROVE IInv'
  OBVIOUS
<1> QED
  BY TypeStep, CommandStep, OwnCommandStep, AnswerStep, AckStep, WasSentStep, WaitStep,
     BudgetStep DEF IInv

-----------------------------------------------------------------------------
(* The invariant of the RPC queue holds in every reachable state.          *)
THEOREM Inductive == Spec => []IInv
<1>1. Init => IInv
  BY InitInv
<1>2. IInv /\ [Next]_vars => IInv'
  BY StepInv
<1> QED
  BY <1>1, <1>2, PTL DEF Spec

(* Every variable keeps its type; no more bitcoin leaves the account than  *)
(* it has received with five confirmations.                                *)
THEOREM TypeCorrect == Spec => []TypeOK
<1>1. IInv => TypeOK
  BY DEF IInv
<1> QED
  BY <1>1, Inductive, PTL

(* BitcoindClient._receive_response: whatever times out, is redelivered or *)
(* answered late, a withdrawal recorded as processed was sent, with the    *)
(* transaction that is recorded.                                           *)
THEOREM ProcessedSent == Spec => []ProcessedWasSent
<1>1. IInv => ProcessedWasSent
  BY DEF IInv
<1> QED
  BY <1>1, Inductive, PTL

(* _rpc_callback publishes before it acknowledges: a client never waits    *)
(* for an answer that nobody will give unless the broker has restarted.    *)
THEOREM NoVainWait == Spec => []NeverWaitsInVain
<1>1. IInv => NeverWaitsInVain
  BY DEF IInv
<1> QED
  BY <1>1, Inductive, PTL

-----------------------------------------------------------------------------
(* The commands of a row, behind SentOncePerDelivery.                      *)

(* Nothing begins to work on a row unless its command is sent or its result*)
(* recorded.                                                               *)
LEMMA UntouchedStep ==
    ASSUME IInv, [Next]_vars, NEW r \in Rows, Untouched(r),
           \A c \in Clients : crow[c] = r => ~SendRequest(c) /\ ~RecordResult(c)
    PROVE  Untouched(r)'
<1> USE DEF IInv, TypeOK, CommandInv, Untouched, Busy, Messages, dbVars, clientVars, brokerVars,
        agentVars, coinVars
<1>1. r # NoRow
  BY NullsAssumption
<1>2. ASSUME NEW c \in Clients, NEW n \in Amounts, Post(c, n) PROVE Untouched(r)'
  BY <1>1, <1>2 DEF Post, SendCommand
<1>3. ASSUME NEW c \in Clients,
             \/ IgnoreAnswer(c) \/ BalanceAnswered(c) \/ RequestAnswered(c) \/ Timeout(c)
             \/ HealthCheck(c) \/ ClientDies(c)
      PROVE  Untouched(r)'
  BY <1>3 DEF IgnoreAnswer, BalanceAnswered, RequestAnswered, Timeout, HealthCheck, ClientDies
<1>4. ASSUME NEW c \in Clients, SaveRequest(c) PROVE Untouched(r)'
  BY <1>4 DEF SaveRequest, Refusals
<1>5. ASSUME NEW c \in Clients, SendRequest(c) PROVE Untouched(r)'
  <2>1. crow[c] # r
    BY <1>5
  <2> QED
    BY <1>5, <2>1 DEF SendRequest, SendCommand
<1>6. ASSUME NEW c \in Clients, RecordResult(c) PROVE Untouched(r)'
  <2>1. crow[c] # r
    BY <1>6
  <2> QED
    BY <1>6, <2>1 DEF RecordResult
<1>7. ASSUME NEW a \in Agents, Deliver(a) PROVE Untouched(r)'
  BY <1>7 DEF Deliver, NextUp, Ready
<1>8. ASSUME NEW a \in Agents, Query(a) \/ QueryFails(a) \/ CheckWithdrawal(a)
      PROVE  Untouched(r)'
  BY <1>8 DEF Query, QueryFails, CheckWithdrawal, Answer
<1>9. ASSUME NEW a \in Agents, SendFrom(a) PROVE Untouched(r)'
  BY <1>9 DEF SendFrom, Transact, Answer
<1>10. ASSUME NEW a \in Agents,
              SendRaises(a) \/ ConnectionGone(a) \/ AgentCrash(a)
       PROVE  Untouched(r)'
  BY <1>10 DEF SendRaises, ConnectionGone, AgentCrash, Exit
<1>11. ASSUME NEW a \in Agents, BitcoindFails(a) PROVE Untouched(r)'
  BY <1>11 DEF BitcoindFails, Transact, Exit
<1>12. ASSUME NEW a \in Agents, Reply(a) \/ Ack(a) \/ ConnectionLost(a) \/ Restart(a)
       PROVE  Untouched(r)'
  BY <1>12 DEF Reply, Ack, ConnectionLost, Restart
<1>13. ASSUME BrokerRestart \/ Mature \/ UNCHANGED vars PROVE Untouched(r)'
  BY <1>13 DEF BrokerRestart, Mature, vars
<1> QED
  BY <1>2, <1>3, <1>4, <1>5, <1>6, <1>7, <1>8, <1>9, <1>10, <1>11, <1>12, <1>13 DEF Next,
     ClientStep, AgentStep

(* What a client does with its row; agents leave the clients alone.        *)
ClientKept(c) ==
    /\ cpc'[c] = "send" => cpc[c] = "send"
    /\ crow'[c] \in {crow[c], NoRow}
    /\ cpc'[c] = "send" => crow'[c] = crow[c]

LEMMA ClientFrame ==
    ASSUME IInv, RowInv, [Next]_vars
    PROVE  \/ Saved' = Saved /\ \A c \in Clients : ClientKept(c)
           \/ \E c \in Clients : SaveRequest(c) \/ \E n \in Amounts : Post(c, n)
<1> USE DEF dbVars, clientVars, ClientKept
<1> DEFINE Kept == Saved' = Saved /\ \A c \in Clients : ClientKept(c)
<1>1. cpc \in [Clients -> ClientStates] /\ crow \in [Clients -> Rows \cup {NoRow}]
  BY DEF IInv, TypeOK
<1>2. ASSUME NEW c \in Clients,
             \/ IgnoreAnswer(c) \/ BalanceAnswered(c) \/ SendRequest(c) \/ RequestAnswered(c)
             \/ HealthCheck(c)
      PROVE  Kept
  <2>1. status' = status
    BY <1>2 DEF IgnoreAnswer, BalanceAnswered, SendRequest, RequestAnswered, HealthCheck
  <2>2. \A d \in Clients : ClientKept(d)
    BY <1>1, <1>2 DEF IgnoreAnswer, BalanceAnswered, SendRequest, RequestAnswered, HealthCheck
  <2> QED
    BY <2>1, <2>2 DEF Saved
<1>3. ASSUME NEW c \in Clients, RecordResult(c) \/ Timeout(c) \/ ClientDies(c)
      PROVE  Kept
  <2>1. \A d \in Clients : ClientKept(d)
    BY <1>1, <1>3 DEF RecordResult, Timeout, ClientDies, EndPost
  <2>2. CASE RecordResult(c)
    <3>1. crow[c] \in Rows /\ canswer[c] \in Answers /\ Fits(canswer[c], crow[c])
      BY <2>2 DEF IInv, CommandInv, AnswerInv, RecordResult
    <3>2. canswer[c].result # "none" /\ crow[c] # NoRow
      BY <3>1, NullsAssumption DEF NullsAssumption, Fits, Refusals
    <3>3. crow[c] \in Saved /\ status \in [Rows -> {"none", "not_requested", "processed"} \cup Refusals]
      BY <3>2 DEF RowInv, IInv, TypeOK
    <3>4. status' = [status EXCEPT ![crow[c]] = canswer[c].result]
      BY <2>2 DEF RecordResult
    <3> QED
      BY <2>1, <3>2, <3>3, <3>4 DEF Saved
  <2>3. CASE Timeout(c) \/ ClientDies(c)
    BY <2>1, <2>3 DEF Timeout, ClientDies, Saved
  <2> QED
    BY <1>3, <2>2, <2>3
<1>4. ASSUME NEW a \in Agents, AgentStep(a) PROVE status' = status /\ UNCHANGED clientVars
  BY <1>4 DEF AgentStep, Deliver, Query, CheckWithdrawal, SendFrom, SendRaises, Reply, Ack,
     ConnectionGone
<1>5. ASSUME NEW a \in Agents,
             \/ QueryFails(a) \/ BitcoindFails(a) \/ AgentCrash(a) \/ ConnectionLost(a)
             \/ Restart(a)
      PROVE  status' = status /\ UNCHANGED clientVars
  BY <1>5 DEF QueryFails, BitcoindFails, AgentCrash, ConnectionLost, Restart
<1>6. ASSUME BrokerRestart PROVE Kept
  <2>1. status' = status /\ \A d \in Clients : ClientKept(d)
    BY <1>1, <1>6 DEF BrokerRestart, Waiting
  <2> QED
    BY <2>1 DEF Saved
<1>7. ASSUME Mature \/ UNCHANGED vars PROVE status' = status /\ UNCHANGED clientVars
  BY <1>7 DEF Mature, vars
<1>8. ASSUME status' = status, UNCHANGED clientVars PROVE Kept
  BY <1>8 DEF Saved
<1> HIDE DEF Kept
<1> QED
  BY <1>2, <1>3, <1>4, <1>5, <1>6, <1>7, <1>8 DEF Next, ClientStep, Kept

(* Every request keeps a row of its own.                                   *)
LEMMA RowStep == IInv /\ RowInv /\ [Next]_vars => RowInv'
<1> SUFFICES ASSUME IInv, RowInv, [Next]_vars PROVE RowInv'
  OBVIOUS
<1>1. /\ cpc \in [Clients -> ClientStates] /\ crow \in [Clients -> Rows \cup {NoRow}]
      /\ NoRow \notin Rows
      /\ status \in [Rows -> {"none", "not_requested", "processed"} \cup Refusals]
  BY NullsAssumption DEF IInv, TypeOK, NullsAssumption
<1>2. \A c \in Clients : cpc[c] \in {"send", "request", "record"} => crow[c] \in Saved
  BY DEF IInv, CommandInv, RowInv, Saved
<1>3. ASSUME NEW r \in Rows \ Saved PROVE Untouched(r)'
  BY <1>2, <1>3, UntouchedStep DEF RowInv, SendRequest, RecordResult
<1>4. ASSUME NEW c \in Clients, NEW r \in Rows, cpc[c] = "send", crow[c] = r, ~SendRequest(c)
      PROVE  Untouched(r)'
  <2>1. \A d \in Clients : crow[d] = r => d = c
    BY <1>1, <1>4 DEF RowInv
  <2>2. ~RecordResult(c)
    BY <1>4 DEF RecordResult
  <2>3. Untouched(r)
    BY <1>4 DEF RowInv
  <2> QED
    BY <1>4, <2>1, <2>2, <2>3, UntouchedStep
<1>5. ASSUME NEW c \in Clients, cpc[c] = "send", crow'[c] = crow[c], ~SendRequest(c)
      PROVE  Untouched(crow[c])'
  <2>1. PICK r \in Rows : crow[c] = r
    BY <1>2, <1>5 DEF Saved
  <2>2. Untouched(r)' /\ crow'[c] = r
    BY <1>4, <1>5, <2>1
  <2> QED
    BY <2>2 DEF Untouched
<1>6. CASE Saved' = Saved /\ \A c \in Clients : ClientKept(c)
  <2>2. ASSUME NEW c \in Clients, cpc'[c] = "send" PROVE Untouched(crow[c])'
    BY <1>1, <1>5, <1>6, <2>2 DEF ClientKept, SendRequest
  <2>3. \A c \in Clients : cpc'[c] = "send" => Untouched(crow[c])' /\ crow'[c] = crow[c]
    BY <1>6, <2>2 DEF ClientKept
  <2> QED
    BY <1>1, <1>3, <1>6, <2>3 DEF RowInv, ClientKept, Untouched
<1>7. ASSUME NEW c \in Clients, NEW n \in Amounts, Post(c, n) PROVE RowInv'
  <2>1. status' = status /\ crow' = crow /\ cpc' = [cpc EXCEPT ![c] = "balance"]
    BY <1>7 DEF Post, dbVars
  <2>2. Saved' = Saved
    BY <2>1 DEF Saved
  <2>3. ASSUME NEW d \in Clients, cpc'[d] = "send" PROVE Untouched(crow[d])'
    <3>1. cpc[d] = "send" /\ ~SendRequest(d)
      BY <1>1, <2>1, <2>3 DEF SendRequest
    <3> QED
      BY <1>5, <2>1, <3>1
  <2> QED
    BY <1>1, <1>3, <2>1, <2>2, <2>3 DEF RowInv, Untouched
<1>8. ASSUME NEW c \in Clients, SaveRequest(c) PROVE RowInv'
  <2>1. PICK r \in Rows \ Saved : /\ status' = [status EXCEPT ![r] = "not_requested"]
                                  /\ crow' = [crow EXCEPT ![c] = r]
    BY <1>8 DEF SaveRequest
  <2>2. cpc' = [cpc EXCEPT ![c] = "send"]
    BY <1>8 DEF SaveRequest
  <2>3. Saved' = Saved \cup {r}
    BY <1>1, <2>1, <2>2 DEF Saved
  <2>4. ASSUME NEW d \in Clients, cpc'[d] = "send" PROVE Untouched(crow[d])'
    <3>1. CASE d = c
      <4>1. crow'[d] = r /\ Untouched(r)'
        BY <1>1, <1>3, <2>1, <3>1
      <4> QED
        BY <4>1 DEF Untouched
    <3>2. CASE d # c
      <4>1. cpc[d] = "send" /\ crow'[d] = crow[d] /\ ~SendRequest(d)
        BY <1>1, <2>1, <2>2, <2>4, <3>2 DEF SendRequest
      <4> QED
        BY <1>5, <4>1
    <3> QED
      BY <3>1, <3>2
  <2> QED
    BY <1>1, <1>3, <2>1, <2>2, <2>3, <2>4 DEF RowInv, Untouched
<1> QED
  BY <1>6, <1>7, <1>8, ClientFrame

(* Commands leave an agent, and the queue, only as here.                   *)
LEMMA BrokerFrame ==
    ASSUME IInv, [Next]_vars
    PROVE  \/ queue' = queue /\ \A a \in Agents : held'[a] \in {held[a], NoMessage}
           \/ BrokerRestart
           \/ \E c \in Clients : SendRequest(c) \/ \E n \in Amounts : Post(c, n)
           \/ \E a \in Agents : Deliver(a) \/ Ack(a)
<1> USE DEF brokerVars
<1> DEFINE Kept == queue' = queue /\ \A a \in Agents : held'[a] \in {held[a], NoMessage}
<1>1. held \in [Agents -> Messages \cup {NoMessage}]
  BY DEF IInv, TypeOK
<1>2. ASSUME NEW c \in Clients,
             \/ IgnoreAnswer(c) \/ BalanceAnswered(c) \/ SaveRequest(c) \/ RequestAnswered(c)
             \/ RecordResult(c) \/ Timeout(c) \/ HealthCheck(c) \/ ClientDies(c)
      PROVE  Kept
  BY <1>2 DEF IgnoreAnswer, BalanceAnswered, SaveRequest, RequestAnswered, RecordResult,
     Timeout, HealthCheck, ClientDies
<1>3. ASSUME NEW a \in Agents,
             \/ Query(a) \/ QueryFails(a) \/ CheckWithdrawal(a) \/ SendFrom(a) \/ Reply(a)
             \/ Restart(a)
      PROVE  Kept
  BY <1>3 DEF Query, QueryFails, CheckWithdrawal, SendFrom, Reply, Restart
<1>4. ASSUME NEW a \in Agents,
             \/ SendRaises(a) \/ ConnectionGone(a) \/ AgentCrash(a) \/ BitcoindFails(a)
             \/ ConnectionLost(a)
      PROVE  Kept
  BY <1>1, <1>4 DEF SendRaises, ConnectionGone, AgentCrash, BitcoindFails, ConnectionLost, Exit
<1>5. ASSUME Mature \/ UNCHANGED vars PROVE Kept
  BY <1>5 DEF Mature, vars
<1> QED
  BY <1>2, <1>3, <1>4, <1>5 DEF Next, ClientStep, AgentStep

(* One command for each row, with one agent at most.                       *)
LEMMA DeliveryStep == IInv /\ RowInv /\ DeliveryInv /\ [Next]_vars => DeliveryInv'
<1> SUFFICES ASSUME IInv, RowInv, DeliveryInv, [Next]_vars PROVE DeliveryInv'
  OBVIOUS
<1>1. /\ held \in [Agents -> Messages \cup {NoMessage}] /\ queue \subseteq Messages
      /\ NoMessage \notin Messages /\ NoRow \notin Rows
  BY NullsAssumption DEF IInv, TypeOK, NullsAssumption
<1>2. CASE queue' = queue /\ \A a \in Agents : held'[a] \in {held[a], NoMessage}
  BY <1>2 DEF DeliveryInv
<1>3. CASE BrokerRestart
  BY <1>3 DEF BrokerRestart, DeliveryInv
<1>4. ASSUME NEW c \in Clients, NEW n \in Amounts, Post(c, n) PROVE DeliveryInv'
  BY <1>4 DEF Post, SendCommand, DeliveryInv
<1>5. ASSUME NEW c \in Clients, SendRequest(c) PROVE DeliveryInv'
  <2>1. \A m \in queue : m.row # crow[c]
    BY <1>5 DEF SendRequest, RowInv, Untouched
  <2> QED
    BY <1>5, <2>1 DEF SendRequest, SendCommand, DeliveryInv
<1>6. ASSUME NEW a \in Agents, Deliver(a) PROVE DeliveryInv'
  <2>1. PICK m \in queue : held' = [held EXCEPT ![a] = m] /\ \A b \in Agents : held[b] # m
    BY <1>1, <1>6 DEF Deliver, NextUp, Ready
  <2>2. queue' = queue
    BY <1>6 DEF Deliver
  <2> QED
    BY <1>1, <2>1, <2>2 DEF DeliveryInv
<1>7. ASSUME NEW a \in Agents, Ack(a) PROVE DeliveryInv'
  BY <1>1, <1>7 DEF Ack, DeliveryInv
<1> QED
  BY <1>2, <1>3, <1>4, <1>5, <1>6, <1>7, BrokerFrame

-----------------------------------------------------------------------------
(* What a withdrawal may still be sent for, behind SentOncePerDelivery.    *)

(* Nothing brings a transaction for row r, or a refusal of it, nearer.     *)
QuietFor(r) ==
    /\ sends'[r] = sends[r]
    /\ Executing(r)' \subseteq Executing(r)
    /\ \A m \in Ready(queue', held') : m.row = r => m \in Ready(queue, held)
    /\ Refused(r)' => Refused(r)

(* A client that does not send the command of a row only passes on what an *)
(* agent answered.                                                         *)
LEMMA ClientsQuiet ==
    ASSUME IInv, NEW r \in Rows, NEW c \in Clients,
           ClientStep(c) \/ ClientDies(c), ~SendRequest(c)
    PROVE  QuietFor(r)
<1> USE DEF dbVars, clientVars, brokerVars, agentVars, coinVars
<1> DEFINE Still == /\ sends' = sends /\ apc' = apc /\ amsg' = amsg /\ held' = held
                    /\ areply' = areply /\ \A m \in queue' : m.row = r => m \in queue
<1>1. /\ r # NoRow /\ NoAnswer \notin Answers /\ queue \subseteq Messages
      /\ cpc \in [Clients -> ClientStates] /\ crow \in [Clients -> Rows \cup {NoRow}]
      /\ canswer \in [Clients -> Answers \cup {NoAnswer}]
      /\ replies \in [Clients -> SUBSET Answers] /\ corr \in [Clients -> Calls \cup {0}]
      /\ status \in [Rows -> {"none", "not_requested", "processed"} \cup Refusals]
  BY NullsAssumption DEF IInv, TypeOK, NullsAssumption
<1>2. ASSUME Still, Refused(r)' => Refused(r) PROVE QuietFor(r)
  BY <1>2 DEF QuietFor, Executing, Ready
<1>3. ASSUME NEW n \in Amounts, Post(c, n) PROVE QuietFor(r)
  <2>1. Still
    BY <1>1, <1>3 DEF Post, SendCommand
  <2>2. Refused(r)' => Refused(r)
    BY <1>1, <1>3 DEF Post, SendCommand, Refused
  <2> QED
    BY <1>2, <2>1, <2>2
<1>4. ASSUME IgnoreAnswer(c) \/ BalanceAnswered(c) PROVE QuietFor(r)
  <2>1. Still
    BY <1>4 DEF IgnoreAnswer, BalanceAnswered
  <2>2. Refused(r)' => Refused(r)
    BY <1>1, <1>4 DEF IgnoreAnswer, BalanceAnswered, Refused
  <2> QED
    BY <1>2, <2>1, <2>2
<1>5. ASSUME SaveRequest(c) PROVE QuietFor(r)
  <2>1. Still
    BY <1>5 DEF SaveRequest
  <2>2. "not_requested" \notin Refusals
    BY DEF Refusals
  <2>3. Refused(r)' => Refused(r)
    BY <1>1, <1>5, <2>2 DEF SaveRequest, Refused
  <2> QED
    BY <1>2, <2>1, <2>3
<1>6. ASSUME RequestAnswered(c) PROVE QuietFor(r)
  <2>1. Still
    BY <1>6 DEF RequestAnswered
  <2>2. Refused(r)' => Refused(r)
    BY <1>1, <1>6 DEF RequestAnswered, Matches, Refused
  <2> QED
    BY <1>2, <2>1, <2>2
<1>7. ASSUME RecordResult(c) PROVE QuietFor(r)
  <2>1. Still
    BY <1>7 DEF RecordResult
  <2>2. Refused(r)' => Refused(r)
    BY <1>1, <1>7 DEF RecordResult, EndPost, Refused
  <2> QED
    BY <1>2, <2>1, <2>2
<1>8. ASSUME Timeout(c) \/ HealthCheck(c) \/ ClientDies(c) PROVE QuietFor(r)
  <2>1. Still
    BY <1>8 DEF Timeout, HealthCheck, ClientDies
  <2>2. Refused(r)' => Refused(r)
    BY <1>1, <1>8 DEF Timeout, HealthCheck, ClientDies, EndPost, Refused
  <2> QED
    BY <1>2, <2>1, <2>2
<1> QED
  BY <1>3, <1>4, <1>5, <1>6, <1>7, <1>8 DEF ClientStep

(* Nor does an agent that answers, or acknowledges what it answered.       *)
LEMMA AgentsQuiet ==
    ASSUME IInv, NEW r \in Rows, NEW a \in Agents,
           Query(a) \/ QueryFails(a) \/ Reply(a) \/ Ack(a) \/ ConnectionGone(a) \/ Restart(a)
    PROVE  QuietFor(r)
<1> USE DEF dbVars, clientVars, brokerVars, agentVars, coinVars
<1>1. /\ r # NoRow /\ NoAnswer \notin Answers /\ NoMessage \notin Messages
      /\ apc \in [Agents -> AgentStates] /\ held \in [Agents -> Messages \cup {NoMessage}]
      /\ amsg \in [Agents -> Messages \cup {NoMessage}] /\ queue \subseteq Messages
      /\ replies \in [Clients -> SUBSET Answers] /\ areply \in [Agents -> Answers \cup {NoAnswer}]
  BY NullsAssumption DEF IInv, TypeOK, NullsAssumption
<1>2. CASE Query(a) \/ QueryFails(a)
  BY <1>1, <1>2 DEF Query, QueryFails, Answer, QuietFor, Executing, Refused
<1>3. CASE Reply(a)
  <2>1. /\ apc[a] = "reply" /\ apc' = [apc EXCEPT ![a] = "ack"]
        /\ replies' = [replies EXCEPT ![amsg[a].client] = @ \cup {areply[a]}]
        /\ UNCHANGED <<status, clientVars, queue, held, amsg, areply, sends>>
    BY <1>3 DEF Reply
  <2>2. areply[a].call = amsg[a].pos /\ Busy(a)
    BY <2>1 DEF Busy, IInv, AnswerInv
  <2>3. ASSUME NEW c \in Clients, crow[c] = r, cpc[c] = "request",
               areply[a].call = corr[c], areply[a].result \in Refusals
        PROVE  Refused(r)
    <3>1. Waiting(c) /\ Expected(c) = r
      BY <2>3 DEF Waiting, Expected
    <3>2. IsFor(amsg[a], c)
      BY <2>2, <2>3, <3>1 DEF IInv, OwnCommandInv
    <3>3. amsg[a].row = r
      BY <3>1, <3>2 DEF IsFor
    <3> QED
      BY <2>1, <2>3, <3>3 DEF Refused
  <2>4. ASSUME NEW c \in Clients, NEW n \in replies'[c] PROVE n \in replies[c] \/ n = areply[a]
    BY <1>1, <2>1, <2>4
  <2>5. Refused(r)' => Refused(r)
    BY <1>1, <2>1, <2>3, <2>4 DEF Refused
  <2> QED
    BY <1>1, <2>1, <2>5 DEF QuietFor, Executing
<1>4. CASE Ack(a)
  <2>1. Refused(r)' => Refused(r)
    BY <1>1, <1>4 DEF Ack, Refused
  <2> QED
    BY <1>1, <1>4, <2>1 DEF Ack, QuietFor, Executing, Ready
<1>5. CASE ConnectionGone(a)
  <2>1. Refused(r)' => Refused(r)
    BY <1>1, <1>5 DEF ConnectionGone, Exit, Refused
  <2> QED
    BY <1>1, <1>5, <2>1 DEF ConnectionGone, Exit, QuietFor, Executing, Ready
<1>6. CASE Restart(a)
  BY <1>1, <1>6 DEF Restart, QuietFor, Executing, Refused
<1> QED
  BY <1>2, <1>3, <1>4, <1>5, <1>6

(* A withdrawal comes nearer to a transaction only by these steps.         *)
LEMMA CommandFrame ==
    ASSUME IInv, [Next]_vars, NEW r \in Rows
    PROVE  \/ QuietFor(r) \/ \E c \in Clients : SendRequest(c)
           \/ \E a \in Agents : \/ Deliver(a) \/ CheckWithdrawal(a) \/ SendFrom(a)
                                \/ SendRaises(a) \/ BitcoindFails(a) \/ AgentCrash(a)
                                \/ ConnectionLost(a)
<1> USE DEF dbVars, clientVars, brokerVars, agentVars, coinVars
<1>1. ASSUME BrokerRestart PROVE QuietFor(r)
  <2>1. apc \in [Agents -> AgentStates] /\ cpc \in [Clients -> ClientStates]
    BY DEF IInv, TypeOK
  <2>2. \A a \in Agents : apc'[a] \in {"check", "send", "reply", "ack"} => apc[a] = apc'[a]
    BY <1>1, <2>1 DEF BrokerRestart
  <2>3. \A c \in Clients : cpc'[c] = "record" => cpc[c] = "record" /\ crow'[c] = crow[c]
    BY <1>1, <2>1 DEF BrokerRestart, Waiting
  <2>4. replies' = [c \in Clients |-> {}] /\ queue' = {} /\ UNCHANGED <<status, amsg, areply, canswer, sends>>
    BY <1>1 DEF BrokerRestart
  <2>5. Refused(r)' => Refused(r)
    BY <2>2, <2>3, <2>4 DEF Refused
  <2> QED
    BY <2>2, <2>4, <2>5 DEF QuietFor, Executing, Ready
<1>2. ASSUME Mature \/ UNCHANGED vars PROVE QuietFor(r)
  BY <1>2 DEF Mature, vars, QuietFor, Executing, Refused
<1> QED
  BY <1>1, <1>2, ClientsQuiet, AgentsQuiet DEF Next, AgentStep

(* Fewer agents about to send are no more of them.                         *)
LEMMA ExecutingCount ==
    ASSUME NEW r
    PROVE  /\ IsFiniteSet(Executing(r)) /\ IsFiniteSet(Executing(r)')
           /\ Cardinality(Executing(r)) \in Nat /\ Cardinality(Executing(r)') \in Nat
           /\ Executing(r)' \subseteq Executing(r) =>
                Cardinality(Executing(r)') <= Cardinality(Executing(r))
<1>1. Executing(r) \subseteq Agents /\ Executing(r)' \subseteq Agents
  BY DEF Executing
<1>2. IsFiniteSet(Executing(r)) /\ IsFiniteSet(Executing(r)')
  BY <1>1, AgentsAssumption, FS_Subset DEF AgentsAssumption
<1>3. Cardinality(Executing(r)) \in Nat /\ Cardinality(Executing(r)') \in Nat
  BY <1>2, FS_CardinalityType
<1> QED
  BY <1>2, <1>3, FS_Subset

(* A fault that makes the broker deliver again is counted.                 *)
LEMMA RedeliveryCounted ==
    ASSUME IInv, [Next]_vars
    PROVE  /\ Redeliveries \in Nat /\ Redeliveries' \in Nat /\ Redeliveries' >= Redeliveries
           /\ Spend("crash") \/ Spend("drop") \/ Spend("rpc") =>
                Redeliveries' = Redeliveries + 1
<1>1. /\ {"crash", "drop", "rpc"} \subseteq Faults
      /\ budget \in [Faults -> Nat] /\ budget' \in [Faults -> Nat]
  BY TypeStep DEF IInv, TypeOK, Faults
<1>2. \A f \in Faults : /\ Budget[f] \in Nat /\ budget[f] \in Nat /\ budget'[f] \in Nat
                       /\ budget[f] <= Budget[f] /\ budget'[f] <= budget[f]
  BY <1>1, BudgetStep DEF IInv
<1>3. ASSUME NEW kind \in {"crash", "drop", "rpc"}, Spend(kind)
      PROVE  /\ budget'[kind] = budget[kind] - 1
             /\ \A f \in {"crash", "drop", "rpc"} \ {kind} : budget'[f] = budget[f]
  BY <1>1, <1>3 DEF Spend
<1>4. Spend("crash") => Redeliveries' = Redeliveries + 1
  BY <1>1, <1>2, <1>3 DEF Redeliveries, Spent
<1>5. Spend("drop") => Redeliveries' = Redeliveries + 1
  BY <1>1, <1>2, <1>3 DEF Redeliveries, Spent
<1>6. Spend("rpc") => Redeliveries' = Redeliveries + 1
  BY <1>1, <1>2, <1>3 DEF Redeliveries, Spent
<1>7. Redeliveries \in Nat /\ Redeliveries' \in Nat /\ Redeliveries' >= Redeliveries
  BY <1>1, <1>2 DEF Redeliveries, Spent
<1> QED
  BY <1>4, <1>5, <1>6, <1>7

(* Transactions of a withdrawal, made and possible, stay within its        *)
(* deliveries.                                                             *)
LEMMA SendsStep ==
    IInv /\ RowInv /\ DeliveryInv /\ SendsCovered /\ [Next]_vars => SendsCovered'
<1> DEFINE R(r) == IF Refused(r) THEN 1 ELSE 0
           Total(r) == sends[r] + Cardinality(Executing(r)) + Again(r) + R(r)
           Bound == 1 + Redeliveries
<1> SUFFICES ASSUME IInv, RowInv, DeliveryInv, SendsCovered, [Next]_vars, NEW r \in Rows
             PROVE  Total(r)' <= Bound'
  BY DEF SendsCovered
<1> USE DEF dbVars, clientVars, brokerVars, agentVars, coinVars
<1>1. /\ r # NoRow /\ NoAnswer \notin Answers /\ NoMessage \notin Messages
      /\ apc \in [Agents -> AgentStates] /\ held \in [Agents -> Messages \cup {NoMessage}]
      /\ amsg \in [Agents -> Messages \cup {NoMessage}] /\ queue \subseteq Messages
      /\ areply \in [Agents -> Answers \cup {NoAnswer}]
      /\ cpc \in [Clients -> ClientStates] /\ crow \in [Clients -> Rows \cup {NoRow}]
      /\ replies \in [Clients -> SUBSET Answers] /\ corr \in [Clients -> Calls \cup {0}]
      /\ sends \in [Rows -> Nat] /\ sends' \in [Rows -> Nat]
  BY NullsAssumption, TypeStep DEF IInv, TypeOK, NullsAssumption
<1>2. /\ sends[r] \in Nat /\ sends'[r] \in Nat
      /\ Cardinality(Executing(r)) \in Nat /\ Cardinality(Executing(r)') \in Nat
      /\ Again(r) \in {0, 1} /\ Again(r)' \in {0, 1}
      /\ R(r) \in {0, 1} /\ R(r)' \in {0, 1}
      /\ Bound \in Nat /\ Bound' \in Nat /\ Bound >= 1 /\ Bound' >= Bound
  BY <1>1, ExecutingCount, RedeliveryCounted DEF Again
<1>3. sends[r] + Cardinality(Executing(r)) + Again(r) + R(r) <= Bound
  BY DEF SendsCovered
<1>4. /\ Executing(r)' \subseteq Executing(r) =>
           Cardinality(Executing(r)') <= Cardinality(Executing(r))
      /\ (Refused(r)' => Refused(r)) => R(r)' <= R(r)
      /\ (\A m \in Ready(queue', held') : m.row = r => m \in Ready(queue, held)) =>
           Again(r)' <= Again(r)
  BY ExecutingCount DEF Again
<1> HIDE DEF R, Bound
<1>5. CASE QuietFor(r)
  <2>1. /\ sends'[r] = sends[r] /\ Cardinality(Executing(r)') <= Cardinality(Executing(r))
        /\ R(r)' <= R(r) /\ Again(r)' <= Again(r)
    BY <1>4, <1>5 DEF QuietFor
  <2> QED
    BY <1>2, <1>3, <2>1
<1>6. ASSUME NEW c \in Clients, SendRequest(c) PROVE Total(r)' <= Bound'
  <2>1. /\ cpc[c] = "send" /\ cpc' = [cpc EXCEPT ![c] = "request"]
        /\ queue' = queue \cup {[pos |-> calls + 1, client |-> c, row |-> crow[c]]}
        /\ corr' = [corr EXCEPT ![c] = calls + 1]
        /\ UNCHANGED <<sends, apc, amsg, held, areply, status, crow, canswer, replies>>
    BY <1>6 DEF SendRequest, SendCommand
  <2>2. Executing(r)' = Executing(r)
    BY <2>1 DEF Executing
  <2>3. CASE crow[c] = r
    <3>1. Untouched(r)
      BY <2>1, <2>3 DEF RowInv
    <3>2. sends'[r] = 0 /\ Executing(r)' = {}
      BY <2>1, <2>2, <3>1 DEF Untouched, Executing, Busy
    <3>3. \A d \in Clients : crow[d] = r => d = c
      BY <1>1, <2>3 DEF RowInv
    <3>4. \A n \in replies[c] : n.call # calls + 1
      <4>1. calls \in Nat /\ \A n \in replies[c] : n.call \in Nat /\ n.call <= calls
        BY <1>1 DEF IInv, TypeOK, CommandInv, Answers, Calls
      <4> QED
        BY <4>1
    <3>5. ~Refused(r)'
      BY <1>1, <2>1, <3>1, <3>3, <3>4 DEF Refused, Untouched, Busy
    <3>6. R(r)' = 0
      BY <3>5 DEF R
    <3> QED
      BY <1>2, <3>2, <3>6, FS_EmptySet
  <2>4. CASE crow[c] # r
    <3>1. \A m \in Ready(queue', held') : m.row = r => m \in Ready(queue, held)
      BY <2>1, <2>4 DEF Ready
    <3>2. Refused(r)' => Refused(r)
      BY <1>1, <2>1, <2>4 DEF Refused
    <3> QED
      BY <1>5, <2>1, <2>2, <3>1, <3>2 DEF QuietFor
  <2> QED
    BY <2>3, <2>4
<1>7. ASSUME NEW a \in Agents, Deliver(a) PROVE Total(r)' <= Bound'
  <2>1. PICK m \in NextUp(queue, held) :
           held' = [held EXCEPT ![a] = m] /\ amsg' = [amsg EXCEPT ![a] = m]
    BY <1>7 DEF Deliver
  <2>2. /\ apc[a] = "idle" /\ apc' = [apc EXCEPT ![a] = "check"]
        /\ UNCHANGED <<sends, queue, areply, status, crow, canswer, replies, cpc, corr>>
    BY <1>7 DEF Deliver
  <2>3. m \in Ready(queue, held) /\ m \in queue /\ m # NoMessage
    BY <1>1 DEF NextUp, Ready
  <2>4. Refused(r)' => Refused(r)
    BY <1>1, <2>1, <2>2 DEF Refused
  <2>5. held[a] = NoMessage
    BY <2>2 DEF IInv, CommandInv, Busy
  <2>6. CASE m.row = r
    <3>1. Again(r) = 1
      BY <2>3, <2>6 DEF Again
    <3>2. Again(r)' = 0
      BY <1>1, <2>1, <2>2, <2>3, <2>6 DEF Again, Ready, DeliveryInv
    <3>3. Executing(r)' = Executing(r) \cup {a} /\ a \notin Executing(r)
      BY <1>1, <2>1, <2>2, <2>6 DEF Executing
    <3>4. Cardinality(Executing(r)') = Cardinality(Executing(r)) + 1
      BY <3>3, ExecutingCount, FS_AddElement
    <3>5. R(r)' <= R(r)
      BY <1>4, <2>4
    <3> QED
      BY <1>2, <1>3, <2>2, <3>1, <3>2, <3>4, <3>5
  <2>7. CASE m.row # r
    <3>1. \A n \in Ready(queue', held') : n.row = r => n \in Ready(queue, held)
      BY <1>1, <2>1, <2>2, <2>5 DEF Ready
    <3>2. Executing(r)' \subseteq Executing(r)
      BY <1>1, <2>1, <2>2, <2>7 DEF Executing
    <3> QED
      BY <1>5, <2>2, <2>4, <3>1, <3>2 DEF QuietFor
  <2> QED
    BY <2>6, <2>7
<1>8. ASSUME NEW a \in Agents, CheckWithdrawal(a) \/ SendFrom(a) PROVE Total(r)' <= Bound'
  <2>1. /\ apc[a] \in {"check", "send"} /\ \A b \in Agents \ {a} : apc'[b] = apc[b]
        /\ \A b \in Agents \ {a} : areply'[b] = areply[b]
        /\ apc'[a] \in {"send", "reply"} /\ amsg' = amsg
        /\ UNCHANGED <<queue, held, status, crow, canswer, replies, cpc, corr>>
    BY <1>1, <1>8 DEF CheckWithdrawal, SendFrom, Answer
  <2>2. Executing(r)' \subseteq Executing(r)
    BY <1>1, <2>1 DEF Executing
  <2>3. Again(r)' = Again(r)
    BY <2>1 DEF Again
  <2>4. CASE amsg[a].row # r
    <3>1. sends'[r] = sends[r]
      BY <1>1, <1>8, <2>4 DEF CheckWithdrawal, SendFrom, Transact
    <3>2. Refused(r)' => Refused(r)
      BY <2>1, <2>4 DEF Refused
    <3> QED
      BY <1>5, <2>1, <2>2, <3>1, <3>2 DEF QuietFor
  <2>5. CASE amsg[a].row = r /\ SendFrom(a)
    <3>1. sends'[r] = sends[r] + 1
      BY <1>1, <2>5 DEF SendFrom, Transact
    <3>2. Executing(r)' = Executing(r) \ {a} /\ a \in Executing(r)
      BY <1>1, <2>1, <2>5 DEF SendFrom, Answer, Executing
    <3>3. Cardinality(Executing(r)') = Cardinality(Executing(r)) - 1
      BY <3>2, ExecutingCount, FS_RemoveElement
    <3>4. areply'[a].result \notin Refusals
      BY <1>1, <2>5 DEF SendFrom, Answer, Refusals
    <3>5. Refused(r)' => Refused(r)
      BY <2>1, <3>4 DEF Refused
    <3>6. R(r)' <= R(r)
      BY <1>4, <3>5
    <3> QED
      BY <1>2, <1>3, <2>3, <3>1, <3>3, <3>6
  <2>6. CASE amsg[a].row = r /\ CheckWithdrawal(a) /\ apc'[a] = "reply"
    <3>1. sends'[r] = sends[r]
      BY <2>6 DEF CheckWithdrawal
    <3>2. Executing(r)' = Executing(r) \ {a} /\ a \in Executing(r)
      BY <1>1, <2>1, <2>6 DEF Executing
    <3>3. Cardinality(Executing(r)') = Cardinality(Executing(r)) - 1
      BY <3>2, ExecutingCount, FS_RemoveElement
    <3> QED
      BY <1>2, <1>3, <2>3, <3>1, <3>3
  <2>7. CASE CheckWithdrawal(a) /\ apc'[a] = "send"
    <3>1. sends'[r] = sends[r]
      BY <2>7 DEF CheckWithdrawal
    <3>2. Refused(r)' => Refused(r)
      BY <2>1, <2>7 DEF Refused
    <3> QED
      BY <1>5, <2>1, <2>2, <3>1, <3>2 DEF QuietFor
  <2> QED
    BY <1>8, <2>1, <2>4, <2>5, <2>6, <2>7
<1>9. ASSUME NEW a \in Agents, Exit(a),
             UNCHANGED <<queue, status, crow, canswer, replies, cpc, corr>>
      PROVE  Executing(r)' = Executing(r) \ {a} /\ R(r)' <= R(r)
  <2>1. Refused(r)' => Refused(r)
    BY <1>1, <1>9 DEF Exit, Refused
  <2> QED
    BY <1>1, <1>4, <1>9, <2>1 DEF Exit, Executing
<1>10. ASSUME NEW a \in Agents, SendRaises(a) \/ BitcoindFails(a) PROVE Total(r)' <= Bound'
  <2>1. /\ Exit(a) /\ apc[a] \in {"check", "send"}
        /\ UNCHANGED <<queue, status, crow, canswer, replies, cpc, corr>>
        /\ sends'[r] = sends[r] \/ (BitcoindFails(a) /\ sends'[r] = sends[r] + 1)
        /\ amsg[a].row # r => sends'[r] = sends[r]
    BY <1>1, <1>10 DEF SendRaises, BitcoindFails, Transact
  <2>2. Executing(r)' = Executing(r) \ {a} /\ R(r)' <= R(r)
    BY <1>9, <2>1
  <2>3. CASE amsg[a].row # r
    <3>1. held[a] # NoMessage => held[a].row # r
      BY <2>3 DEF IInv, CommandInv
    <3>2. \A m \in Ready(queue', held') : m.row = r => m \in Ready(queue, held)
      BY <1>1, <2>1, <3>1 DEF Exit, Ready
    <3>3. Cardinality(Executing(r)') <= Cardinality(Executing(r))
      BY <1>4, <2>2
    <3>4. Again(r)' <= Again(r) /\ sends'[r] = sends[r]
      BY <1>4, <2>1, <2>3, <3>2
    <3> QED
      BY <1>2, <1>3, <2>2, <3>3, <3>4
  <2>4. CASE amsg[a].row = r
    <3>1. a \in Executing(r)
      BY <2>1, <2>4 DEF Executing
    <3>2. Cardinality(Executing(r)') = Cardinality(Executing(r)) - 1
      BY <2>2, <3>1, ExecutingCount, FS_RemoveElement
    <3>3. CASE sends'[r] = sends[r]
      BY <1>2, <1>3, <2>2, <3>2, <3>3
    <3>4. CASE BitcoindFails(a) /\ sends'[r] = sends[r] + 1
      <4>1. Bound' = Bound + 1
        BY <3>4, RedeliveryCounted DEF BitcoindFails, Bound
      <4> QED
        BY <1>2, <1>3, <2>2, <3>2, <3>4, <4>1
    <3> QED
      BY <2>1, <3>3, <3>4
  <2> QED
    BY <2>3, <2>4
<1>11. ASSUME NEW a \in Agents, AgentCrash(a) \/ ConnectionLost(a) PROVE Total(r)' <= Bound'
  <2>1. Bound' = Bound + 1
    BY <1>11, RedeliveryCounted DEF AgentCrash, ConnectionLost, Bound
  <2>2. Executing(r)' \subseteq Executing(r) /\ R(r)' <= R(r) /\ sends'[r] = sends[r]
    <3>1. CASE AgentCrash(a)
      BY <1>9, <3>1 DEF AgentCrash
    <3>2. CASE ConnectionLost(a)
      <4>1. Refused(r)' => Refused(r)
        BY <3>2 DEF ConnectionLost, Refused
      <4> QED
        BY <1>4, <3>2, <4>1 DEF ConnectionLost, Executing
    <3> QED
      BY <1>11, <3>1, <3>2
  <2> QED
    BY <1>2, <1>3, <1>4, <2>1, <2>2
<1> QED
  BY <1>5, <1>6, <1>7, <1>8, <1>10, <1>11, CommandFrame

(* user_withdrawl in _rpc_callback: a withdrawal is sent once, and once    *)
(* more for each crash, lost connection or failure of bitcoind at most; one*)
(* recorded as refused is sent for those only.                             *)
THEOREM SentAsDelivered == Spec => []SentOncePerDelivery
<1> DEFINE SendInv == IInv /\ RowInv /\ DeliveryInv /\ SendsCovered
<1>1. Init => SendInv
  <2> SUFFICES ASSUME Init PROVE RowInv /\ DeliveryInv /\ SendsCovered
    BY InitInv
  <2>1. RowInv /\ DeliveryInv
    BY DEF Init, RowInv, DeliveryInv, Untouched, Busy, Saved, Refusals
  <2>2. ASSUME NEW r \in Rows
        PROVE  sends[r] + Cardinality(Executing(r)) + Again(r) + (IF Refused(r) THEN 1 ELSE 0)
                 <= 1 + Redeliveries
    <3>1. Executing(r) = {} /\ Again(r) = 0 /\ sends[r] = 0 /\ ~Refused(r)
      BY DEF Init, Executing, Again, Ready, Refused, Refusals
    <3>2. Redeliveries = 0
      BY DEF Init, Redeliveries, Spent, Faults
    <3> QED
      BY <3>1, <3>2, FS_EmptySet
  <2> QED
    BY <2>1, <2>2 DEF SendsCovered
<1>2. SendInv /\ [Next]_vars => SendInv'
  BY StepInv, RowStep, DeliveryStep, SendsStep
<1>3. SendInv => SentOncePerDelivery
  <2> SUFFICES ASSUME SendInv, NEW r \in Rows
               PROVE  sends[r] <= (IF status[r] \in Refusals THEN 0 ELSE 1) + Redeliveries
    BY DEF SentOncePerDelivery
  <2>1. sends[r] \in Nat /\ Cardinality(Executing(r)) \in Nat /\ Again(r) \in Nat
    BY ExecutingCount DEF IInv, TypeOK, Again
  <2>2. Redeliveries \in Int
    BY DEF IInv, TypeOK, Redeliveries, Spent, Faults
  <2>3. sends[r] + Cardinality(Executing(r)) + Again(r) + (IF Refused(r) THEN 1 ELSE 0)
          <= 1 + Redeliveries
    BY DEF SendsCovered
  <2>4. status[r] \in Refusals => Refused(r)
    BY DEF Refused
  <2> QED
    BY <2>1, <2>2, <2>3, <2>4
<1> QED
  BY <1>1, <1>2, <1>3, PTL DEF Spec

=============================================================================

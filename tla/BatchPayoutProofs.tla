-------------------------- MODULE BatchPayoutProofs --------------------------
(***************************************************************************)
(* Theorems about BatchPayout, for every set of sales, merchants, requests *)
(* and workers, every bound on the batches and every budget of faults.     *)
(***************************************************************************)
EXTENDS BatchPayout, FiniteSetTheorems, TLAPS

USE BatchesAssumption, ProcessesAssumption, BudgetAssumption, MerchantAssumption

-----------------------------------------------------------------------------
(* Faults only use up the budget.                                          *)
LEMMA SpendDecreases ==
    ASSUME budget \in [Faults -> Nat], NEW kind \in Faults, Spend(kind)
    PROVE  /\ budget' \in [Faults -> Nat]
           /\ \A f \in Faults : budget'[f] <= budget[f]
           /\ budget'[kind] < budget[kind]
  BY DEF Spend

(* A request that writes has the id of its row.                            *)
LEMMA WritingHasId ==
    ASSUME RequestInv, NEW r \in Requests, rpc[r] \in {"publishing", "committing"}
    PROVE  rbatch[r] \in BatchIds
  BY DEF RequestInv, Writing

(* A worker that got past the lookup acts on a committed batch.            *)
LEMMA LoadedIsCommitted ==
    ASSUME WorkerInv, NEW w \in Workers, wpc[w] \notin {"idle", "down", "lookup"}
    PROVE  wbatch[w] \in committed
  BY DEF WorkerInv

-----------------------------------------------------------------------------
(* Types.                                                                  *)

(* Every step from a state of the invariant keeps every type.              *)
LEMMA TypeStep == IInv /\ [Next]_vars => TypeOK'
<1> SUFFICES ASSUME TypeOK, RequestInv, WorkerInv, [Next]_vars PROVE TypeOK'
  BY DEF IInv
<1> USE DEF TypeOK, dbVars, requestVars, brokerVars, workerVars, apiVars, faultVars
<1>1. ASSUME NEW s \in Sales, TransactionCompletes(s)
      PROVE  TypeOK'
  BY <1>1 DEF TransactionCompletes
<1>2. ASSUME NEW r \in Requests, NEW m \in Merchants, BeginBatch(r, m)
      PROVE  TypeOK'
  BY <1>2 DEF BeginBatch, RequestStates
<1>3. ASSUME NEW r \in Requests, CheckTransaction(r)
      PROVE  TypeOK'
  BY <1>3 DEF CheckTransaction
<1>4. ASSUME NEW r \in Requests, NothingToBatch(r)
      PROVE  TypeOK'
  BY <1>4 DEF NothingToBatch, RequestStates
<1>5. ASSUME NEW r \in Requests, CreateBatch(r)
      PROVE  TypeOK'
  <2>1. nextBatch \in BatchIds /\ nextBatch' \in 1..MaxBatches + 1
    BY <1>5 DEF CreateBatch, BatchIds
  <2> QED
    BY <1>5, <2>1 DEF CreateBatch, RequestStates
<1>6. ASSUME NEW r \in Requests, Publish(r)
      PROVE  TypeOK'
  BY <1>6, WritingHasId DEF Publish, RequestStates, Messages
<1>7. ASSUME NEW r \in Requests, PublishRefused(r)
      PROVE  TypeOK'
  BY <1>7, WritingHasId, SpendDecreases DEF PublishRefused, RequestStates, Faults
<1>8. ASSUME NEW r \in Requests, Commit(r)
      PROVE  TypeOK'
  BY <1>8, WritingHasId DEF Commit, Finish, RequestStates
<1>9. ASSUME NEW r \in Requests, RequestFails(r)
      PROVE  TypeOK'
  BY <1>9, SpendDecreases DEF RequestFails, Finish, RequestStates, Faults
<1>10. ASSUME NEW w \in Workers, Deliver(w)
      PROVE  TypeOK'
  BY <1>10 DEF Deliver, NextUp, Ready, Messages, WorkerStates
<1>11. ASSUME NEW w \in Workers, BatchMissing(w)
      PROVE  TypeOK'
  BY <1>11 DEF BatchMissing, Exit, WorkerStates, Aggregators
<1>12. ASSUME NEW w \in Workers, LoadBatch(w)
      PROVE  TypeOK'
  BY <1>12 DEF LoadBatch, WorkerStates
<1>13. ASSUME NEW w \in Workers, SendServiceFee(w)
      PROVE  TypeOK'
  BY <1>13, LoadedIsCommitted DEF SendServiceFee, WorkerStates
<1>14. ASSUME NEW w \in Workers, SellBitcoin(w)
      PROVE  TypeOK'
  BY <1>14, LoadedIsCommitted DEF SellBitcoin, WorkerStates
<1>15. ASSUME NEW w \in Workers, PaymentFails(w)
      PROVE  TypeOK'
  BY <1>15, LoadedIsCommitted, SpendDecreases DEF PaymentFails, WorkerStates, Faults
<1>16. ASSUME NEW w \in Workers, SaveBatch(w)
      PROVE  TypeOK'
  BY <1>16, LoadedIsCommitted DEF SaveBatch, WorkerStates
<1>17. ASSUME NEW w \in Workers, SelectBatches(w)
      PROVE  TypeOK'
  BY <1>17 DEF SelectBatches, Unaggregated, WorkerStates, Aggregators
<1>18. ASSUME NEW w \in Workers, AggregatesDone(w)
      PROVE  TypeOK'
  BY <1>18 DEF AggregatesDone, WorkerStates
<1>19. ASSUME NEW w \in Workers, Ack(w)
      PROVE  TypeOK'
  BY <1>19 DEF Ack, WorkerStates
<1>20. ASSUME NEW w \in Workers, ConsumeFails(w)
      PROVE  TypeOK'
  BY <1>20 DEF ConsumeFails, Exit, WorkerStates, Aggregators
<1>21. ASSUME NEW w \in Workers, WorkerCrash(w)
      PROVE  TypeOK'
  BY <1>21, SpendDecreases DEF WorkerCrash, Exit, WorkerStates, Aggregators, Faults
<1>22. ASSUME NEW w \in Workers, ConnectionLost(w)
      PROVE  TypeOK'
  BY <1>22, SpendDecreases DEF ConnectionLost, Faults
<1>23. ASSUME NEW w \in Workers, Restart(w)
      PROVE  TypeOK'
  BY <1>23 DEF Restart, WorkerStates
<1>24. ASSUME NEW p \in Aggregators, AggregateBatch(p)
      PROVE  TypeOK'
  BY <1>24 DEF AggregateBatch, Members
<1>25. ASSUME NEW p \in Aggregators, AggregateFails(p)
      PROVE  TypeOK'
  BY <1>25 DEF AggregateFails, WorkerStates
<1>26. ASSUME CronStart
      PROVE  TypeOK'
  BY <1>26 DEF CronStart, Unaggregated, Aggregators
<1>27. ASSUME BrokerRestart
      PROVE  TypeOK'
  BY <1>27, SpendDecreases DEF BrokerRestart, WorkerStates, Faults
<1>28. ASSUME UNCHANGED vars
      PROVE  TypeOK'
  BY <1>28 DEF vars
<1> QED
  BY <1>1, <1>2, <1>3, <1>4, <1>5, <1>6, <1>7, <1>8, <1>9, <1>10, <1>11, <1>12, <1>13, <1>14, <1>15, <1>16, <1>17, <1>18, <1>19, <1>20, <1>21, <1>22, <1>23, <1>24, <1>25, <1>26, <1>27, <1>28 DEF Next, RequestStep, WorkerStep

-----------------------------------------------------------------------------
(* What every step leaves or only adds to.                                 *)

(* Committed and paid batches, confirmed sales and refusals accumulate.    *)
LEMMA Monotone ==
    ASSUME IInv, [Next]_vars
    PROVE  /\ committed \subseteq committed' /\ paid \subseteq paid'
           /\ complete \subseteq complete' /\ refused \subseteq refused'
           /\ nextBatch <= nextBatch'
<1> USE DEF IInv, TypeOK, dbVars, requestVars, brokerVars, workerVars, apiVars, faultVars
<1> DEFINE Grows == /\ committed \subseteq committed' /\ paid \subseteq paid'
             /\ complete \subseteq complete' /\ refused \subseteq refused'
             /\ nextBatch <= nextBatch'
<1>1. ASSUME NEW s \in Sales, TransactionCompletes(s) PROVE Grows
  BY <1>1 DEF TransactionCompletes
<1>2. ASSUME NEW r \in Requests, NEW m \in Merchants, BeginBatch(r, m) PROVE Grows
  BY <1>2 DEF BeginBatch
<1>3. ASSUME NEW r \in Requests, RequestStep(r) \/ PublishRefused(r) \/ RequestFails(r)
      PROVE  Grows
  BY <1>3 DEF RequestStep, CheckTransaction, NothingToBatch, CreateBatch, Publish, PublishRefused, Commit, RequestFails, Finish
<1>4. ASSUME NEW w \in Workers, WorkerStep(w) \/ PaymentFails(w)
      PROVE  Grows
  BY <1>4 DEF WorkerStep, Deliver, BatchMissing, LoadBatch, SendServiceFee, SellBitcoin,
         PaymentFails, SaveBatch, SelectBatches, AggregatesDone, Ack, ConsumeFails
<1>5. ASSUME NEW w \in Workers, WorkerCrash(w) \/ ConnectionLost(w) \/ Restart(w)
      PROVE  Grows
  BY <1>5 DEF WorkerCrash, ConnectionLost, Restart
<1>6. ASSUME NEW p \in Aggregators, AggregateBatch(p) \/ AggregateFails(p)
      PROVE  Grows
  BY <1>6 DEF AggregateBatch, AggregateFails
<1>7. CASE CronStart \/ BrokerRestart
  BY <1>7 DEF CronStart, BrokerRestart
<1>8. CASE UNCHANGED vars
  BY <1>8 DEF vars
<1> QED
  BY <1>1, <1>2, <1>3, <1>4, <1>5, <1>6, <1>7, <1>8 DEF Next

(* No fault is ever undone.                                                *)
LEMMA BudgetStep ==
    ASSUME IInv, [Next]_vars
    PROVE  \A f \in Faults : budget'[f] <= budget[f]
<1> DEFINE Shrinks == \A f \in Faults : budget'[f] <= budget[f]
<1>1. budget \in [Faults -> Nat] /\ {"abort", "refuse", "api", "crash", "drop", "broker"} \subseteq Faults
  BY DEF IInv, TypeOK, Faults
<1>2. budget' = budget => Shrinks
  BY <1>1
<1>3. ASSUME NEW kind \in Faults, Spend(kind) PROVE Shrinks
  BY <1>1, <1>3, SpendDecreases
<1>4. ASSUME NEW r \in Requests, RequestStep(r) \/ PublishRefused(r) \/ RequestFails(r)
      PROVE  Shrinks
  <2>1. budget' = budget \/ Spend("refuse") \/ Spend("abort")
    BY <1>4 DEF RequestStep, CheckTransaction, NothingToBatch, CreateBatch, Publish, Commit,
           PublishRefused, RequestFails, faultVars
  <2> QED
    BY <2>1, <1>1, <1>2, <1>3
<1>5. ASSUME NEW w \in Workers,
             WorkerStep(w) \/ PaymentFails(w) \/ WorkerCrash(w) \/ ConnectionLost(w) \/ Restart(w)
      PROVE  Shrinks
  <2>1. budget' = budget \/ Spend("api") \/ Spend("crash") \/ Spend("drop")
    BY <1>5 DEF WorkerStep, Deliver, BatchMissing, LoadBatch, SendServiceFee, SellBitcoin,
           PaymentFails, SaveBatch, SelectBatches, AggregatesDone, Ack, ConsumeFails,
           WorkerCrash, ConnectionLost, Restart, faultVars
  <2> QED
    BY <2>1, <1>1, <1>2, <1>3
<1>6. ASSUME NEW s \in Sales, TransactionCompletes(s) PROVE Shrinks
  BY <1>6, <1>2 DEF TransactionCompletes, faultVars
<1>7. ASSUME NEW r \in Requests, NEW m \in Merchants, BeginBatch(r, m) PROVE Shrinks
  BY <1>7, <1>2 DEF BeginBatch, faultVars
<1>8. ASSUME NEW p \in Aggregators, AggregateBatch(p) \/ AggregateFails(p) PROVE Shrinks
  BY <1>8, <1>2 DEF AggregateBatch, AggregateFails, faultVars
<1>9. CASE CronStart \/ UNCHANGED vars
  BY <1>9, <1>2 DEF CronStart, vars, faultVars
<1>10. CASE BrokerRestart
  BY <1>10, <1>1, <1>3 DEF BrokerRestart
<1> QED
  BY <1>4, <1>5, <1>6, <1>7, <1>8, <1>9, <1>10 DEF Next

(* Only an acknowledgement and a restart of the broker remove a message.   *)
LEMMA QueueStep ==
    ASSUME IInv, [Next]_vars
    PROVE  queue \subseteq queue' \/ (\E w \in Workers : Ack(w)) \/ BrokerRestart
<1> USE DEF brokerVars
<1>1. ASSUME NEW r \in Requests, RequestStep(r) \/ PublishRefused(r) \/ RequestFails(r)
      PROVE  queue \subseteq queue'
  BY <1>1 DEF RequestStep, CheckTransaction, NothingToBatch, CreateBatch, Publish, Commit,
         PublishRefused, RequestFails
<1>2. ASSUME NEW w \in Workers, ~Ack(w),
             WorkerStep(w) \/ PaymentFails(w) \/ WorkerCrash(w) \/ ConnectionLost(w) \/ Restart(w)
      PROVE  queue \subseteq queue'
  BY <1>2 DEF WorkerStep, Deliver, BatchMissing, LoadBatch, SendServiceFee, SellBitcoin,
         PaymentFails, SaveBatch, SelectBatches, AggregatesDone, ConsumeFails,
         WorkerCrash, ConnectionLost, Restart
<1>3. ASSUME NEW s \in Sales, TransactionCompletes(s) PROVE queue \subseteq queue'
  BY <1>3 DEF TransactionCompletes
<1>4. ASSUME NEW r \in Requests, NEW m \in Merchants, BeginBatch(r, m)
      PROVE  queue \subseteq queue'
  BY <1>4 DEF BeginBatch
<1>5. ASSUME NEW p \in Aggregators, AggregateBatch(p) \/ AggregateFails(p)
      PROVE  queue \subseteq queue'
  BY <1>5 DEF AggregateBatch, AggregateFails
<1>6. CASE CronStart \/ UNCHANGED vars
  BY <1>6 DEF CronStart, vars
<1> QED
  BY <1>1, <1>2, <1>3, <1>4, <1>5, <1>6 DEF Next

(* A batch that is announced and not paid stays announced: the message a   *)
(* worker acknowledges names a batch that is paid.                         *)
LEMMA AnnouncedStep ==
    ASSUME IInv, [Next]_vars, NEW b \in BatchIds, Announced(b), b \notin paid
    PROVE  Announced(b)'
<1>1. CASE b \in refused
  BY <1>1, Monotone DEF Announced
<1>2. CASE Spent("broker") > 0
  <2>1. /\ "broker" \in Faults
        /\ budget \in [Faults -> Nat] /\ budget' \in [Faults -> Nat]
    BY TypeStep DEF IInv, TypeOK, Faults
  <2> QED
    BY <1>2, <2>1, BudgetStep DEF Announced, Spent
<1>3. CASE \E m \in queue : m.batch = b
  <2>1. PICK m \in queue : m.batch = b
    BY <1>3
  <2>2. CASE queue \subseteq queue'
    BY <2>1, <2>2 DEF Announced
  <2>3. ASSUME NEW w \in Workers, Ack(w) PROVE Announced(b)'
    <3>1. held[w].batch = wbatch[w] /\ wbatch[w] \in paid
      BY <2>3 DEF Ack, IInv, WorkerInv
    <3>2. m # held[w]
      BY <2>1, <3>1
    <3> QED
      BY <2>1, <2>3, <3>2 DEF Ack, Announced
  <2>4. CASE BrokerRestart
    <3>1. "broker" \in Faults /\ budget \in [Faults -> Nat] /\ budget' \in [Faults -> Nat]
      BY TypeStep DEF IInv, TypeOK, Faults
    <3>2. budget'["broker"] < budget["broker"] /\ budget["broker"] <= Budget["broker"]
      BY <2>4, <3>1, SpendDecreases DEF BrokerRestart, IInv
    <3> QED
      BY <3>1, <3>2 DEF Announced, Spent
  <2> QED
    BY <2>2, <2>3, <2>4, QueueStep
<1> QED
  BY <1>1, <1>2, <1>3 DEF Announced

-----------------------------------------------------------------------------
(* The other parts of the invariant.                                       *)

(* Rows of summed change, and ids are used up, only where a request does.  *)
LEMMA RowsStep ==
    ASSUME IInv, [Next]_vars
    PROVE  \/ summed' = summed /\ committed' = committed
           \/ \E r \in Requests : Commit(r)
<1> USE DEF dbVars
<1>1. ASSUME NEW r \in Requests, RequestStep(r) \/ PublishRefused(r) \/ RequestFails(r)
      PROVE  Commit(r) \/ (summed' = summed /\ committed' = committed)
  BY <1>1 DEF RequestStep, CheckTransaction, NothingToBatch, CreateBatch, Publish,
         PublishRefused, RequestFails
<1>2. ASSUME NEW w \in Workers,
             WorkerStep(w) \/ PaymentFails(w) \/ WorkerCrash(w) \/ ConnectionLost(w) \/ Restart(w)
      PROVE  summed' = summed /\ committed' = committed
  BY <1>2 DEF WorkerStep, Deliver, BatchMissing, LoadBatch, SendServiceFee, SellBitcoin,
         PaymentFails, SaveBatch, SelectBatches, AggregatesDone, Ack, ConsumeFails,
         WorkerCrash, ConnectionLost, Restart
<1>3. ASSUME NEW s \in Sales, TransactionCompletes(s)
      PROVE  summed' = summed /\ committed' = committed
  BY <1>3 DEF TransactionCompletes
<1>4. ASSUME NEW r \in Requests, NEW m \in Merchants, BeginBatch(r, m)
      PROVE  summed' = summed /\ committed' = committed
  BY <1>4 DEF BeginBatch
<1>5. ASSUME NEW p \in Aggregators, AggregateBatch(p) \/ AggregateFails(p)
      PROVE  summed' = summed /\ committed' = committed
  BY <1>5 DEF AggregateBatch, AggregateFails
<1>6. CASE CronStart \/ BrokerRestart \/ UNCHANGED vars
  BY <1>6 DEF CronStart, BrokerRestart, vars
<1> QED
  BY <1>1, <1>2, <1>3, <1>4, <1>5, <1>6 DEF Next

(* A batch is paid only when the row was loaded, that is, committed.       *)
LEMMA PaidStep ==
    ASSUME IInv, [Next]_vars
    PROVE  paid' = paid \/ \E w \in Workers : wbatch[w] \in committed /\ paid' = paid \cup {wbatch[w]}
<1> USE DEF dbVars
<1>1. ASSUME NEW r \in Requests, RequestStep(r) \/ PublishRefused(r) \/ RequestFails(r)
      PROVE  paid' = paid
  BY <1>1 DEF RequestStep, CheckTransaction, NothingToBatch, CreateBatch, Publish,
         Commit, PublishRefused, RequestFails
<1>2. ASSUME NEW w \in Workers, ~SaveBatch(w),
             WorkerStep(w) \/ PaymentFails(w) \/ WorkerCrash(w) \/ ConnectionLost(w) \/ Restart(w)
      PROVE  paid' = paid
  BY <1>2 DEF WorkerStep, Deliver, BatchMissing, LoadBatch, SendServiceFee, SellBitcoin,
         PaymentFails, SelectBatches, AggregatesDone, Ack, ConsumeFails,
         WorkerCrash, ConnectionLost, Restart
<1>3. ASSUME NEW w \in Workers, SaveBatch(w)
      PROVE  wbatch[w] \in committed /\ paid' = paid \cup {wbatch[w]}
  BY <1>3, LoadedIsCommitted DEF SaveBatch, IInv
<1>4. ASSUME NEW s \in Sales, TransactionCompletes(s) PROVE paid' = paid
  BY <1>4 DEF TransactionCompletes
<1>5. ASSUME NEW r \in Requests, NEW m \in Merchants, BeginBatch(r, m) PROVE paid' = paid
  BY <1>5 DEF BeginBatch
<1>6. ASSUME NEW p \in Aggregators, AggregateBatch(p) \/ AggregateFails(p) PROVE paid' = paid
  BY <1>6 DEF AggregateBatch, AggregateFails
<1>7. CASE CronStart \/ BrokerRestart \/ UNCHANGED vars
  BY <1>7 DEF CronStart, BrokerRestart, vars
<1> QED
  BY <1>1, <1>2, <1>3, <1>4, <1>5, <1>6, <1>7 DEF Next

(* Committed batches stay well-formed; Commit adds one that is.            *)
LEMMA CommittedStep == IInv /\ [Next]_vars => CommittedInv'
<1> SUFFICES ASSUME IInv, [Next]_vars PROVE CommittedInv'
  OBVIOUS
<1>1. paid' \subseteq committed'
  BY PaidStep, Monotone DEF IInv, CommittedInv
<1>2. nextBatch \in Int /\ nextBatch' \in Int /\ committed \subseteq BatchIds /\ BatchIds \subseteq Int
  BY TypeStep DEF IInv, TypeOK, BatchIds
<1>3. CASE summed' = summed /\ committed' = committed
  BY <1>1, <1>2, <1>3, Monotone DEF IInv, CommittedInv, OneMerchant
<1>4. ASSUME NEW r \in Requests, Commit(r)
      PROVE  CommittedInv'
  <2>1. /\ rbatch[r] \in BatchIds /\ rbatch[r] < nextBatch /\ rbatch[r] \notin committed
        /\ rlist[r] # {} /\ rlist[r] \subseteq complete /\ OneMerchant(rlist[r])
    BY <1>4 DEF Commit, IInv, RequestInv, Writing, OneMerchant
  <2>2. /\ committed' = committed \cup {rbatch[r]}
        /\ nextBatch' = nextBatch /\ complete' = complete
        /\ summed' = [summed EXCEPT ![rbatch[r]] = rlist[r]]
    BY <1>4 DEF Commit, apiVars
  <2>3. summed \in [BatchIds -> SUBSET Sales]
    BY DEF IInv, TypeOK
  <2>4. ASSUME NEW b \in committed'
        PROVE  b < nextBatch' /\ summed'[b] # {} /\ summed'[b] \subseteq complete' /\ OneMerchant(summed'[b])
    <3>1. CASE b = rbatch[r]
      BY <2>1, <2>2, <2>3, <3>1
    <3>2. CASE b # rbatch[r]
      BY <1>2, <2>2, <2>3, <2>4, <3>2 DEF IInv, CommittedInv
    <3> QED
      BY <3>1, <3>2
  <2> QED
    BY <1>1, <2>4 DEF CommittedInv, OneMerchant
<1> QED
  BY <1>3, <1>4, RowsStep

(* A batch that is made or was made is announced until it is paid.         *)
LEMMA ForgottenStep == IInv /\ [Next]_vars => NoBatchForgotten'
<1> SUFFICES ASSUME IInv, [Next]_vars, NEW b \in committed' \ paid'
             PROVE  Announced(b)'
  BY DEF NoBatchForgotten, Announced, Spent
<1>1. b \in BatchIds
  BY TypeStep DEF TypeOK
<1>2. b \notin paid
  BY Monotone
<1>3. CASE b \in committed
  BY <1>1, <1>2, <1>3, AnnouncedStep DEF IInv, NoBatchForgotten
<1>4. ASSUME NEW r \in Requests, Commit(r), b \notin committed
      PROVE  Announced(b)'
  <2>1. b = rbatch[r] /\ rpc[r] = "committing"
    BY <1>4 DEF Commit
  <2> QED
    BY <1>1, <1>2, <2>1, AnnouncedStep DEF IInv, RequestInv
<1> QED
  BY <1>3, <1>4, RowsStep

(* The local state of request r is the same after the step.                *)
SameRequest(r) ==
    /\ rpc'[r] = rpc[r] /\ rtodo'[r] = rtodo[r]
    /\ rlist'[r] = rlist[r] /\ rbatch'[r] = rbatch[r]

(* The invariant of one request.                                           *)
RequestOK(r) ==
    /\ rlist[r] \subseteq complete
    /\ OneMerchant(rtodo[r] \cup rlist[r])
    /\ rpc[r] = "idle" => rlist[r] = {}
    /\ Writing(r) =>
         /\ rbatch[r] \in BatchIds /\ rbatch[r] < nextBatch
         /\ rbatch[r] \notin committed
         /\ rlist[r] # {}
    /\ rpc[r] = "committing" => Announced(rbatch[r])

(* Only requests change the state of a request.                            *)
LEMMA RequestFrame ==
    ASSUME [Next]_vars
    PROVE  \/ UNCHANGED requestVars
           \/ \E r \in Requests, m \in Merchants : BeginBatch(r, m)
           \/ \E r \in Requests : RequestStep(r) \/ PublishRefused(r) \/ RequestFails(r)
<1>1. ASSUME NEW w \in Workers,
             WorkerStep(w) \/ PaymentFails(w) \/ WorkerCrash(w) \/ ConnectionLost(w) \/ Restart(w)
      PROVE  UNCHANGED requestVars
  BY <1>1 DEF WorkerStep, Deliver, BatchMissing, LoadBatch, SendServiceFee, SellBitcoin,
         PaymentFails, SaveBatch, SelectBatches, AggregatesDone, Ack, ConsumeFails,
         WorkerCrash, ConnectionLost, Restart
<1>2. ASSUME NEW s \in Sales, TransactionCompletes(s) PROVE UNCHANGED requestVars
  BY <1>2 DEF TransactionCompletes
<1>3. ASSUME NEW p \in Aggregators, AggregateBatch(p) \/ AggregateFails(p)
      PROVE  UNCHANGED requestVars
  BY <1>3 DEF AggregateBatch, AggregateFails
<1>4. CASE CronStart \/ BrokerRestart \/ UNCHANGED vars
  BY <1>4 DEF CronStart, BrokerRestart, vars
<1> QED
  BY <1>1, <1>2, <1>3, <1>4 DEF Next

(* A request that does nothing keeps its invariant, unless another commits *)
(* its row.                                                                *)
LEMMA WaitingRequest ==
    ASSUME IInv, [Next]_vars, NEW r \in Requests, SameRequest(r),
           Writing(r) => rbatch[r] \notin committed'
    PROVE  RequestOK(r)'
<1>1. RequestOK(r) /\ paid \subseteq committed
  BY DEF IInv, RequestInv, RequestOK, CommittedInv
<1>2. complete \subseteq complete' /\ nextBatch <= nextBatch'
  BY Monotone
<1>3. nextBatch \in Int /\ nextBatch' \in Int /\ BatchIds \subseteq Int
  <2>1. TypeOK /\ TypeOK'
    BY TypeStep DEF IInv
  <2> QED
    BY <2>1 DEF TypeOK, BatchIds
<1>4. ASSUME rpc[r] = "committing" PROVE Announced(rbatch[r])'
  <2>1. rbatch[r] \in BatchIds /\ Announced(rbatch[r]) /\ rbatch[r] \notin paid
    BY <1>1, <1>4 DEF RequestOK, Writing
  <2> QED
    BY <2>1, AnnouncedStep DEF SameRequest, Announced
<1>5. ASSUME Writing(r)
      PROVE  /\ rbatch[r] \in BatchIds /\ rbatch[r] < nextBatch'
             /\ rbatch[r] \notin committed' /\ rlist[r] # {}
  <2>1. rbatch[r] \in BatchIds /\ rbatch[r] < nextBatch /\ rlist[r] # {}
    BY <1>1, <1>5 DEF RequestOK
  <2>2. rbatch[r] \in Int /\ nextBatch \in Int /\ nextBatch' \in Int /\ nextBatch <= nextBatch'
    BY <2>1, <1>2, <1>3
  <2>3. rbatch[r] < nextBatch'
    BY <2>1, <2>2
  <2> QED
    BY <2>1, <2>3, <1>5
<1>6. /\ rpc'[r] = rpc[r] /\ rtodo'[r] = rtodo[r]
      /\ rlist'[r] = rlist[r] /\ rbatch'[r] = rbatch[r]
  BY DEF SameRequest
<1>7. Writing(r)' <=> Writing(r)
  BY <1>6 DEF Writing
<1>8. rpc'[r] = "committing" => Announced(rbatch[r])'
  BY <1>4, <1>6
<1> QED
  BY <1>1, <1>2, <1>5, <1>6, <1>7, <1>8 DEF RequestOK, OneMerchant, Announced

(* Requests keep their invariant.                                          *)
LEMMA RequestsStep == IInv /\ [Next]_vars => RequestInv'
<1> SUFFICES ASSUME IInv, [Next]_vars, NEW r \in Requests PROVE RequestOK(r)'
  BY DEF RequestInv, RequestOK
<1>1. RequestOK(r)
  BY DEF IInv, RequestInv, RequestOK
<1>2. /\ rpc \in [Requests -> RequestStates]
      /\ rtodo \in [Requests -> SUBSET Sales] /\ rlist \in [Requests -> SUBSET Sales]
      /\ rbatch \in [Requests -> BatchIds \cup {NoBatch}]
      /\ nextBatch \in 1..MaxBatches + 1 /\ committed \subseteq BatchIds
  BY DEF IInv, TypeOK
<1>3. CASE UNCHANGED requestVars
  <2>1. SameRequest(r)
    BY <1>3 DEF SameRequest, requestVars
  <2>2. ~\E q \in Requests : Commit(q)
    BY <1>2, <1>3 DEF Commit, Finish, requestVars
  <2> QED
    BY <1>1, <2>1, <2>2, RowsStep, WaitingRequest DEF RequestOK
<1>4. ASSUME NEW q \in Requests, q # r,
             RequestStep(q) \/ PublishRefused(q) \/ RequestFails(q) \/ \E m \in Merchants : BeginBatch(q, m)
      PROVE  RequestOK(r)'
  <2>1. SameRequest(r)
    BY <1>2, <1>4 DEF SameRequest, RequestStep, CheckTransaction, NothingToBatch, CreateBatch,
       Publish, Commit, PublishRefused, RequestFails, BeginBatch, Finish
  <2>2. committed' = committed \/ (Writing(q) /\ committed' = committed \cup {rbatch[q]})
    BY <1>4 DEF RequestStep, CheckTransaction, NothingToBatch, CreateBatch, Publish, Commit,
       PublishRefused, RequestFails, BeginBatch, dbVars, Writing
  <2>3. Writing(r) => rbatch[r] \notin committed'
    BY <1>1, <1>4, <2>2 DEF RequestOK, IInv, FreshIds
  <2> QED
    BY <2>1, <2>3, WaitingRequest
<1>5. ASSUME NEW m \in Merchants, BeginBatch(r, m) PROVE RequestOK(r)'
  <2>1. /\ rpc'[r] = "checking" /\ rlist'[r] = {} /\ complete' = complete
        /\ \A s \in rtodo'[r] : MerchantOf[s] = m
    BY <1>1, <1>2, <1>5 DEF BeginBatch, RequestOK, apiVars
  <2> QED
    BY <2>1 DEF RequestOK, Writing, OneMerchant
<1>6. CASE CheckTransaction(r)
  <2>1. /\ rpc'[r] = "checking" /\ complete' = complete
        /\ rtodo'[r] \cup rlist'[r] \subseteq rtodo[r] \cup rlist[r]
        /\ rlist'[r] \subseteq rlist[r] \cup complete
    BY <1>2, <1>6 DEF CheckTransaction, apiVars
  <2> QED
    BY <1>1, <2>1 DEF RequestOK, Writing, OneMerchant
<1>7. CASE NothingToBatch(r)
  BY <1>1, <1>2, <1>7 DEF NothingToBatch, RequestOK, Writing, OneMerchant, apiVars
<1>8. CASE CreateBatch(r)
  <2>1. /\ rpc'[r] = "publishing" /\ rbatch'[r] = nextBatch /\ nextBatch' = nextBatch + 1
        /\ rlist' = rlist /\ rtodo' = rtodo /\ complete' = complete /\ committed' = committed
        /\ rlist[r] # {} /\ nextBatch \in BatchIds
    BY <1>2, <1>8 DEF CreateBatch, apiVars, BatchIds
  <2>2. nextBatch \notin committed /\ nextBatch \in Int
    BY <1>2 DEF IInv, CommittedInv
  <2> QED
    BY <1>1, <2>1, <2>2 DEF RequestOK, Writing, OneMerchant
<1>9. CASE Publish(r)
  <2>1. /\ rpc[r] = "publishing" /\ rpc'[r] = "committing"
        /\ UNCHANGED <<rtodo, rlist, rbatch, complete, committed, nextBatch>>
        /\ queue' = queue \cup {[pos |-> sent, batch |-> rbatch[r]]}
    BY <1>2, <1>9 DEF Publish, apiVars, dbVars
  <2>2. [pos |-> sent, batch |-> rbatch[r]].batch = rbatch'[r]
    BY <2>1
  <2>3. Announced(rbatch[r])'
    BY <2>1, <2>2 DEF Announced
  <2> QED
    BY <1>1, <2>1, <2>3 DEF RequestOK, Writing, OneMerchant
<1>10. CASE PublishRefused(r)
  <2>1. /\ rpc[r] = "publishing" /\ rpc'[r] = "committing"
        /\ UNCHANGED <<rtodo, rlist, rbatch, complete, committed, nextBatch>>
        /\ rbatch'[r] \in refused'
    BY <1>2, <1>10 DEF PublishRefused, apiVars, dbVars
  <2> QED
    BY <1>1, <2>1 DEF RequestOK, Writing, OneMerchant, Announced
<1>11. CASE Commit(r) \/ RequestFails(r)
  BY <1>2, <1>11 DEF Commit, RequestFails, Finish, RequestOK, Writing, OneMerchant
<1> QED
  BY <1>3, <1>4, <1>5, <1>6, <1>7, <1>8, <1>9, <1>10, <1>11, RequestFrame DEF RequestStep

(* A new row gets an id above every id in use.                             *)
LEMMA FreshStep == IInv /\ [Next]_vars => FreshIds'
<1> SUFFICES ASSUME IInv, [Next]_vars, NEW q \in Requests, NEW r \in Requests, q # r,
                    Writing(q)', Writing(r)'
             PROVE  rbatch'[q] # rbatch'[r]
  BY DEF FreshIds, Writing
<1>1. \A p \in Requests : Writing(p) => rbatch[p] < nextBatch /\ rbatch[p] \in BatchIds
  BY DEF IInv, RequestInv
<1>2. /\ rpc \in [Requests -> RequestStates] /\ rbatch \in [Requests -> BatchIds \cup {NoBatch}]
      /\ nextBatch \in Int /\ BatchIds \subseteq Int
  BY DEF IInv, TypeOK, BatchIds
<1>3. ASSUME NEW p \in Requests,
             Writing(p)' /\ ~CreateBatch(p)
      PROVE  Writing(p) /\ rbatch'[p] = rbatch[p]
  <2>1. CASE UNCHANGED requestVars
    BY <1>3, <2>1 DEF Writing, requestVars
  <2>2. ASSUME NEW z \in Requests,
               RequestStep(z) \/ PublishRefused(z) \/ RequestFails(z) \/ \E m \in Merchants : BeginBatch(z, m)
        PROVE  Writing(p) /\ rbatch'[p] = rbatch[p]
    BY <1>2, <1>3, <2>2 DEF Writing, RequestStep, CheckTransaction, NothingToBatch, CreateBatch,
       Publish, Commit, PublishRefused, RequestFails, BeginBatch, Finish
  <2> QED
    BY <2>1, <2>2, RequestFrame
<1>4. ASSUME NEW p \in Requests, NEW z \in Requests, p # z, CreateBatch(p), Writing(z)'
      PROVE  rbatch'[p] # rbatch'[z]
  <2>1. rbatch'[p] = nextBatch /\ rbatch'[z] = rbatch[z] /\ Writing(z)
    BY <1>2, <1>4 DEF CreateBatch, Writing
  <2> QED
    BY <1>1, <1>2, <2>1
<1> QED
  BY <1>3, <1>4 DEF IInv, FreshIds

-----------------------------------------------------------------------------
(* Workers and money.                                                      *)

(* The invariant of one worker.                                            *)
WorkerOK(w) ==
    /\ held[w] # NoMessage => held[w].batch = wbatch[w]
    /\ wpc[w] \in {"idle", "down"} => held[w] = NoMessage
    /\ wpc[w] \notin {"idle", "down"} => wbatch[w] \in BatchIds
    /\ wpc[w] \notin {"idle", "down", "lookup"} => wbatch[w] \in committed
    /\ wpc[w] \in {"select", "aggregate", "ack"} => wbatch[w] \in paid

(* Steps that are not a worker's own change nothing of it, except that it  *)
(* may lose its message and be told of an exception or a lost connection.  *)
LEMMA WorkerFrame ==
    ASSUME IInv, [Next]_vars, NEW w \in Workers
    PROVE  \/ held'[w] = held[w] /\ wbatch'[w] = wbatch[w] /\ wpc'[w] = wpc[w]
           \/ WorkerStep(w) \/ PaymentFails(w)
           \/ WorkerCrash(w) \/ ConnectionLost(w) \/ Restart(w)
           \/ AggregateFails(w) \/ BrokerRestart
<1> DEFINE Same == held'[w] = held[w] /\ wbatch'[w] = wbatch[w] /\ wpc'[w] = wpc[w]
<1>1. /\ held \in [Workers -> Messages \cup {NoMessage}] /\ wpc \in [Workers -> WorkerStates]
      /\ wbatch \in [Workers -> BatchIds \cup {NoBatch}]
  BY DEF IInv, TypeOK
<1>2. ASSUME NEW v \in Workers, v # w,
             WorkerStep(v) \/ PaymentFails(v) \/ WorkerCrash(v) \/ ConnectionLost(v) \/ Restart(v)
      PROVE  Same
  BY <1>1, <1>2 DEF WorkerStep, Deliver, BatchMissing, LoadBatch, SendServiceFee, SellBitcoin,
         PaymentFails, SaveBatch, SelectBatches, AggregatesDone, Ack, ConsumeFails,
         WorkerCrash, ConnectionLost, Restart, Exit, workerVars, brokerVars
<1>3. ASSUME NEW s \in Sales, TransactionCompletes(s) PROVE Same
  BY <1>3 DEF TransactionCompletes, workerVars, brokerVars
<1>4. ASSUME NEW r \in Requests, NEW m \in Merchants, BeginBatch(r, m) PROVE Same
  BY <1>4 DEF BeginBatch, workerVars, brokerVars
<1>5. ASSUME NEW r \in Requests, RequestStep(r) \/ PublishRefused(r) \/ RequestFails(r) PROVE Same
  BY <1>5 DEF RequestStep, CheckTransaction, NothingToBatch, CreateBatch, Publish, Commit,
         PublishRefused, RequestFails, workerVars, brokerVars
<1>6. ASSUME NEW p \in Aggregators, AggregateBatch(p) \/ (AggregateFails(p) /\ p # w) PROVE Same
  BY <1>1, <1>6 DEF AggregateBatch, AggregateFails, workerVars, brokerVars
<1>7. CASE CronStart \/ UNCHANGED vars
  BY <1>7 DEF CronStart, vars, workerVars, brokerVars
<1> QED
  BY <1>2, <1>3, <1>4, <1>5, <1>6, <1>7 DEF Next

(* Workers keep their invariant.                                           *)
LEMMA WorkersStep == IInv /\ [Next]_vars => WorkerInv'
<1> SUFFICES ASSUME IInv, [Next]_vars, NEW w \in Workers PROVE WorkerOK(w)'
  BY DEF WorkerInv, WorkerOK
<1>1. /\ held \in [Workers -> Messages \cup {NoMessage}] /\ wpc \in [Workers -> WorkerStates]
      /\ wbatch \in [Workers -> BatchIds \cup {NoBatch}] /\ queue \subseteq Messages
      /\ WorkerOK(w)
  BY DEF IInv, TypeOK, WorkerInv, WorkerOK
<1>2. committed \subseteq committed' /\ paid \subseteq paid'
  BY Monotone
<1>3. CASE held'[w] = held[w] /\ wbatch'[w] = wbatch[w] /\ wpc'[w] = wpc[w]
  BY <1>1, <1>2, <1>3 DEF WorkerOK
<1>4. CASE Deliver(w)
  <2>1. \E m \in Messages : held'[w] = m /\ wbatch'[w] = m.batch
    BY <1>1, <1>4 DEF Deliver, NextUp, Ready
  <2> QED
    BY <1>1, <1>4, <2>1 DEF Deliver, WorkerOK, Messages
<1>5. CASE BatchMissing(w) \/ ConsumeFails(w) \/ WorkerCrash(w)
  BY <1>1, <1>5 DEF BatchMissing, ConsumeFails, WorkerCrash, Exit, WorkerOK
<1>6. CASE LoadBatch(w) \/ SendServiceFee(w) \/ SellBitcoin(w) \/ PaymentFails(w)
  BY <1>1, <1>2, <1>6 DEF LoadBatch, SendServiceFee, SellBitcoin, PaymentFails, WorkerOK,
     workerVars, brokerVars
<1>7. CASE SaveBatch(w) \/ SelectBatches(w) \/ AggregatesDone(w) \/ AggregateFails(w)
  BY <1>1, <1>2, <1>7 DEF SaveBatch, SelectBatches, AggregatesDone, AggregateFails, WorkerOK,
     workerVars, brokerVars, Aggregators
<1>8. CASE Ack(w) \/ ConnectionLost(w) \/ Restart(w)
  BY <1>1, <1>2, <1>8 DEF Ack, ConnectionLost, Restart, WorkerOK, workerVars, brokerVars
<1>9. CASE BrokerRestart
  BY <1>1, <1>2, <1>9 DEF BrokerRestart, WorkerOK, workerVars, brokerVars
<1> QED
  BY <1>3, <1>4, <1>5, <1>6, <1>7, <1>8, <1>9, WorkerFrame DEF WorkerStep

(* Money moves in three steps of a worker only, and only SendServiceFee    *)
(* brings a worker to the sale.                                            *)
LEMMA MoneyFrame ==
    ASSUME IInv, [Next]_vars
    PROVE  \/ /\ fees' = fees /\ sold' = sold
              /\ \A b \in BatchIds : Selling(b)' \subseteq Selling(b)
           \/ \E w \in Workers : SendServiceFee(w) \/ SellBitcoin(w) \/ PaymentFails(w)
<1> DEFINE Still == /\ fees' = fees /\ sold' = sold
                    /\ \A w \in Workers : wpc'[w] = "sell" => wpc[w] = "sell" /\ wbatch'[w] = wbatch[w]
<1>1. /\ wpc \in [Workers -> WorkerStates] /\ wbatch \in [Workers -> BatchIds \cup {NoBatch}]
  BY DEF IInv, TypeOK
<1>2. ASSUME NEW v \in Workers,
             \/ Deliver(v) \/ BatchMissing(v) \/ LoadBatch(v) \/ SaveBatch(v) \/ SelectBatches(v)
             \/ AggregatesDone(v) \/ Ack(v) \/ ConsumeFails(v)
             \/ WorkerCrash(v) \/ ConnectionLost(v) \/ Restart(v)
      PROVE  Still
  BY <1>1, <1>2 DEF Deliver, BatchMissing, LoadBatch, SaveBatch, SelectBatches, AggregatesDone,
         Ack, ConsumeFails, WorkerCrash, ConnectionLost, Restart, Exit, workerVars, apiVars
<1>3. ASSUME NEW s \in Sales, TransactionCompletes(s) PROVE Still
  BY <1>3 DEF TransactionCompletes, workerVars
<1>4. ASSUME NEW r \in Requests, NEW m \in Merchants, BeginBatch(r, m) PROVE Still
  BY <1>4 DEF BeginBatch, workerVars, apiVars
<1>5. ASSUME NEW r \in Requests, RequestStep(r) \/ PublishRefused(r) \/ RequestFails(r) PROVE Still
  BY <1>5 DEF RequestStep, CheckTransaction, NothingToBatch, CreateBatch, Publish, Commit,
         PublishRefused, RequestFails, workerVars, apiVars
<1>6. ASSUME NEW p \in Aggregators, AggregateBatch(p) \/ AggregateFails(p) PROVE Still
  BY <1>1, <1>6 DEF AggregateBatch, AggregateFails, workerVars, apiVars
<1>7. CronStart \/ BrokerRestart \/ UNCHANGED vars => Still
  BY <1>1 DEF CronStart, BrokerRestart, vars, workerVars, apiVars
<1>8. Still => \A b \in BatchIds : Selling(b)' \subseteq Selling(b)
  BY DEF Selling
<1> QED
  BY <1>2, <1>3, <1>4, <1>5, <1>6, <1>7, <1>8 DEF Next, WorkerStep

(* Only committed batches cost a fee or are sold.                          *)
LEMMA MoneyStep == IInv /\ [Next]_vars => MoneyInv'
<1> SUFFICES ASSUME IInv, [Next]_vars, NEW b \in BatchIds, fees'[b] + sold'[b] > 0
             PROVE  b \in committed'
  BY DEF MoneyInv
<1>1. fees \in [BatchIds -> Nat] /\ sold \in [BatchIds -> Nat] /\ committed \subseteq committed'
  BY Monotone DEF IInv, TypeOK
<1>2. CASE fees' = fees /\ sold' = sold
  BY <1>1, <1>2 DEF IInv, MoneyInv
<1>3. ASSUME NEW w \in Workers, SendServiceFee(w) \/ SellBitcoin(w) \/ PaymentFails(w)
      PROVE  b \in committed'
  <2>1. wbatch[w] \in committed
    BY <1>3, LoadedIsCommitted DEF SendServiceFee, SellBitcoin, PaymentFails, IInv
  <2>2. b # wbatch[w] => fees'[b] = fees[b] /\ sold'[b] = sold[b]
    BY <1>1, <1>3 DEF SendServiceFee, SellBitcoin, PaymentFails
  <2> QED
    BY <1>1, <2>1, <2>2 DEF IInv, MoneyInv
<1> QED
  BY <1>2, <1>3, MoneyFrame

(* Fewer workers about to sell are no more of them.                        *)
LEMMA FewerSell ==
    ASSUME NEW S, NEW T, S \subseteq T, T \subseteq Workers
    PROVE  /\ Cardinality(S) \in Nat /\ Cardinality(T) \in Nat
           /\ Cardinality(S) <= Cardinality(T)
  BY FS_Subset, FS_CardinalityType

(* Each sale is covered by a fee sent before it.                           *)
LEMMA SalesStep == IInv /\ [Next]_vars => SalesCovered'
<1> SUFFICES ASSUME IInv, [Next]_vars, NEW b \in BatchIds
             PROVE  sold'[b] + Cardinality(Selling(b)') <= fees'[b]
  BY DEF SalesCovered, Selling
<1>1. /\ fees \in [BatchIds -> Nat] /\ sold \in [BatchIds -> Nat]
      /\ wpc \in [Workers -> WorkerStates] /\ wbatch \in [Workers -> BatchIds \cup {NoBatch}]
      /\ sold[b] + Cardinality(Selling(b)) <= fees[b]
  BY DEF IInv, TypeOK, SalesCovered
<1>2. Selling(b) \subseteq Workers /\ Selling(b)' \subseteq Workers
  BY DEF Selling
<1>3. Cardinality(Selling(b)) \in Nat /\ Cardinality(Selling(b)') \in Nat
  BY <1>2, FewerSell
<1>4. Selling(b)' \subseteq Selling(b) => Cardinality(Selling(b)') <= Cardinality(Selling(b))
  BY <1>2, FewerSell
<1>5. CASE fees' = fees /\ sold' = sold /\ Selling(b)' \subseteq Selling(b)
  BY <1>1, <1>3, <1>4, <1>5
<1>6. ASSUME NEW w \in Workers, SendServiceFee(w)
      PROVE  sold'[b] + Cardinality(Selling(b)') <= fees'[b]
  <2>1. CASE wbatch[w] = b
    <3>1. Selling(b)' \subseteq Selling(b) \cup {w} /\ w \notin Selling(b)
      BY <1>1, <1>6 DEF SendServiceFee, Selling
    <3>2. Cardinality(Selling(b) \cup {w}) = Cardinality(Selling(b)) + 1
      BY <1>2, <3>1, FS_AddElement, FS_Subset
    <3>3. Cardinality(Selling(b)') <= Cardinality(Selling(b) \cup {w})
      BY <1>2, <3>1, FewerSell
    <3>4. fees'[b] = fees[b] + 1 /\ sold'[b] = sold[b]
      BY <1>1, <1>6, <2>1 DEF SendServiceFee
    <3> QED
      BY <1>1, <1>3, <3>2, <3>3, <3>4
  <2>2. CASE wbatch[w] # b
    <3>1. Selling(b)' \subseteq Selling(b) /\ fees'[b] = fees[b] /\ sold'[b] = sold[b]
      BY <1>1, <1>6, <2>2 DEF SendServiceFee, Selling
    <3> QED
      BY <1>1, <1>3, <1>4, <3>1
  <2> QED
    BY <2>1, <2>2
<1>7. ASSUME NEW w \in Workers, SellBitcoin(w) \/ PaymentFails(w)
      PROVE  sold'[b] + Cardinality(Selling(b)') <= fees'[b]
  <2>1. Selling(b)' = Selling(b) \ {w}
    BY <1>1, <1>7 DEF SellBitcoin, PaymentFails, Selling
  <2>2. w \in Selling(b) => Cardinality(Selling(b)') = Cardinality(Selling(b)) - 1
    BY <1>2, <2>1, FS_RemoveElement, FS_Subset
  <2>3. CASE sold'[b] = sold[b]
    <3>1. fees'[b] >= fees[b] /\ fees'[b] \in Nat
      BY <1>1, <1>7 DEF SellBitcoin, PaymentFails
    <3> QED
      BY <1>1, <1>3, <1>4, <2>1, <2>3, <3>1
  <2>4. CASE sold'[b] # sold[b]
    <3>1. sold'[b] = sold[b] + 1 /\ fees'[b] = fees[b] /\ w \in Selling(b)
      BY <1>1, <1>7, <2>4 DEF SellBitcoin, PaymentFails, Selling
    <3> QED
      BY <1>1, <1>3, <2>2, <3>1
  <2> QED
    BY <2>3, <2>4
<1> QED
  BY <1>5, <1>6, <1>7, MoneyFrame

-----------------------------------------------------------------------------
(* The theorems.                                                           *)

(* A fault budget that only shrinks stays below what it was.               *)
LEMMA BudgetBound ==
    ASSUME IInv, [Next]_vars
    PROVE  \A f \in Faults : budget'[f] <= Budget[f]
<1>1. budget \in [Faults -> Nat] /\ budget' \in [Faults -> Nat] /\ \A f \in Faults : budget[f] <= Budget[f]
  BY TypeStep DEF IInv, TypeOK
<1> QED
  BY <1>1, BudgetStep

(* The initial state satisfies the invariant.                              *)
LEMMA InitInv == Init => IInv
<1> SUFFICES ASSUME Init PROVE IInv
  OBVIOUS
<1>1. TypeOK
  BY DEF Init, TypeOK, RequestStates, WorkerStates, BatchIds
<1>2. RequestInv /\ FreshIds /\ CommittedInv /\ WorkerInv /\ MoneyInv /\ NoBatchForgotten
  BY DEF Init, RequestInv, FreshIds, CommittedInv, WorkerInv, MoneyInv, NoBatchForgotten,
     OneMerchant, Writing
<1>3. \A f \in Faults : budget[f] <= Budget[f]
  BY DEF Init
<1>4. SalesCovered
  <2> SUFFICES ASSUME NEW b \in BatchIds PROVE sold[b] + Cardinality(Selling(b)) <= fees[b]
    BY DEF SalesCovered
  <2>1. Selling(b) = {} /\ sold[b] = 0 /\ fees[b] = 0
    BY DEF Init, Selling
  <2> QED
    BY <2>1, FS_EmptySet
<1> QED
  BY <1>1, <1>2, <1>3, <1>4 DEF IInv

(* Every step preserves the invariant.                                     *)
LEMMA StepInv == IInv /\ [Next]_vars => IInv'
  BY TypeStep, BudgetBound, RequestsStep, FreshStep, CommittedStep, WorkersStep, MoneyStep,
     SalesStep, ForgottenStep DEF IInv

(* The inductive invariant holds in every reachable state.                 *)
THEOREM Inductive == Spec => []IInv
  BY InitInv, StepInv, PTL DEF Spec

(* BatchPayout keeps its type invariant: no message names a batch without  *)
(* an id, no worker acts on the batch of no message.                       *)
THEOREM TypeCorrect == Spec => []TypeOK
<1>1. IInv => TypeOK
  BY DEF IInv
<1> QED
  BY <1>1, Inductive, PTL

(* A committed batch that is not paid out is still on the queue, unless    *)
(* its message was refused or the broker restarted.                        *)
THEOREM NothingForgotten == Spec => []NoBatchForgotten
<1>1. IInv => NoBatchForgotten
  BY DEF IInv
<1> QED
  BY <1>1, Inductive, PTL

(* Money moves only for a committed batch of one merchant's sales that     *)
(* Coinbase has confirmed, although the payout message overtakes the       *)
(* commit.                                                                 *)
THEOREM OnlyConfirmedSold == Spec => []OnlyConfirmedBitcoinSold
<1>1. IInv => OnlyConfirmedBitcoinSold
  BY DEF IInv, MoneyInv, CommittedInv, OnlyConfirmedBitcoinSold
<1> QED
  BY <1>1, Inductive, PTL

(* No batch is sold more often than its service fee is sent.               *)
THEOREM FeesPrecedeSales == Spec => []FeeBeforeSale
<1>1. IInv => FeeBeforeSale
  <2> SUFFICES ASSUME IInv, NEW b \in BatchIds PROVE sold[b] <= fees[b]
    BY DEF FeeBeforeSale
  <2>1. /\ fees[b] \in Nat /\ sold[b] \in Nat
        /\ sold[b] + Cardinality(Selling(b)) <= fees[b]
    BY DEF IInv, TypeOK, SalesCovered
  <2>2. Cardinality(Selling(b)) \in Nat
    BY FewerSell DEF Selling
  <2> QED
    BY <2>1, <2>2
<1> QED
  BY <1>1, Inductive, PTL

(* A batch that is paid and that no worker is paying is never paid again,  *)
(* whatever is redelivered.                                                *)
THEOREM PaidOnce == Spec => PaidIsFinal
<1> DEFINE Final == \A b \in paid : ~BeingPaid(b) => b \in paid' /\ ~BeingPaid(b)'
<1>1. ASSUME IInv, [Next]_vars PROVE Final
  <2> SUFFICES ASSUME NEW b \in paid, ~BeingPaid(b), NEW w \in Workers,
                      wbatch'[w] = b, wpc'[w] \in {"fee", "sell"}
               PROVE  FALSE
    BY <1>1, Monotone DEF BeingPaid
  <2>1. wpc \in [Workers -> WorkerStates] /\ wbatch \in [Workers -> BatchIds \cup {NoBatch}]
    BY <1>1 DEF IInv, TypeOK
  <2>2. ~(wbatch[w] = b /\ wpc[w] \in {"fee", "sell"})
    BY DEF BeingPaid
  <2>3. CASE WorkerStep(w) \/ PaymentFails(w)
    BY <2>1, <2>2, <2>3 DEF WorkerStep, Deliver, BatchMissing, LoadBatch, SendServiceFee,
       SellBitcoin, PaymentFails, SaveBatch, SelectBatches, AggregatesDone, Ack, ConsumeFails,
       Exit, workerVars
  <2>4. CASE WorkerCrash(w) \/ ConnectionLost(w) \/ Restart(w) \/ AggregateFails(w) \/ BrokerRestart
    BY <2>1, <2>2, <2>4 DEF WorkerCrash, ConnectionLost, Restart, AggregateFails, BrokerRestart,
       Exit, workerVars
  <2> QED
    BY <1>1, <2>2, <2>3, <2>4, WorkerFrame
<1>2. IInv /\ [Next]_vars => [Final]_vars
  BY <1>1
<1> QED
  BY <1>2, Inductive, PTL DEF Spec, PaidIsFinal

-----------------------------------------------------------------------------
(* The rows of the database and the sales in them.                         *)

(* A step that is no commit: rows stay, an amount captured is recomputed.  *)
RowsKept ==
    /\ UNCHANGED <<batchOf, committed, summed>>
    /\ \A b \in BatchIds : captured'[b] \in {captured[b], summed[b], Members(b)}
    /\ \A p \in Aggregators : todo'[p] \subseteq committed

(* Only a commit moves a sale to a batch.                                  *)
LEMMA RowsFrame ==
    ASSUME IInv, MembersInv, [Next]_vars
    PROVE  RowsKept \/ \E r \in Requests : Commit(r)
<1> USE DEF dbVars, workerVars, RowsKept
<1>1. /\ captured \in [BatchIds -> SUBSET Sales] /\ todo \in [Aggregators -> SUBSET BatchIds]
      /\ \A p \in Aggregators : todo[p] \subseteq committed
      /\ Workers \subseteq Aggregators /\ Cron \in Aggregators
  BY DEF IInv, TypeOK, MembersInv, Aggregators
<1>2. ASSUME NEW r \in Requests, RequestStep(r) \/ PublishRefused(r) \/ RequestFails(r), ~Commit(r)
      PROVE  RowsKept
  BY <1>1, <1>2 DEF RequestStep, CheckTransaction, NothingToBatch, CreateBatch, Publish,
         PublishRefused, RequestFails
<1>3. ASSUME NEW w \in Workers,
             \/ Deliver(w) \/ LoadBatch(w) \/ SendServiceFee(w) \/ SellBitcoin(w)
             \/ PaymentFails(w) \/ AggregatesDone(w) \/ Ack(w) \/ ConnectionLost(w) \/ Restart(w)
      PROVE  RowsKept
  BY <1>1, <1>3 DEF Deliver, LoadBatch, SendServiceFee, SellBitcoin, PaymentFails,
         AggregatesDone, Ack, ConnectionLost, Restart
<1>4. ASSUME NEW w \in Workers, BatchMissing(w) \/ ConsumeFails(w) \/ WorkerCrash(w)
      PROVE  RowsKept
  BY <1>1, <1>4 DEF BatchMissing, ConsumeFails, WorkerCrash, Exit
<1>5. ASSUME NEW w \in Workers, SaveBatch(w) PROVE RowsKept
  BY <1>1, <1>5 DEF SaveBatch
<1>6. ASSUME NEW w \in Workers, SelectBatches(w) PROVE RowsKept
  BY <1>1, <1>6 DEF SelectBatches, Unaggregated
<1>7. ASSUME NEW p \in Aggregators, AggregateBatch(p) \/ AggregateFails(p) PROVE RowsKept
  BY <1>1, <1>7 DEF AggregateBatch, AggregateFails
<1>8. ASSUME NEW s \in Sales, TransactionCompletes(s) PROVE RowsKept
  BY <1>1, <1>8 DEF TransactionCompletes
<1>9. ASSUME NEW r \in Requests, NEW m \in Merchants, BeginBatch(r, m) PROVE RowsKept
  BY <1>1, <1>9 DEF BeginBatch
<1>10. CASE CronStart \/ BrokerRestart \/ UNCHANGED vars
  BY <1>1, <1>10 DEF CronStart, Unaggregated, BrokerRestart, vars
<1> QED
  BY <1>2, <1>3, <1>4, <1>5, <1>6, <1>7, <1>8, <1>9, <1>10 DEF Next, WorkerStep

(* What a commit writes: the rows of its batch, which held no sale before. *)
LEMMA CommitRows ==
    ASSUME IInv, MembersInv, NEW r \in Requests, Commit(r)
    PROVE  /\ committed' = committed \cup {rbatch[r]} /\ rbatch[r] \in BatchIds \ committed
           /\ summed' = [summed EXCEPT ![rbatch[r]] = rlist[r]]
           /\ captured' = [captured EXCEPT ![rbatch[r]] = rlist[r]]
           /\ batchOf' = [s \in Sales |-> IF s \in rlist[r] THEN rbatch[r] ELSE batchOf[s]]
           /\ todo' = todo
           /\ rlist[r] \subseteq Sales
           /\ \A b \in committed' : Members(b)' = IF b = rbatch[r] THEN rlist[r]
                                                                ELSE Members(b) \ rlist[r]
<1>1. rbatch[r] \in BatchIds \ committed
  BY DEF Commit, IInv, RequestInv, Writing
<1>2. rlist[r] \subseteq Sales /\ NoBatch \notin BatchIds
  BY DEF IInv, TypeOK
<1>3. /\ committed' = committed \cup {rbatch[r]}
      /\ summed' = [summed EXCEPT ![rbatch[r]] = rlist[r]]
      /\ captured' = [captured EXCEPT ![rbatch[r]] = rlist[r]]
      /\ batchOf' = [s \in Sales |-> IF s \in rlist[r] THEN rbatch[r] ELSE batchOf[s]]
      /\ todo' = todo
  BY DEF Commit, workerVars
<1>4. \A s \in Sales : batchOf[s] # rbatch[r]
  BY <1>1, <1>2 DEF MembersInv
<1> QED
  BY <1>1, <1>2, <1>3, <1>4 DEF Members

(* Sales stay in rows that exist and that summed them.                     *)
LEMMA MembersStep == IInv /\ MembersInv /\ [Next]_vars => MembersInv'
<1> SUFFICES ASSUME IInv, MembersInv, [Next]_vars PROVE MembersInv'
  OBVIOUS
<1>1. committed \subseteq BatchIds
  BY DEF IInv, TypeOK
<1>2. CASE RowsKept
  BY <1>1, <1>2 DEF RowsKept, MembersInv, Members, CapturedWithinSummed
<1>3. ASSUME NEW r \in Requests, Commit(r) PROVE MembersInv'
  <2>1. /\ summed \in [BatchIds -> SUBSET Sales] /\ captured \in [BatchIds -> SUBSET Sales]
        /\ NoBatch \notin BatchIds
    BY DEF IInv, TypeOK
  <2>2. \A s \in Sales : batchOf'[s] \in committed' \cup {NoBatch}
    BY <1>3, CommitRows DEF MembersInv
  <2>3. \A p \in Aggregators : todo'[p] \subseteq committed'
    BY <1>3, CommitRows DEF MembersInv
  <2>4. ASSUME NEW b \in committed'
        PROVE  Members(b)' \subseteq summed'[b] /\ captured'[b] \subseteq summed'[b]
    <3>1. CASE b = rbatch[r]
      BY <1>1, <1>3, <2>1, <3>1, CommitRows
    <3>2. CASE b # rbatch[r]
      <4>1. b \in committed /\ summed'[b] = summed[b] /\ captured'[b] = captured[b]
            /\ Members(b)' \subseteq Members(b)
        BY <1>1, <1>3, <2>1, <2>4, <3>2, CommitRows
      <4> QED
        BY <1>1, <2>1, <4>1 DEF MembersInv, CapturedWithinSummed
    <3> QED
      BY <3>1, <3>2
  <2> QED
    BY <2>2, <2>3, <2>4 DEF MembersInv, CapturedWithinSummed, Members
<1> QED
  BY <1>2, <1>3, RowsFrame

(* No sale is in a batch at first.                                         *)
LEMMA MembersInit == Init => MembersInv
  BY DEF Init, MembersInv, Members, CapturedWithinSummed

(* Both invariants together are inductive.                                 *)
LEMMA MembersInductive == Spec => [](IInv /\ MembersInv)
  BY InitInv, StepInv, MembersInit, MembersStep, PTL DEF Spec

(* However requests and computations of the aggregates overlap, captured   *)
(* dollars come only from sales whose bitcoin the batch was made of.       *)
THEOREM CapturedFromSummed == Spec => []CapturedWithinSummed
<1>1. MembersInv => CapturedWithinSummed
  BY DEF MembersInv
<1> QED
  BY <1>1, MembersInductive, PTL

(* What one request at a time has read stays open until it commits.        *)
LEMMA ReadsStep ==
    OneRequest /\ IInv /\ MembersInv /\ ReadsAreFresh /\ [Next]_vars => ReadsAreFresh'
<1> SUFFICES ASSUME OneRequest, IInv, MembersInv, ReadsAreFresh, [Next]_vars, NEW r \in Requests
             PROVE  \A s \in rtodo'[r] \cup rlist'[r] : batchOf'[s] = NoBatch
  BY DEF ReadsAreFresh
<1>1. /\ rtodo \in [Requests -> SUBSET Sales] /\ rlist \in [Requests -> SUBSET Sales]
      /\ rpc[r] = "idle" => rlist[r] = {}
      /\ \A s \in rtodo[r] \cup rlist[r] : batchOf[s] = NoBatch
  BY DEF IInv, TypeOK, RequestInv, ReadsAreFresh
<1>2. CASE Commit(r)
  BY <1>1, <1>2 DEF Commit, Finish
<1>3. CASE batchOf' = batchOf
  <2>1. CASE UNCHANGED requestVars
    BY <1>1, <1>3, <2>1 DEF requestVars
  <2>2. ASSUME NEW m \in Merchants, BeginBatch(r, m)
        PROVE  \A s \in rtodo'[r] \cup rlist'[r] : batchOf'[s] = NoBatch
    BY <1>1, <1>3, <2>2 DEF BeginBatch
  <2>3. CASE RequestStep(r) \/ PublishRefused(r) \/ RequestFails(r)
    BY <1>1, <1>3, <2>3 DEF RequestStep, CheckTransaction, NothingToBatch, CreateBatch, Publish,
       Commit, PublishRefused, RequestFails, Finish
  <2> QED
    BY <2>1, <2>2, <2>3, RequestFrame DEF OneRequest
<1> QED
  BY <1>2, <1>3, RowsFrame DEF RowsKept, OneRequest

(* A batch captures and holds exactly the sales it summed.                 *)
LEMMA CapturedStep ==
    IInv /\ MembersInv /\ ReadsAreFresh /\ CapturedIsSummed /\ [Next]_vars => CapturedIsSummed'
<1> SUFFICES ASSUME IInv, MembersInv, ReadsAreFresh, CapturedIsSummed, [Next]_vars,
                    NEW b \in committed'
             PROVE  captured'[b] = summed'[b] /\ Members(b)' = summed'[b]
  BY DEF CapturedIsSummed, Members
<1>1. /\ committed \subseteq BatchIds /\ NoBatch \notin BatchIds
      /\ summed \in [BatchIds -> SUBSET Sales] /\ captured \in [BatchIds -> SUBSET Sales]
  BY DEF IInv, TypeOK
<1>2. CASE RowsKept
  BY <1>1, <1>2 DEF RowsKept, CapturedIsSummed, Members
<1>3. ASSUME NEW r \in Requests, Commit(r)
      PROVE  captured'[b] = summed'[b] /\ Members(b)' = summed'[b]
  <2>1. CASE b = rbatch[r]
    BY <1>1, <1>3, <2>1, CommitRows
  <2>2. CASE b # rbatch[r]
    <3>1. b \in committed /\ summed'[b] = summed[b] /\ captured'[b] = captured[b]
      BY <1>1, <1>3, <2>2, CommitRows
    <3>2. \A s \in rlist[r] : batchOf[s] # b
      BY <1>1, <3>1 DEF ReadsAreFresh
    <3>3. Members(b)' = Members(b)
      BY <1>3, <2>2, <3>2, CommitRows DEF Members
    <3> QED
      BY <3>1, <3>3 DEF CapturedIsSummed
  <2> QED
    BY <2>1, <2>2
<1> QED
  BY <1>2, <1>3, RowsFrame

(* When one request is served at a time the dollars captured are those of  *)
(* the bitcoin summed, whatever workers, the command and faults do.        *)
THEOREM CapturedSerially == OneRequest /\ Spec => []CapturedIsSummed
<1> DEFINE SerialInv == IInv /\ MembersInv /\ ReadsAreFresh /\ CapturedIsSummed
<1>1. Init => SerialInv
  BY InitInv, MembersInit DEF Init, ReadsAreFresh, CapturedIsSummed
<1>2. OneRequest /\ SerialInv /\ [Next]_vars => SerialInv'
  BY StepInv, MembersStep, ReadsStep, CapturedStep
<1>3. SerialInv => CapturedIsSummed
  OBVIOUS
<1> QED
  <2> SUFFICES ASSUME OneRequest PROVE Spec => []CapturedIsSummed
    OBVIOUS
  <2>1. SerialInv /\ [Next]_vars => SerialInv'
    BY <1>2
  <2> QED
    BY <1>1, <1>3, <2>1, PTL DEF Spec

-----------------------------------------------------------------------------
(* Messages and the fees they lead to.                                     *)

(* Nothing that has to do with messages happens.                           *)
MessagesKept ==
    /\ queue' = queue
    /\ \A w \in Workers : /\ held'[w] = held[w] \/ held'[w] = NoMessage
                          /\ wbatch'[w] = wbatch[w] \/ wbatch'[w] = NoBatch
    /\ nextBatch' = nextBatch
    /\ \A r \in Requests : rpc'[r] = "publishing" => rpc[r] = "publishing" /\ rbatch'[r] = rbatch[r]

(* Messages come from Publish, go to a worker by Deliver and go away by    *)
(* Ack and BrokerRestart; ids come from CreateBatch.                       *)
LEMMA MessageFrame ==
    ASSUME IInv, [Next]_vars
    PROVE  \/ MessagesKept \/ BrokerRestart
           \/ \E r \in Requests : CreateBatch(r) \/ Publish(r)
           \/ \E w \in Workers : Deliver(w) \/ Ack(w)
<1> USE DEF dbVars, requestVars, brokerVars, workerVars, MessagesKept
<1>1. /\ rpc \in [Requests -> RequestStates] /\ rbatch \in [Requests -> BatchIds \cup {NoBatch}]
      /\ held \in [Workers -> Messages \cup {NoMessage}]
      /\ wbatch \in [Workers -> BatchIds \cup {NoBatch}]
  BY DEF IInv, TypeOK
<1>2. ASSUME NEW r \in Requests,
             \/ CheckTransaction(r) \/ NothingToBatch(r) \/ PublishRefused(r) \/ Commit(r)
             \/ RequestFails(r) \/ \E m \in Merchants : BeginBatch(r, m)
      PROVE  MessagesKept
  BY <1>1, <1>2 DEF CheckTransaction, NothingToBatch, PublishRefused, Commit, RequestFails,
         BeginBatch, Finish
<1>3. ASSUME NEW w \in Workers,
             \/ BatchMissing(w) \/ LoadBatch(w) \/ SendServiceFee(w) \/ SellBitcoin(w)
             \/ PaymentFails(w) \/ SaveBatch(w) \/ SelectBatches(w) \/ AggregatesDone(w)
             \/ ConsumeFails(w) \/ WorkerCrash(w) \/ ConnectionLost(w) \/ Restart(w)
      PROVE  MessagesKept
  BY <1>1, <1>3 DEF BatchMissing, LoadBatch, SendServiceFee, SellBitcoin, PaymentFails, SaveBatch,
         SelectBatches, AggregatesDone, ConsumeFails, WorkerCrash, ConnectionLost, Restart, Exit
<1>4. ASSUME NEW p \in Aggregators, AggregateBatch(p) \/ AggregateFails(p) PROVE MessagesKept
  BY <1>4 DEF AggregateBatch, AggregateFails
<1>5. ASSUME NEW s \in Sales, TransactionCompletes(s) PROVE MessagesKept
  BY <1>5 DEF TransactionCompletes
<1>6. CASE CronStart \/ UNCHANGED vars
  BY <1>6 DEF CronStart, vars
<1> QED
  BY <1>2, <1>3, <1>4, <1>5, <1>6 DEF Next, RequestStep, WorkerStep

(* One message for each batch, with one worker at most.                    *)
LEMMA MessageStep == IInv /\ MessageInv /\ [Next]_vars => MessageInv'
<1> SUFFICES ASSUME IInv, MessageInv, [Next]_vars PROVE MessageInv'
  OBVIOUS
<1> USE DEF dbVars, requestVars, brokerVars, workerVars
<1>1. /\ rpc \in [Requests -> RequestStates] /\ rbatch \in [Requests -> BatchIds \cup {NoBatch}]
      /\ queue \subseteq Messages /\ held \in [Workers -> Messages \cup {NoMessage}]
      /\ wbatch \in [Workers -> BatchIds \cup {NoBatch}]
      /\ nextBatch \in Int /\ BatchIds \subseteq Int /\ NoBatch \notin BatchIds
      /\ NoMessage \notin Messages
      /\ \A m \in Messages : m.batch \in BatchIds
  BY DEF IInv, TypeOK, BatchIds, Messages
<1>2. CASE MessagesKept
  <2>1. \A r \in Requests : rpc[r] = "publishing" => rbatch[r] # NoBatch
    BY <1>1 DEF IInv, RequestInv, Writing
  <2>2. queue' = queue /\ nextBatch' = nextBatch
    BY <1>2 DEF MessagesKept
  <2>3. \A v, w \in Workers : held'[v] = held'[w] => v = w \/ held'[w] = NoMessage
    BY <1>2 DEF MessagesKept, MessageInv
  <2>4. \A w \in Workers :
           /\ wbatch'[w] # NoBatch => wbatch'[w] < nextBatch'
           /\ held'[w] # NoMessage => held'[w] \in queue'
    BY <1>2, <2>2 DEF MessagesKept, MessageInv
  <2>5. \A r \in Requests : rpc'[r] = "publishing" =>
           /\ \A m \in queue' : m.batch # rbatch'[r]
           /\ \A w \in Workers : wbatch'[w] # rbatch'[r]
    BY <1>2, <2>1, <2>2 DEF MessagesKept, MessageInv
  <2> QED
    BY <2>2, <2>3, <2>4, <2>5 DEF MessageInv
<1>3. CASE BrokerRestart
  BY <1>1, <1>3 DEF BrokerRestart, MessageInv
<1>4. ASSUME NEW r \in Requests, CreateBatch(r) PROVE MessageInv'
  <2>1. /\ rpc' = [rpc EXCEPT ![r] = "publishing"] /\ rbatch' = [rbatch EXCEPT ![r] = nextBatch]
        /\ nextBatch' = nextBatch + 1
        /\ UNCHANGED <<queue, held, wbatch>>
    BY <1>4 DEF CreateBatch
  <2>2. nextBatch \in BatchIds
    BY <1>4 DEF CreateBatch, IInv, TypeOK, BatchIds
  <2>3. \A m \in queue : m.batch \in Int /\ m.batch < nextBatch
    BY <1>1 DEF MessageInv
  <2>4. \A w \in Workers : wbatch[w] # NoBatch => wbatch[w] \in Int /\ wbatch[w] < nextBatch
    BY <1>1 DEF MessageInv
  <2>5. /\ \A m \in queue' : m.batch < nextBatch'
        /\ \A w \in Workers : wbatch'[w] # NoBatch => wbatch'[w] < nextBatch'
    BY <1>1, <2>1, <2>3, <2>4
  <2>6. ASSUME NEW q \in Requests, rpc'[q] = "publishing"
        PROVE  /\ \A m \in queue' : m.batch # rbatch'[q]
               /\ \A w \in Workers : wbatch'[w] # rbatch'[q]
    <3>1. CASE q = r
      <4>1. rbatch'[q] = nextBatch
        BY <1>1, <2>1, <3>1
      <4> QED
        BY <1>1, <2>1, <2>2, <2>3, <2>4, <4>1
    <3>2. CASE q # r
      BY <1>1, <2>1, <2>6, <3>2 DEF MessageInv
    <3> QED
      BY <3>1, <3>2
  <2> QED
    BY <2>1, <2>5, <2>6 DEF MessageInv
<1>5. ASSUME NEW r \in Requests, Publish(r) PROVE MessageInv'
  <2> DEFINE new == [pos |-> sent, batch |-> rbatch[r]]
  <2>1. /\ queue' = queue \cup {new} /\ rpc' = [rpc EXCEPT ![r] = "committing"]
        /\ rpc[r] = "publishing"
        /\ UNCHANGED <<held, wbatch, rbatch, nextBatch>>
    BY <1>5 DEF Publish
  <2>2. /\ \A m \in queue : m.batch # rbatch[r]
        /\ \A w \in Workers : wbatch[w] # rbatch[r]
    BY <2>1 DEF MessageInv
  <2>3. new.batch = rbatch[r] /\ rbatch[r] < nextBatch
    BY <2>1 DEF IInv, RequestInv, Writing
  <2>4. \A q \in Requests : rpc'[q] = "publishing" =>
           rpc[q] = "publishing" /\ rbatch[q] # rbatch[r]
    BY <1>1, <2>1 DEF IInv, FreshIds, Writing
  <2>5. /\ \A m, n \in queue' : m.batch = n.batch => m = n
        /\ \A m \in queue' : m.batch < nextBatch'
    BY <2>1, <2>2, <2>3 DEF MessageInv
  <2>6. \A q \in Requests : rpc'[q] = "publishing" =>
           /\ \A m \in queue' : m.batch # rbatch'[q]
           /\ \A w \in Workers : wbatch'[w] # rbatch'[q]
    BY <2>1, <2>3, <2>4 DEF MessageInv
  <2>7. \A w \in Workers :
           /\ wbatch'[w] # NoBatch => wbatch'[w] < nextBatch'
           /\ held'[w] # NoMessage => held'[w] \in queue'
           /\ \A v \in Workers : held'[v] = held'[w] => v = w \/ held'[w] = NoMessage
    BY <2>1 DEF MessageInv
  <2> QED
    BY <2>5, <2>6, <2>7 DEF MessageInv
<1>6. ASSUME NEW w \in Workers, Deliver(w) PROVE MessageInv'
  <2>1. PICK m \in NextUp(queue, held) :
           held' = [held EXCEPT ![w] = m] /\ wbatch' = [wbatch EXCEPT ![w] = m.batch]
    BY <1>6 DEF Deliver
  <2>2. UNCHANGED <<queue, nextBatch, rpc, rbatch>>
    BY <1>6 DEF Deliver
  <2>3. m \in queue /\ \A v \in Workers : held[v] # m
    BY <1>1 DEF NextUp, Ready
  <2>4. m.batch < nextBatch /\ \A r \in Requests : rpc[r] = "publishing" => m.batch # rbatch[r]
    BY <2>3 DEF MessageInv
  <2> QED
    BY <1>1, <2>1, <2>2, <2>3, <2>4 DEF MessageInv
<1>7. ASSUME NEW w \in Workers, Ack(w) PROVE MessageInv'
  <2>1. /\ queue' = queue \ {held[w]} /\ held' = [held EXCEPT ![w] = NoMessage]
        /\ wbatch' = [wbatch EXCEPT ![w] = NoBatch]
        /\ UNCHANGED <<nextBatch, rpc, rbatch>>
    BY <1>7 DEF Ack
  <2>2. \A r \in Requests : rpc[r] = "publishing" => rbatch[r] # NoBatch
    BY <1>1 DEF IInv, RequestInv, Writing
  <2> QED
    BY <1>1, <2>1, <2>2 DEF MessageInv
<1> QED
  BY <1>2, <1>3, <1>4, <1>5, <1>6, <1>7, MessageFrame

(* Nothing brings a fee of batch b nearer.                                 *)
QuietFor(b) ==
    /\ fees'[b] = fees[b]
    /\ Charging(b)' \subseteq Charging(b)
    /\ \A m \in Ready(queue', held') : m.batch = b => m \in Ready(queue, held)

(* A message is ready again, and a fee due, only by these steps.           *)
LEMMA FeesFrame ==
    ASSUME IInv, [Next]_vars, NEW b \in BatchIds
    PROVE  \/ QuietFor(b) \/ \E r \in Requests : Publish(r)
           \/ \E w \in Workers : \/ Deliver(w) \/ BatchMissing(w) \/ SendServiceFee(w)
                                 \/ PaymentFails(w) \/ WorkerCrash(w) \/ ConnectionLost(w)
<1> USE DEF brokerVars, workerVars, apiVars
<1> DEFINE Still == /\ fees' = fees /\ queue' \subseteq queue
                    /\ \A m \in queue' : \A w \in Workers : held[w] = m => held'[w] = m
                    /\ DOMAIN held' = DOMAIN held
                    /\ \A w \in Workers : wpc'[w] \in {"lookup", "fee"} =>
                                             wpc[w] \in {"lookup", "fee"} /\ wbatch'[w] = wbatch[w]
<1>1. /\ held \in [Workers -> Messages \cup {NoMessage}] /\ queue \subseteq Messages
      /\ wpc \in [Workers -> WorkerStates] /\ wbatch \in [Workers -> BatchIds \cup {NoBatch}]
  BY DEF IInv, TypeOK
<1>2. ASSUME Still PROVE QuietFor(b)
  BY <1>1, <1>2 DEF QuietFor, Charging, Ready
<1>3. ASSUME NEW r \in Requests,
             \/ CheckTransaction(r) \/ NothingToBatch(r) \/ CreateBatch(r) \/ PublishRefused(r)
             \/ Commit(r) \/ RequestFails(r) \/ \E m \in Merchants : BeginBatch(r, m)
      PROVE  Still
  BY <1>3 DEF CheckTransaction, NothingToBatch, CreateBatch, PublishRefused, Commit, RequestFails,
         BeginBatch
<1>4. ASSUME NEW w \in Workers,
             \/ LoadBatch(w) \/ SellBitcoin(w) \/ SaveBatch(w) \/ SelectBatches(w)
             \/ AggregatesDone(w) \/ Restart(w)
      PROVE  Still
  BY <1>1, <1>4 DEF LoadBatch, SellBitcoin, SaveBatch, SelectBatches, AggregatesDone, Restart
<1>5. ASSUME NEW w \in Workers, Ack(w) \/ ConsumeFails(w) PROVE Still
  BY <1>1, <1>5 DEF Ack, ConsumeFails, Exit
<1>6. ASSUME NEW p \in Aggregators, AggregateBatch(p) \/ AggregateFails(p) PROVE Still
  BY <1>1, <1>6 DEF AggregateBatch, AggregateFails
<1>7. ASSUME NEW s \in Sales, TransactionCompletes(s) PROVE Still
  BY <1>7 DEF TransactionCompletes
<1>8. ASSUME CronStart \/ UNCHANGED vars PROVE Still
  BY <1>8 DEF CronStart, vars
<1>9. ASSUME BrokerRestart PROVE Still
  BY <1>1, <1>9 DEF BrokerRestart
<1> QED
  BY <1>2, <1>3, <1>4, <1>5, <1>6, <1>7, <1>8, <1>9 DEF Next, RequestStep, WorkerStep

(* Fewer workers about to charge are no more of them.                      *)
LEMMA ChargingCount ==
    ASSUME NEW b
    PROVE  /\ Charging(b) \subseteq Workers /\ Charging(b)' \subseteq Workers
           /\ Cardinality(Charging(b)) \in Nat /\ Cardinality(Charging(b)') \in Nat
           /\ Charging(b)' \subseteq Charging(b) =>
                Cardinality(Charging(b)') <= Cardinality(Charging(b))
<1>1. Charging(b) \subseteq Workers /\ Charging(b)' \subseteq Workers
  BY DEF Charging
<1> QED
  BY <1>1, FewerSell

(* The fees of a batch, sent and due, stay within the redeliveries.        *)
LEMMA FeesStep == IInv /\ MessageInv /\ FeesCovered /\ [Next]_vars => FeesCovered'
<1> DEFINE Bound == 1 + Spent("crash") + Spent("drop")
           Total(b) == fees[b] + Cardinality(Charging(b)) + Again(b)
<1> SUFFICES ASSUME IInv, MessageInv, FeesCovered, [Next]_vars, NEW b \in BatchIds
             PROVE  Total(b)' <= Bound'
  BY DEF FeesCovered
<1>1. /\ fees \in [BatchIds -> Nat] /\ sold \in [BatchIds -> Nat]
      /\ held \in [Workers -> Messages \cup {NoMessage}] /\ queue \subseteq Messages
      /\ wpc \in [Workers -> WorkerStates] /\ wbatch \in [Workers -> BatchIds \cup {NoBatch}]
      /\ budget \in [Faults -> Nat] /\ budget' \in [Faults -> Nat]
      /\ NoMessage \notin Messages /\ NoBatch \notin BatchIds
  BY TypeStep DEF IInv, TypeOK
<1>2. /\ Again(b) \in {0, 1} /\ Again(b)' \in {0, 1}
      /\ Cardinality(Charging(b)) \in Nat /\ Cardinality(Charging(b)') \in Nat
      /\ Charging(b)' \subseteq Charging(b) => Cardinality(Charging(b)') <= Cardinality(Charging(b))
  BY ChargingCount DEF Again
<1>3. /\ {"crash", "drop"} \subseteq Faults
      /\ Bound \in Nat /\ Bound' \in Nat /\ Bound >= 1 /\ Bound' >= Bound
  <2>1. {"crash", "drop"} \subseteq Faults
    BY DEF Faults
  <2>2. \A f \in Faults : /\ Budget[f] \in Nat /\ budget[f] \in Nat /\ budget'[f] \in Nat
                         /\ budget[f] <= Budget[f] /\ budget'[f] <= budget[f]
    BY <1>1, BudgetStep DEF IInv
  <2> QED
    BY <2>1, <2>2 DEF Spent
<1>4. fees[b] + Cardinality(Charging(b)) + Again(b) <= Bound
  BY DEF FeesCovered
<1>5. CASE QuietFor(b)
  <2>1. Again(b)' <= Again(b)
    BY <1>5 DEF QuietFor, Again
  <2> QED
    BY <1>1, <1>2, <1>3, <1>4, <1>5, <2>1 DEF QuietFor
<1>6. ASSUME NEW r \in Requests, Publish(r) PROVE Total(b)' <= Bound'
  <2>1. /\ queue' = queue \cup {[pos |-> sent, batch |-> rbatch[r]]}
        /\ rpc[r] = "publishing"
        /\ UNCHANGED <<held, wpc, wbatch, fees>>
    BY <1>6 DEF Publish, workerVars, apiVars
  <2>2. Charging(b)' = Charging(b)
    BY <2>1 DEF Charging
  <2>3. CASE rbatch[r] = b
    <3>1. Charging(b) = {} /\ rbatch[r] \notin committed
      BY <2>1, <2>3 DEF MessageInv, Charging, IInv, RequestInv, Writing
    <3>2. ~(fees[b] + sold[b] > 0)
      BY <2>3, <3>1 DEF IInv, MoneyInv
    <3>3. fees[b] \in Nat /\ sold[b] \in Nat
      BY <1>1
    <3>4. fees[b] = 0
      BY <3>2, <3>3
    <3> QED
      BY <1>2, <1>3, <2>1, <2>2, <3>1, <3>4, FS_EmptySet
  <2>4. CASE rbatch[r] # b
    <3>1. Again(b)' <= Again(b)
      BY <2>1, <2>4 DEF Again, Ready
    <3> QED
      BY <1>1, <1>2, <1>3, <1>4, <2>1, <2>2, <3>1
  <2> QED
    BY <2>3, <2>4
<1>7. ASSUME NEW w \in Workers, Deliver(w) PROVE Total(b)' <= Bound'
  <2>1. PICK m \in NextUp(queue, held) :
           held' = [held EXCEPT ![w] = m] /\ wbatch' = [wbatch EXCEPT ![w] = m.batch]
    BY <1>7 DEF Deliver
  <2>2. /\ wpc[w] = "idle" /\ wpc' = [wpc EXCEPT ![w] = "lookup"]
        /\ queue' = queue /\ fees' = fees /\ held[w] = NoMessage
    BY <1>7 DEF Deliver, apiVars, IInv, WorkerInv
  <2>3. m \in Ready(queue, held) /\ m \in queue /\ m # NoMessage
    BY <1>1 DEF NextUp, Ready
  <2>4. CASE m.batch = b
    <3>1. Again(b) = 1
      BY <2>3, <2>4 DEF Again
    <3>2. Again(b)' = 0
      BY <1>1, <2>1, <2>2, <2>3, <2>4 DEF Again, Ready, MessageInv
    <3>3. Charging(b)' = Charging(b) \cup {w} /\ w \notin Charging(b)
      BY <1>1, <2>1, <2>2, <2>4 DEF Charging
    <3>4. Cardinality(Charging(b)') = Cardinality(Charging(b)) + 1
      BY <3>3, ChargingCount, FS_AddElement, FS_Subset
    <3> QED
      BY <1>1, <1>2, <1>3, <1>4, <2>2, <3>1, <3>2, <3>4
  <2>5. CASE m.batch # b
    <3>1. Again(b)' <= Again(b)
      BY <1>1, <2>1, <2>2 DEF Again, Ready
    <3>2. Charging(b)' \subseteq Charging(b)
      BY <1>1, <2>1, <2>2, <2>5 DEF Charging
    <3> QED
      BY <1>1, <1>2, <1>3, <1>4, <2>2, <3>1, <3>2
  <2> QED
    BY <2>4, <2>5
<1>8. ASSUME NEW w \in Workers, SendServiceFee(w) \/ PaymentFails(w)
      PROVE  Total(b)' <= Bound'
  <2>1. /\ queue' = queue /\ held' = held /\ wbatch' = wbatch
        /\ Charging(b)' = Charging(b) \ {w}
        /\ \/ fees'[b] = fees[b]
           \/ w \in Charging(b) /\ fees'[b] = fees[b] + 1
    BY <1>1, <1>8 DEF SendServiceFee, PaymentFails, Charging, brokerVars
  <2>2. Again(b)' = Again(b)
    BY <2>1 DEF Again
  <2>3. w \in Charging(b) => Cardinality(Charging(b)') = Cardinality(Charging(b)) - 1
    BY <2>1, ChargingCount, FS_RemoveElement, FS_Subset
  <2> QED
    BY <1>1, <1>2, <1>3, <1>4, <2>1, <2>2, <2>3
<1>9. ASSUME NEW w \in Workers, BatchMissing(w) PROVE Total(b)' <= Bound'
  <2>1. /\ wpc[w] = "lookup" /\ wbatch[w] \notin committed
        /\ queue' = queue /\ fees' = fees
        /\ wpc' = [wpc EXCEPT ![w] = "down"] /\ held' = [held EXCEPT ![w] = NoMessage]
        /\ wbatch' = [wbatch EXCEPT ![w] = NoBatch]
    BY <1>9 DEF BatchMissing, Exit, apiVars
  <2>2. Charging(b)' = Charging(b) \ {w}
    BY <1>1, <2>1 DEF Charging
  <2>3. CASE wbatch[w] = b
    <3>1. w \in Charging(b)
      BY <2>1, <2>3 DEF Charging
    <3>2. Cardinality(Charging(b)') = Cardinality(Charging(b)) - 1
      BY <2>2, <3>1, ChargingCount, FS_RemoveElement, FS_Subset
    <3> QED
      BY <1>1, <1>2, <1>3, <1>4, <2>1, <3>2
  <2>4. CASE wbatch[w] # b
    <3>1. held[w] # NoMessage => held[w].batch # b
      BY <2>4 DEF IInv, WorkerInv
    <3>2. Again(b)' <= Again(b)
      BY <1>1, <2>1, <3>1 DEF Again, Ready
    <3> QED
      BY <1>1, <1>2, <1>3, <1>4, <2>1, <2>2, <3>2
  <2> QED
    BY <2>3, <2>4
<1>10. ASSUME NEW w \in Workers, WorkerCrash(w) \/ ConnectionLost(w)
       PROVE  Total(b)' <= Bound'
  <2>1. fees' = fees /\ Charging(b)' \subseteq Charging(b)
    BY <1>1, <1>10 DEF WorkerCrash, ConnectionLost, Exit, Charging, workerVars, apiVars
  <2>2. Spend("crash") \/ Spend("drop")
    BY <1>10 DEF WorkerCrash, ConnectionLost
  <2>3. Bound' = Bound + 1
    <3>1. \A f \in {"crash", "drop"} : Budget[f] \in Int /\ budget[f] \in Int
      BY <1>1, <1>3
    <3>2. CASE Spend("crash")
      <4>1. budget'["crash"] = budget["crash"] - 1 /\ budget'["drop"] = budget["drop"]
        BY <1>1, <1>3, <3>2 DEF Spend
      <4> QED
        BY <3>1, <4>1 DEF Spent
    <3>3. CASE Spend("drop")
      <4>1. budget'["drop"] = budget["drop"] - 1 /\ budget'["crash"] = budget["crash"]
        BY <1>1, <1>3, <3>3 DEF Spend
      <4> QED
        BY <3>1, <4>1 DEF Spent
    <3> QED
      BY <2>2, <3>2, <3>3
  <2> QED
    BY <1>1, <1>2, <1>3, <1>4, <2>1, <2>3
<1> QED
  BY <1>5, <1>6, <1>7, <1>8, <1>9, <1>10, FeesFrame

(* A fee is sent for a batch once, and once more for each crash or lost    *)
(* connection of a worker: no refusal of Coinbase repeats it, no race of   *)
(* two workers, no message that overtakes its commit.                      *)
THEOREM FeesBounded == Spec => []PaymentsBounded
<1> DEFINE PayInv == IInv /\ MessageInv /\ FeesCovered
<1>1. Init => PayInv
  <2> SUFFICES ASSUME Init PROVE MessageInv /\ FeesCovered
    BY InitInv
  <2>1. MessageInv
    BY DEF Init, MessageInv
  <2>2. ASSUME NEW b \in BatchIds
        PROVE  fees[b] + Cardinality(Charging(b)) + Again(b) <= 1 + Spent("crash") + Spent("drop")
    <3>1. Charging(b) = {} /\ Again(b) = 0 /\ fees[b] = 0
      BY DEF Init, Charging, Again, Ready
    <3>2. Spent("crash") = 0 /\ Spent("drop") = 0
      BY DEF Init, Spent, Faults
    <3> QED
      BY <3>1, <3>2, FS_EmptySet
  <2> QED
    BY <2>1, <2>2 DEF FeesCovered
<1>2. PayInv /\ [Next]_vars => PayInv'
  BY StepInv, MessageStep, FeesStep
<1>3. PayInv => PaymentsBounded
  <2> SUFFICES ASSUME PayInv, NEW b \in BatchIds
               PROVE  fees[b] <= 1 + Spent("crash") + Spent("drop")
    BY DEF PaymentsBounded
  <2>1. fees[b] \in Nat /\ Cardinality(Charging(b)) \in Nat /\ Again(b) \in Nat
    BY ChargingCount DEF IInv, TypeOK, Again
  <2>2. Spent("crash") \in Int /\ Spent("drop") \in Int
    BY DEF IInv, TypeOK, Spent, Faults
  <2>3. fees[b] + Cardinality(Charging(b)) + Again(b) <= 1 + Spent("crash") + Spent("drop")
    BY DEF FeesCovered
  <2> QED
    BY <2>1, <2>2, <2>3
<1> QED
  BY <1>1, <1>2, <1>3, PTL DEF Spec

=============================================================================

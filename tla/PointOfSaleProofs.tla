-------------------------- MODULE PointOfSaleProofs --------------------------
(***************************************************************************)
(* Theorems about PointOfSale, for every number of sales and address rows, *)
(* every set of amounts, payments, threads and workers and every budget of *)
(* faults; the last ones for one web thread and customers who pay once.    *)
(***************************************************************************)
EXTENDS PointOfSale, TLAPS

USE BoundsAssumption, NullsAssumption, BudgetAssumption

-----------------------------------------------------------------------------
(* Types.                                                                  *)

(* Every step from a state of the invariant keeps every type.              *)
LEMMA TypeStep == IInv /\ [Next]_vars => TypeOK'
<1> SUFFICES ASSUME TypeOK, SalesInv, WorkerInv, [Next]_vars PROVE TypeOK'
  BY DEF IInv
<1> USE DEF TypeOK, saleVars, threadVars, customerVars, brokerVars, workerVars, ThreadStates,
        WorkerStates
<1>1. ASSUME NEW t \in Threads, NEW a \in Amounts, NewSale(t, a)
      PROVE  TypeOK'
  BY <1>1 DEF NewSale
<1>2. ASSUME NEW t \in Threads, FindAddresses(t)
      PROVE  TypeOK'
  <2>1. {[row |-> i, address |-> address[i]] : i \in {j \in Rows : address[j] # "none"}}
            \subseteq Loaded
    BY DEF Loaded
  <2> QED
    BY <1>2, <2>1 DEF FindAddresses
<1>3. ASSUME NEW t \in Threads, ReuseAddress(t)
      PROVE  TypeOK'
  BY <1>3 DEF ReuseAddress, Free
<1>4. ASSUME NEW t \in Threads, NoAddressFree(t)
      PROVE  TypeOK'
  BY <1>4 DEF NoAddressFree
<1>5. ASSUME NEW t \in Threads, CreateRow(t)
      PROVE  TypeOK'
  BY <1>5 DEF CreateRow, NextId, Loaded
<1>6. ASSUME NEW t \in Threads, AddressGenerated(t)
      PROVE  TypeOK'
  BY <1>6 DEF AddressGenerated
<1>7. ASSUME NEW t \in Threads, SaveSale(t)
      PROVE  TypeOK'
  BY <1>7 DEF SaveSale, EndRequest, NextId, Made, Loaded
<1>8. ASSUME NEW t \in Threads, AddressFails(t) \/ RequestDies(t)
      PROVE  TypeOK'
  BY <1>8 DEF AddressFails, RequestDies, EndRequest, Spend, Faults
<1>9. ASSUME ListSales
      PROVE  TypeOK'
  BY <1>9 DEF ListSales, Pending, Made
<1>10. ASSUME NEW s \in Sales, NEW p \in Payments, Pay(s, p)
       PROVE  TypeOK'
  BY <1>10 DEF Pay, Spend, Faults
<1>11. ASSUME NEW p \in Payments, Callback(p)
       PROVE  TypeOK'
  BY <1>11 DEF Callback, Spend, Faults, Messages
<1>12. ASSUME NEW s \in Sales, Batch(s)
       PROVE  TypeOK'
  BY <1>12 DEF Batch
<1>13. ASSUME NEW w \in Workers, Deliver(w)
       PROVE  TypeOK'
  BY <1>13 DEF Deliver, NextUp, Ready, Messages
<1>14. ASSUME NEW w \in Workers, Match(w)
       PROVE  TypeOK'
  BY <1>14 DEF Match, Matching, Pending, Made
<1>15. ASSUME NEW w \in Workers, NoMatch(w) \/ Ack(w) \/ AckFails(w) \/ RecordFails(w)
       PROVE  TypeOK'
  BY <1>15 DEF NoMatch, Ack, AckFails, RecordFails, Exit
<1>16. ASSUME NEW w \in Workers, RecordPayment(w)
       PROVE  TypeOK'
  BY <1>16 DEF RecordPayment
<1>17. ASSUME NEW w \in Workers, Notify(w)
       PROVE  TypeOK'
  <2>1. wsale[w] \in Sales
    BY <1>17 DEF Notify, WorkerInv, Fits, Made
  <2> QED
    BY <1>17, <2>1 DEF Notify
<1>18. ASSUME NEW w \in Workers, NotifyFails(w) \/ WorkerCrash(w)
       PROVE  TypeOK'
  BY <1>18 DEF NotifyFails, WorkerCrash, Exit, Spend, Faults
<1>19. ASSUME NEW w \in Workers, ConnectionLost(w) \/ Restart(w)
       PROVE  TypeOK'
  BY <1>19 DEF ConnectionLost, Restart, Spend, Faults
<1>20. ASSUME BrokerRestart
       PROVE  TypeOK'
  BY <1>20 DEF BrokerRestart, Spend, Faults
<1>21. CASE UNCHANGED vars
  BY <1>21 DEF vars
<1> QED
  BY <1>1, <1>2, <1>3, <1>4, <1>5, <1>6, <1>7, <1>8, <1>9, <1>10, <1>11, <1>12, <1>13, <1>14,
     <1>15, <1>16, <1>17, <1>18, <1>19, <1>20, <1>21 DEF Next, ThreadStep, WorkerStep

-----------------------------------------------------------------------------
(* What steps leave alone.                                                 *)

(* The steps that change the tables or the payments, by what they change.  *)
LEMMA SalesFrame ==
    ASSUME [Next]_vars
    PROVE  \/ UNCHANGED <<saleRow, saleAmount, txid, payable, payFor, called, green>>
           \/ \E t \in Threads : SaveSale(t)
           \/ ListSales
           \/ \E s \in Sales, p \in Payments : Pay(s, p)
           \/ \E p \in Payments : Callback(p)
           \/ \E w \in Workers : RecordPayment(w) \/ Notify(w)
<1> USE DEF saleVars, customerVars
<1>1. ASSUME NEW t \in Threads, NEW a \in Amounts, NewSale(t, a)
      PROVE  UNCHANGED <<saleRow, saleAmount, txid, payable, payFor, called, green>>
  BY <1>1 DEF NewSale
<1>2. ASSUME NEW t \in Threads,
             ThreadStep(t) \/ AddressFails(t) \/ RequestDies(t), ~SaveSale(t)
      PROVE  UNCHANGED <<saleRow, saleAmount, txid, payable, payFor, called, green>>
  BY <1>2 DEF ThreadStep, FindAddresses, ReuseAddress, NoAddressFree, CreateRow,
     AddressGenerated, AddressFails, RequestDies
<1>3. ASSUME NEW w \in Workers,
             \/ WorkerStep(w) \/ NotifyFails(w)
             \/ WorkerCrash(w) \/ ConnectionLost(w) \/ Restart(w),
             ~RecordPayment(w), ~Notify(w)
      PROVE  UNCHANGED <<saleRow, saleAmount, txid, payable, payFor, called, green>>
  BY <1>3 DEF WorkerStep, Deliver, Match, NoMatch, RecordFails, Ack, AckFails, NotifyFails,
     WorkerCrash, ConnectionLost, Restart
<1>4. ASSUME NEW s \in Sales, Batch(s)
      PROVE  UNCHANGED <<saleRow, saleAmount, txid, payable, payFor, called, green>>
  BY <1>4 DEF Batch
<1>5. CASE BrokerRestart \/ UNCHANGED vars
  BY <1>5 DEF BrokerRestart, vars
<1> QED
  BY <1>1, <1>2, <1>3, <1>4, <1>5 DEF Next

(* Sales stay what they were made as, payments go to the sale they were    *)
(* made for, and a recorded payment is at most replaced by another.        *)
Kept ==
    /\ Made \subseteq Made' /\ called \subseteq called'
    /\ \A s \in Made : saleRow'[s] = saleRow[s] /\ saleAmount'[s] = saleAmount[s]
    /\ \A p \in Payments : payFor[p] # NoSale => payFor'[p] = payFor[p]
    /\ \A s \in Sales : txid[s] # NoPayment => txid'[s] # NoPayment

(* Every step keeps them.                                                  *)
LEMMA Monotone == IInv /\ [Next]_vars => Kept
<1> SUFFICES ASSUME IInv, [Next]_vars PROVE Kept
  OBVIOUS
<1>1. CASE UNCHANGED <<saleRow, saleAmount, txid, payable, payFor, called, green>>
  BY <1>1 DEF Kept, Made
<1>2. ASSUME NEW t \in Threads, SaveSale(t)
      PROVE  Kept
  <2>1. PICK a \in trow[t], s \in NextId(Sales, Made) :
          /\ saleRow' = [saleRow EXCEPT ![s] = a.row]
          /\ saleAmount' = [saleAmount EXCEPT ![s] = tamount[t]]
    BY <1>2 DEF SaveSale
  <2>2. s \in Sales \ Made /\ a.row \in Rows
    BY DEF NextId, IInv, TypeOK, Loaded
  <2>3. txid' = txid /\ payFor' = payFor /\ called' = called
    BY <1>2 DEF SaveSale
  <2> QED
    BY <2>1, <2>2, <2>3 DEF Kept, Made, IInv, TypeOK
<1>3. CASE ListSales
  BY <1>3 DEF ListSales, Kept, Made, saleVars
<1>4. ASSUME NEW s \in Sales, NEW p \in Payments, Pay(s, p)
      PROVE  Kept
  BY <1>4 DEF Pay, Kept, Made, saleVars, IInv, TypeOK
<1>5. ASSUME NEW p \in Payments, Callback(p)
      PROVE  Kept
  BY <1>5 DEF Callback, Kept, Made, saleVars
<1>6. ASSUME NEW w \in Workers, RecordPayment(w)
      PROVE  Kept
  <2>1. wpay[w] \in Payments
    BY <1>6 DEF RecordPayment, IInv, WorkerInv, TypeOK
  <2> QED
    BY <1>6, <2>1 DEF RecordPayment, Kept, Made, customerVars, IInv, TypeOK
<1>7. ASSUME NEW w \in Workers, Notify(w)
      PROVE  Kept
  BY <1>7 DEF Notify, Kept, Made, saleVars, customerVars
<1> QED
  BY <1>1, <1>2, <1>3, <1>4, <1>5, <1>6, <1>7, SalesFrame

(* A payment that fits a sale goes on fitting it.                          *)
LEMMA FitsKept ==
    ASSUME IInv, [Next]_vars, NEW p, NEW s, Fits(p, s)
    PROVE  Fits(p, s)'
<1>1. p \in Payments /\ payFor[p] # NoSale /\ payFor[p] \in Made /\ s \in Made
  BY DEF Fits, IInv, TypeOK, SalesInv
<1> QED
  BY <1>1, Monotone DEF Kept, Fits

(* An unmade sale has no payment, and a made one fits its own.             *)
LEMMA PayForMade ==
    ASSUME IInv, NEW p \in called
    PROVE  p \in Payments /\ payFor[p] \in Made /\ Fits(p, payFor[p])
  BY DEF IInv, TypeOK, SalesInv, Fits

-----------------------------------------------------------------------------
(* The invariant of concurrent threads and workers.                        *)

(* A worker about to save has a payment that fits its sale and that no     *)
(* other sale has.                                                         *)
LEMMA SavesFitting ==
    ASSUME IInv, NEW w \in Workers, RecordPayment(w)
    PROVE  /\ wpay[w] \in called /\ wpay[w] \in Payments
           /\ wsale[w] \in Made /\ Fits(wpay[w], wsale[w])
           /\ \A s \in Sales \ {wsale[w]} : txid[s] # wpay[w]
<1>1. wpay[w] \in called /\ wpay[w] \in Payments /\ Fits(wpay[w], wsale[w])
  BY DEF IInv, TypeOK, WorkerInv, RecordPayment
<1>2. \A s \in Sales : txid[s] # NoPayment => s \in Made
  BY DEF IInv, SalesInv, Fits
<1> QED
  BY <1>1, <1>2 DEF RecordPayment, Clashes, Fits

(* The tables and the payments stay consistent.                            *)
LEMMA SalesStep == IInv /\ [Next]_vars => SalesInv'
<1> SUFFICES ASSUME IInv, [Next]_vars PROVE SalesInv'
  OBVIOUS
<1>1. Kept /\ TypeOK /\ SalesInv
  BY Monotone DEF IInv
<1>2. \A p, s : Fits(p, s) => Fits(p, s)'
  BY FitsKept
<1> USE DEF SalesInv
<1>3. CASE UNCHANGED <<saleRow, saleAmount, txid, payable, payFor, called, green>>
  BY <1>1, <1>2, <1>3 DEF Kept
<1>4. ASSUME NEW t \in Threads, SaveSale(t)
      PROVE  SalesInv'
  <2>1. payable' \subseteq Made'
    <3>1. PICK a \in trow[t], s \in NextId(Sales, Made) :
            /\ saleRow' = [saleRow EXCEPT ![s] = a.row]
            /\ payable' = IF a.address = "real" THEN payable \cup {s} ELSE payable
      BY <1>4 DEF SaveSale
    <3>2. s \in Sales /\ a.row \in Rows
      BY <1>1 DEF NextId, TypeOK, Loaded
    <3> QED
      BY <1>1, <3>1, <3>2 DEF Kept, Made, TypeOK
  <2>2. payable \subseteq payable' /\ UNCHANGED <<txid, payFor, called, green>>
    BY <1>4 DEF SaveSale
  <2> QED
    BY <1>1, <1>2, <2>1, <2>2
<1>5. CASE ListSales
  <2>1. payable \subseteq payable' /\ payable' \subseteq Made'
    BY <1>1, <1>5 DEF ListSales, Pending, Kept
  <2>2. UNCHANGED <<txid, payFor, called, green>>
    BY <1>5 DEF ListSales, saleVars
  <2> QED
    BY <1>1, <1>2, <2>1, <2>2
<1>6. ASSUME NEW s \in Sales, NEW p \in Payments, Pay(s, p)
      PROVE  SalesInv'
  <2>1. /\ UNCHANGED <<saleRow, txid, payable, called, green>>
        /\ s \in payable /\ payFor' = [payFor EXCEPT ![p] = s]
    BY <1>6 DEF Pay, saleVars
  <2> QED
    BY <1>1, <1>2, <2>1 DEF TypeOK, Made
<1>7. ASSUME NEW p \in Payments, Callback(p)
      PROVE  SalesInv'
  BY <1>1, <1>2, <1>7 DEF Callback, saleVars, Made
<1>8. ASSUME NEW w \in Workers, RecordPayment(w)
      PROVE  SalesInv'
  <2>1. /\ UNCHANGED <<saleRow, payable, payFor, called, green>>
        /\ txid' = [txid EXCEPT ![wsale[w]] = wpay[w]]
    BY <1>8 DEF RecordPayment, customerVars
  <2>2. \A s \in Sales : txid'[s] = IF s = wsale[w] THEN wpay[w] ELSE txid[s]
    BY <1>1, <2>1 DEF TypeOK
  <2>3. \A s \in Sales : txid'[s] # NoPayment => Fits(txid'[s], s)
    BY <1>1, <1>8, <2>2, SavesFitting
  <2>4. \A s, t \in Sales : txid'[s] # NoPayment /\ txid'[s] = txid'[t] => s = t
    BY <1>1, <1>8, <2>2, SavesFitting
  <2>5. \A s \in green : txid'[s] # NoPayment
    BY <1>1 DEF Kept, TypeOK
  <2> QED
    BY <1>1, <1>2, <2>1, <2>3, <2>4, <2>5 DEF Made
<1>9. ASSUME NEW w \in Workers, Notify(w)
      PROVE  SalesInv'
  <2>1. UNCHANGED <<saleRow, saleAmount, txid, payable, payFor, called>>
    BY <1>9 DEF Notify, saleVars, customerVars
  <2>2. green' = green \cup {wsale[w]} /\ txid[wsale[w]] # NoPayment
    BY <1>9 DEF Notify, IInv, WorkerInv
  <2> QED
    BY <1>1, <1>2, <2>1, <2>2 DEF Made
<1> QED
  BY <1>3, <1>4, <1>5, <1>6, <1>7, <1>8, <1>9, SalesFrame

(* The steps that change the queue or a worker, by what they change.       *)
LEMMA WorkerFrame ==
    ASSUME [Next]_vars
    PROVE  \/ UNCHANGED <<queue, held, wpc, wpay, wsale>>
           \/ \E p \in Payments : Callback(p)
           \/ \E w \in Workers : WorkerStep(w) \/ NotifyFails(w)
           \/ \E w \in Workers : WorkerCrash(w) \/ ConnectionLost(w) \/ Restart(w)
           \/ BrokerRestart
<1> USE DEF brokerVars, workerVars
<1>1. ASSUME NEW t \in Threads, NEW a \in Amounts, NewSale(t, a)
      PROVE  UNCHANGED <<queue, held, wpc, wpay, wsale>>
  BY <1>1 DEF NewSale
<1>2. ASSUME NEW t \in Threads, ThreadStep(t) \/ AddressFails(t) \/ RequestDies(t)
      PROVE  UNCHANGED <<queue, held, wpc, wpay, wsale>>
  BY <1>2 DEF ThreadStep, FindAddresses, ReuseAddress, NoAddressFree, CreateRow,
     AddressGenerated, SaveSale, AddressFails, RequestDies
<1>3. ASSUME NEW s \in Sales, NEW p \in Payments, Pay(s, p)
      PROVE  UNCHANGED <<queue, held, wpc, wpay, wsale>>
  BY <1>3 DEF Pay
<1>4. ASSUME NEW s \in Sales, Batch(s)
      PROVE  UNCHANGED <<queue, held, wpc, wpay, wsale>>
  BY <1>4 DEF Batch
<1>5. CASE ListSales \/ UNCHANGED vars
  BY <1>5 DEF ListSales, vars
<1> QED
  BY <1>1, <1>2, <1>3, <1>4, <1>5 DEF Next

(* Workers know what they hold and what they loaded.                       *)
LEMMA WorkersStep == IInv /\ [Next]_vars => WorkerInv'
<1> SUFFICES ASSUME IInv, [Next]_vars PROVE WorkerInv'
  OBVIOUS
<1>1. Kept /\ TypeOK /\ SalesInv /\ WorkerInv
  BY Monotone DEF IInv
<1>2. \A p, s : Fits(p, s) => Fits(p, s)'
  BY FitsKept
<1>3. \A w \in Workers :
        /\ wpc[w] \in {"save", "notify"} => wsale[w] \in Sales
        /\ wpc[w] = "notify" => txid'[wsale[w]] # NoPayment
  BY <1>1 DEF WorkerInv, Fits, Made, Kept
<1>4. \A m \in queue : m.payment \in called'
  BY <1>1 DEF Kept, WorkerInv
<1> USE DEF WorkerInv
<1>5. CASE UNCHANGED <<queue, held, wpc, wpay, wsale>>
  BY <1>1, <1>2, <1>3, <1>4, <1>5 DEF Kept
<1>6. ASSUME NEW p \in Payments, Callback(p)
      PROVE  WorkerInv'
  <2>1. UNCHANGED <<held, wpc, wpay, wsale>>
    BY <1>6 DEF Callback, workerVars
  <2>2. \A m \in queue' : m.payment \in called'
    BY <1>4, <1>6 DEF Callback
  <2> QED
    BY <1>1, <1>2, <1>3, <2>1, <2>2 DEF Kept
<1>7. ASSUME NEW w \in Workers, Deliver(w)
      PROVE  WorkerInv'
  <2>1. PICK m \in queue : held' = [held EXCEPT ![w] = m]
                         /\ wpay' = [wpay EXCEPT ![w] = m.payment]
    BY <1>7 DEF Deliver, NextUp, Ready
  <2>2. wpc' = [wpc EXCEPT ![w] = "match"] /\ queue' = queue /\ wsale' = wsale
    BY <1>7 DEF Deliver
  <2> QED
    BY <1>1, <1>2, <1>3, <1>4, <2>1, <2>2 DEF TypeOK, Kept
<1>8. ASSUME NEW w \in Workers, Match(w)
      PROVE  WorkerInv'
  <2>1. PICK s \in Matching(wpay[w]) : wsale' = [wsale EXCEPT ![w] = s]
    BY <1>8 DEF Match
  <2>2. wpc' = [wpc EXCEPT ![w] = "save"] /\ UNCHANGED <<queue, held, wpay>>
    BY <1>8 DEF Match, brokerVars
  <2>3. Fits(wpay[w], s) /\ s \in Sales /\ wpc[w] = "match"
    BY <1>1, <1>8 DEF Match, Matching, Pending, Made, Fits
  <2>4. ASSUME NEW v \in Workers
        PROVE  /\ wpc'[v] = IF v = w THEN "save" ELSE wpc[v]
               /\ wsale'[v] = IF v = w THEN s ELSE wsale[v]
    BY <1>1, <2>1, <2>2, <2>3 DEF TypeOK
  <2>5. \A v \in Workers : wpc'[v] \in {"save", "notify"} => Fits(wpay[v], wsale'[v])
    BY <1>1, <2>3, <2>4
  <2>6. \A v \in Workers : wpc'[v] \in {"save", "notify"} => Fits(wpay[v], wsale[v])'
    BY <1>2, <2>2, <2>5
  <2> QED
    BY <1>1, <1>3, <1>4, <2>2, <2>3, <2>4, <2>6 DEF Kept
<1>9. ASSUME NEW w \in Workers, RecordPayment(w)
      PROVE  WorkerInv'
  <2>1. wpc' = [wpc EXCEPT ![w] = "notify"] /\ UNCHANGED <<queue, held, wpay, wsale>>
    BY <1>9 DEF RecordPayment, brokerVars
  <2>2. txid'[wsale[w]] # NoPayment /\ wpc[w] = "save"
    BY <1>1, <1>3, <1>9, SavesFitting DEF RecordPayment, TypeOK
  <2> QED
    BY <1>1, <1>2, <1>3, <1>4, <2>1, <2>2 DEF TypeOK, Kept
<1>10. ASSUME NEW w \in Workers, NoMatch(w) \/ Notify(w)
       PROVE  WorkerInv'
  <2>1. /\ wpc' = [wpc EXCEPT ![w] = "ack"] /\ UNCHANGED <<queue, held, wpay, wsale>>
        /\ wpc[w] \in {"match", "notify"}
    BY <1>10 DEF NoMatch, Notify, brokerVars
  <2> QED
    BY <1>1, <1>2, <1>3, <1>4, <2>1 DEF TypeOK, Kept
<1>11. ASSUME NEW w \in Workers, Ack(w)
       PROVE  WorkerInv'
  BY <1>1, <1>2, <1>3, <1>4, <1>11 DEF Ack, TypeOK, Kept
<1>12. ASSUME NEW w \in Workers, RecordFails(w) \/ AckFails(w) \/ NotifyFails(w) \/ WorkerCrash(w)
       PROVE  WorkerInv'
  <2>1. queue' = queue
    BY <1>12 DEF RecordFails, AckFails, NotifyFails, WorkerCrash
  <2>2. CASE Exit(w)
    BY <1>1, <1>2, <1>3, <1>4, <2>1, <2>2 DEF Exit, TypeOK, Kept
  <2>3. CASE ~Exit(w)
    <3>1. /\ wpc' = [wpc EXCEPT ![w] = "ack"] /\ UNCHANGED <<held, wpay, wsale>>
          /\ wpc[w] = "notify"
      BY <1>12, <2>3 DEF RecordFails, AckFails, NotifyFails, WorkerCrash
    <3> QED
      BY <1>1, <1>2, <1>3, <1>4, <2>1, <3>1 DEF TypeOK, Kept
  <2> QED
    BY <2>2, <2>3
<1>13. ASSUME NEW w \in Workers, ConnectionLost(w)
       PROVE  WorkerInv'
  <2>1. held' = [held EXCEPT ![w] = NoMessage] /\ UNCHANGED <<queue, wpc, wpay, wsale>>
    BY <1>13 DEF ConnectionLost, workerVars
  <2> QED
    BY <1>1, <1>2, <1>3, <1>4, <2>1 DEF TypeOK, Kept
<1>14. ASSUME NEW w \in Workers, Restart(w)
       PROVE  WorkerInv'
  BY <1>1, <1>2, <1>3, <1>4, <1>14 DEF Restart, brokerVars, TypeOK, Kept
<1>15. CASE BrokerRestart
  BY <1>1, <1>2, <1>3, <1>4, <1>15 DEF BrokerRestart, TypeOK, Kept
<1> QED
  BY <1>5, <1>6, <1>7, <1>8, <1>9, <1>10, <1>11, <1>12, <1>13, <1>14, <1>15, WorkerFrame
     DEF WorkerStep

(* Faults only use up the budget.                                          *)
LEMMA SpendDecreases ==
    ASSUME budget \in [Faults -> Nat], NEW kind \in Faults, Spend(kind)
    PROVE  /\ budget' \in [Faults -> Nat]
           /\ \A f \in Faults : budget'[f] <= budget[f]
           /\ budget'[kind] < budget[kind]
  BY DEF Spend

(* The fault budget never grows.                                           *)
LEMMA BudgetStep ==
    ASSUME budget \in [Faults -> Nat], [Next]_vars
    PROVE  \A f \in Faults : budget'[f] <= budget[f]
<1>1. ASSUME \E kind \in Faults : Spend(kind)
      PROVE  \A f \in Faults : budget'[f] <= budget[f]
  BY <1>1, SpendDecreases
<1>2. ASSUME budget' = budget
      PROVE  \A f \in Faults : budget'[f] <= budget[f]
  BY <1>2
<1>3. ASSUME NEW t \in Threads,
             (\E a \in Amounts : NewSale(t, a)) \/ ThreadStep(t) \/ AddressFails(t) \/ RequestDies(t)
      PROVE  budget' = budget \/ \E kind \in Faults : Spend(kind)
  BY <1>3 DEF NewSale, ThreadStep, FindAddresses, ReuseAddress, NoAddressFree, CreateRow,
     AddressGenerated, SaveSale, AddressFails, RequestDies, Faults
<1>4. ASSUME NEW w \in Workers,
             \/ WorkerStep(w) \/ NotifyFails(w)
             \/ WorkerCrash(w) \/ ConnectionLost(w) \/ Restart(w)
      PROVE  budget' = budget \/ \E kind \in Faults : Spend(kind)
  BY <1>4 DEF WorkerStep, Deliver, Match, NoMatch, RecordPayment, RecordFails, Notify, Ack,
     AckFails, NotifyFails, WorkerCrash, ConnectionLost, Restart, Faults
<1>5. ASSUME NEW s \in Sales, NEW p \in Payments, Pay(s, p)
      PROVE  budget' = budget \/ \E kind \in Faults : Spend(kind)
  BY <1>5 DEF Pay, Faults
<1>6. ASSUME NEW p \in Payments, Callback(p)
      PROVE  budget' = budget \/ \E kind \in Faults : Spend(kind)
  BY <1>6 DEF Callback, Faults
<1>7. ASSUME NEW s \in Sales, Batch(s)
      PROVE  budget' = budget \/ \E kind \in Faults : Spend(kind)
  BY <1>7 DEF Batch
<1>8. CASE ListSales \/ BrokerRestart \/ UNCHANGED vars
  <2>1. budget' = budget \/ \E kind \in Faults : Spend(kind)
    BY <1>8 DEF ListSales, BrokerRestart, vars, Faults
  <2> QED
    BY <1>1, <1>2, <2>1
<1> QED
  BY <1>1, <1>2, <1>3, <1>4, <1>5, <1>6, <1>7, <1>8 DEF Next

(* The initial state satisfies the invariant.                              *)
LEMMA InitInv == Init => IInv
  BY DEF Init, IInv, TypeOK, SalesInv, WorkerInv, Made, ThreadStates, WorkerStates

(* Every step preserves the invariant.                                     *)
LEMMA StepInv == IInv /\ [Next]_vars => IInv'
<1> SUFFICES ASSUME IInv, [Next]_vars PROVE IInv'
  OBVIOUS
<1>1. TypeOK' /\ SalesInv' /\ WorkerInv'
  BY TypeStep, SalesStep, WorkersStep
<1>2. budget \in [Faults -> Nat] /\ budget' \in [Faults -> Nat]
  BY <1>1 DEF IInv, TypeOK
<1>3. \A f \in Faults : budget'[f] <= Budget[f]
  BY <1>2, BudgetStep DEF IInv
<1> QED
  BY <1>1, <1>3 DEF IInv

(* The inductive invariant holds in every reachable state.                 *)
THEOREM Inductive == Spec => []IInv
  BY InitInv, StepInv, PTL DEF Spec

(* PointOfSale keeps its type invariant: no confirmation is sent for a     *)
(* sale that was not loaded.                                               *)
THEOREM TypeCorrect == Spec => []TypeOK
<1>1. IInv => TypeOK
  BY DEF IInv
<1> QED
  BY <1>1, Inductive, PTL

(* Whatever threads, customers, callbacks and workers do at the same time, *)
(* a confirmed sale has a payment of its own, to its address and of its    *)
(* amount.                                                                 *)
THEOREM ConfirmedHasItsMoney == Spec => []GreenHasItsMoney
<1>1. IInv => GreenHasItsMoney
  BY DEF IInv, TypeOK, SalesInv, Fits, Made, GreenHasItsMoney
<1> QED
  BY <1>1, Inductive, PTL

-----------------------------------------------------------------------------
(* One web thread, customers who pay once.                                 *)

(* Rows are written only where one is created or gets its address.         *)
LEMMA AddressFrame ==
    ASSUME [Next]_vars
    PROVE  address' = address \/ \E t \in Threads : CreateRow(t) \/ AddressGenerated(t)
<1>1. ASSUME NEW t \in Threads,
             \/ \E a \in Amounts : NewSale(t, a)
             \/ FindAddresses(t) \/ ReuseAddress(t) \/ NoAddressFree(t) \/ SaveSale(t)
             \/ AddressFails(t) \/ RequestDies(t)
      PROVE  address' = address
  BY <1>1 DEF NewSale, FindAddresses, ReuseAddress, NoAddressFree, SaveSale, AddressFails,
     RequestDies
<1>2. ASSUME NEW w \in Workers,
             \/ WorkerStep(w) \/ NotifyFails(w)
             \/ WorkerCrash(w) \/ ConnectionLost(w) \/ Restart(w)
      PROVE  address' = address
  BY <1>2 DEF WorkerStep, Deliver, Match, NoMatch, RecordPayment, RecordFails, Notify, Ack,
     AckFails, NotifyFails, WorkerCrash, ConnectionLost, Restart
<1>3. ASSUME NEW s \in Sales, NEW p \in Payments, Pay(s, p)
      PROVE  address' = address
  BY <1>3 DEF Pay
<1>4. ASSUME NEW p \in Payments, Callback(p)
      PROVE  address' = address
  BY <1>4 DEF Callback
<1>5. ASSUME NEW s \in Sales, Batch(s)
      PROVE  address' = address
  BY <1>5 DEF Batch
<1>6. CASE ListSales \/ BrokerRestart \/ UNCHANGED vars
  BY <1>6 DEF ListSales, BrokerRestart, vars
<1> QED
  BY <1>1, <1>2, <1>3, <1>4, <1>5, <1>6 DEF Next, ThreadStep

(* A row that is in use stays in use.                                      *)
LEMMA AddressesKept ==
    ASSUME IInv, [Next]_vars, NEW i \in Rows, address[i] # "none"
    PROVE  address'[i] # "none"
<1>1. address \in [Rows -> {"none", "placeholder", "real"}]
  BY DEF IInv, TypeOK
<1>2. ASSUME NEW t \in Threads, CreateRow(t) \/ AddressGenerated(t)
      PROVE  address'[i] # "none"
  BY <1>1, <1>2 DEF CreateRow, AddressGenerated, NextId
<1> QED
  BY <1>2, AddressFrame

(* Only saving a sale makes one, or changes what pending sales there are,  *)
(* except that a recorded one is pending no more.                          *)
LEMMA PendingFrame ==
    ASSUME IInv, [Next]_vars, \A t \in Threads : ~SaveSale(t)
    PROVE  /\ Made' = Made /\ Pending' \subseteq Pending
           /\ saleRow' = saleRow /\ saleAmount' = saleAmount
<1>1. Kept
  BY Monotone
<1>2. saleRow' = saleRow /\ saleAmount' = saleAmount
  BY SalesFrame DEF ListSales, Pay, Callback, RecordPayment, Notify, saleVars
<1>3. Made' = Made
  BY <1>2 DEF Made
<1> QED
  BY <1>1, <1>2, <1>3 DEF Pending, Made, Kept

(* Saving a sale makes one pending sale, on a row the thread settled on.   *)
LEMMA SavingMakesOne ==
    ASSUME IInv, NEW t \in Threads, SaveSale(t)
    PROVE  \E s \in Sales \ Made, a \in trow[t] :
             /\ Made' = Made \cup {s} /\ Pending' = Pending \cup {s}
             /\ saleRow'[s] = a.row /\ saleAmount'[s] = tamount[t]
             /\ \A r \in Made : saleRow'[r] = saleRow[r] /\ saleAmount'[r] = saleAmount[r]
<1>1. PICK a \in trow[t], s \in NextId(Sales, Made) :
        /\ saleRow' = [saleRow EXCEPT ![s] = a.row]
        /\ saleAmount' = [saleAmount EXCEPT ![s] = tamount[t]]
  BY DEF SaveSale
<1>2. s \in Sales \ Made /\ a.row \in Rows
  BY DEF NextId, IInv, TypeOK, Loaded
<1>3. txid' = txid /\ txid[s] = NoPayment
  BY <1>2 DEF SaveSale, IInv, SalesInv, Fits
<1>4. Made' = Made \cup {s}
  BY <1>1, <1>2 DEF Made, IInv, TypeOK
<1>5. Pending' = Pending \cup {s}
  BY <1>3, <1>4 DEF Pending
<1> QED
  BY <1>1, <1>2, <1>4, <1>5 DEF IInv, TypeOK, Made

(* No two pending sales of one amount share an address.                    *)
LEMMA DistinctStep ==
    ASSUME IInv, PendingDistinct, ThreadInv, [Next]_vars
    PROVE  PendingDistinct'
<1>1. CASE \A t \in Threads : ~SaveSale(t)
  BY <1>1, PendingFrame DEF PendingDistinct
<1>2. ASSUME NEW t \in Threads, SaveSale(t)
      PROVE  PendingDistinct'
  <2>1. PICK s \in Sales \ Made, a \in trow[t] :
          /\ Pending' = Pending \cup {s}
          /\ saleRow'[s] = a.row /\ saleAmount'[s] = tamount[t]
          /\ \A r \in Made : saleRow'[r] = saleRow[r] /\ saleAmount'[r] = saleAmount[r]
    BY <1>2, SavingMakesOne
  <2>2. \A r \in Pending : saleAmount[r] = tamount[t] => saleRow[r] # a.row
    BY <1>2 DEF ThreadInv, SaveSale
  <2> QED
    BY <2>1, <2>2 DEF PendingDistinct, Pending
<1> QED
  BY <1>1, <1>2

(* A sale is on a row in use.                                              *)
LEMMA RowsInUse ==
    ASSUME IInv, ThreadInv, [Next]_vars
    PROVE  \A s \in Made' : address'[saleRow'[s]] # "none"
<1>1. \A s \in Made : saleRow[s] \in Rows /\ address'[saleRow[s]] # "none"
  BY AddressesKept DEF IInv, TypeOK, Made, ThreadInv
<1>2. CASE \A t \in Threads : ~SaveSale(t)
  BY <1>1, <1>2, PendingFrame
<1>3. ASSUME NEW t \in Threads, SaveSale(t)
      PROVE  \A s \in Made' : address'[saleRow'[s]] # "none"
  <2>1. PICK s \in Sales \ Made, a \in trow[t] :
          /\ Made' = Made \cup {s} /\ saleRow'[s] = a.row
          /\ \A r \in Made : saleRow'[r] = saleRow[r]
    BY <1>3, SavingMakesOne
  <2>2. a.row \in Rows /\ address'[a.row] # "none"
    BY AddressesKept DEF IInv, TypeOK, Loaded, ThreadInv
  <2> QED
    BY <1>1, <2>1, <2>2
<1> QED
  BY <1>2, <1>3

(* Which steps change a thread.                                            *)
LEMMA ThreadFrame ==
    ASSUME [Next]_vars
    PROVE  \/ UNCHANGED threadVars
           \/ \E t \in Threads, a \in Amounts : NewSale(t, a)
           \/ \E t \in Threads : ThreadStep(t) \/ AddressFails(t) \/ RequestDies(t)
<1>1. ASSUME NEW w \in Workers,
             \/ WorkerStep(w) \/ NotifyFails(w)
             \/ WorkerCrash(w) \/ ConnectionLost(w) \/ Restart(w)
      PROVE  UNCHANGED threadVars
  BY <1>1 DEF WorkerStep, Deliver, Match, NoMatch, RecordPayment, RecordFails, Notify, Ack,
     AckFails, NotifyFails, WorkerCrash, ConnectionLost, Restart
<1>2. ASSUME NEW s \in Sales, NEW p \in Payments, Pay(s, p)
      PROVE  UNCHANGED threadVars
  BY <1>2 DEF Pay
<1>3. ASSUME NEW p \in Payments, Callback(p)
      PROVE  UNCHANGED threadVars
  BY <1>3 DEF Callback
<1>4. ASSUME NEW s \in Sales, Batch(s)
      PROVE  UNCHANGED threadVars
  BY <1>4 DEF Batch
<1>5. CASE ListSales \/ BrokerRestart \/ UNCHANGED vars
  BY <1>5 DEF ListSales, BrokerRestart, vars
<1> QED
  BY <1>1, <1>2, <1>3, <1>4, <1>5 DEF Next

(* What ThreadInv says of one thread.                                      *)
ThreadOK(t) ==
    /\ \A a \in tfound[t] \cup trow[t] : address[a.row] # "none"
    /\ tpc[t] \in {"generating", "save"} =>
         \A a \in trow[t], s \in Pending : saleAmount[s] = tamount[t] => saleRow[s] # a.row

(* The only thread keeps to rows in use, and to one that is free.          *)
LEMMA ThreadsStep ==
    ASSUME IInv, ThreadInv, Serial, [Next]_vars
    PROVE  ThreadInv'
<1>1. TypeOK /\ ThreadInv
  BY DEF IInv
<1>2. \A t \in Threads : \A a \in tfound[t] \cup trow[t] :
        a \in Loaded /\ a.row \in Rows /\ address[a.row] # "none" /\ address'[a.row] # "none"
  BY <1>1, AddressesKept DEF TypeOK, Loaded, ThreadInv
<1>3. ASSUME NEW t \in Threads, SaveSale(t), NEW u \in Threads
      PROVE  ThreadOK(u)'
  <2>1. u = t /\ tfound'[t] = {} /\ trow'[t] = {}
    BY <1>1, <1>3 DEF Serial, SaveSale, EndRequest, TypeOK
  <2> QED
    BY <2>1 DEF ThreadOK
<1>4. ASSUME \A t \in Threads : ~SaveSale(t)
      PROVE  /\ Pending' \subseteq Pending /\ Made' = Made
             /\ saleRow' = saleRow /\ saleAmount' = saleAmount
  BY <1>4, PendingFrame
<1>5. ASSUME UNCHANGED threadVars, \A t \in Threads : ~SaveSale(t), NEW u \in Threads
      PROVE  ThreadOK(u)'
  BY <1>1, <1>2, <1>4, <1>5 DEF ThreadOK, ThreadInv, threadVars
<1>6. ASSUME NEW t \in Threads, ThreadStep(t), ~SaveSale(t), \A v \in Threads : ~SaveSale(v)
      PROVE  ThreadOK(t)'
  <2>1. CASE FindAddresses(t)
    <3>1. /\ tfound' = [tfound EXCEPT ![t] = {[row |-> i, address |-> address[i]] :
                                                i \in {j \in Rows : address[j] # "none"}}]
          /\ tpc'[t] \in {"generate", "filter"} /\ trow' = trow /\ address' = address
      BY <1>1, <2>1 DEF FindAddresses, TypeOK
    <3>2. \A a \in tfound'[t] : address[a.row] # "none"
      BY <1>1, <3>1 DEF TypeOK
    <3> QED
      BY <1>2, <3>1, <3>2 DEF ThreadOK
  <2>2. CASE ReuseAddress(t)
    <3>1. PICK a \in Free(t) : trow' = [trow EXCEPT ![t] = {a}]
      BY <2>2 DEF ReuseAddress
    <3>2. trow'[t] = {a} /\ a \in tfound[t] /\ tfound' = tfound /\ tamount' = tamount
      BY <1>1, <2>2, <3>1 DEF ReuseAddress, Free, TypeOK
    <3>3. \A s \in Pending : saleAmount[s] = tamount[t] => saleRow[s] # a.row
      BY DEF Free
    <3> QED
      BY <1>2, <1>4, <1>6, <3>2, <3>3 DEF ThreadOK
  <2>3. CASE NoAddressFree(t)
    <3>1. tpc'[t] = "generate" /\ UNCHANGED <<tfound, trow>>
      BY <1>1, <2>3 DEF NoAddressFree, TypeOK
    <3> QED
      BY <1>2, <3>1 DEF ThreadOK
  <2>4. CASE CreateRow(t)
    <3>1. PICK i \in NextId(Rows, {j \in Rows : address[j] # "none"}) :
            /\ address' = [address EXCEPT ![i] = "placeholder"]
            /\ trow' = [trow EXCEPT ![t] = {[row |-> i, address |-> "real"]}]
      BY <2>4 DEF CreateRow
    <3>2. i \in Rows /\ address[i] = "none" /\ address'[i] # "none"
      BY <1>1, <3>1 DEF NextId, TypeOK
    <3>3. \A s \in Made : saleRow[s] # i
      BY <1>1, <3>2 DEF ThreadInv
    <3>4. tfound' = tfound /\ \A a \in trow'[t] : a.row = i
      BY <1>1, <2>4, <3>1 DEF CreateRow, TypeOK
    <3> QED
      BY <1>2, <1>4, <1>6, <3>2, <3>3, <3>4 DEF ThreadOK, Pending
  <2>5. CASE AddressGenerated(t)
    <3>1. tpc[t] = "generating" /\ UNCHANGED <<tfound, trow, tamount>>
      BY <2>5 DEF AddressGenerated
    <3>2. \A a \in trow[t], s \in Pending : saleAmount[s] = tamount[t] => saleRow[s] # a.row
      BY <1>1, <3>1 DEF ThreadInv
    <3> QED
      BY <1>2, <1>4, <1>6, <3>1, <3>2 DEF ThreadOK
  <2> QED
    BY <1>6, <2>1, <2>2, <2>3, <2>4, <2>5 DEF ThreadStep
<1>7. ASSUME NEW t \in Threads, AddressFails(t) \/ RequestDies(t)
      PROVE  ThreadOK(t)'
  <2>1. tfound'[t] = {} /\ trow'[t] = {}
    BY <1>1, <1>7 DEF AddressFails, RequestDies, EndRequest, TypeOK
  <2> QED
    BY <2>1 DEF ThreadOK
<1>8. ASSUME NEW t \in Threads, NEW a \in Amounts, NewSale(t, a)
      PROVE  ThreadOK(t)'
  <2>1. tpc'[t] = "search" /\ UNCHANGED <<tfound, trow>>
    BY <1>1, <1>8 DEF NewSale, TypeOK
  <2> QED
    BY <1>2, <2>1 DEF ThreadOK
<1>9. \A t \in Threads : ThreadOK(t)'
  BY <1>3, <1>5, <1>6, <1>7, <1>8, ThreadFrame DEF Serial
<1> QED
  BY <1>9, RowsInUse DEF ThreadInv, ThreadOK

(* Customers go on paying once.                                            *)
LEMMA PaidOnceStep ==
    ASSUME IInv, PaidOnce, [Next]_vars
    PROVE  PaidOnce'
<1>1. TypeOK /\ TypeOK' /\ "again" \in Faults
  BY TypeStep DEF IInv, Faults
<1>2. budget["again"] \in Nat /\ budget'["again"] \in Nat /\ budget'["again"] <= budget["again"]
  BY <1>1, BudgetStep DEF TypeOK
<1>3. budget'["again"] = 0
  BY <1>2 DEF PaidOnce
<1>4. CASE payFor' = payFor
  BY <1>3, <1>4 DEF PaidOnce
<1>5. ASSUME NEW s \in Sales, NEW p \in Payments, Pay(s, p)
      PROVE  PaidOnce'
  <2>1. ~PaidFor(s)
    BY <1>2, <1>5 DEF Pay, Spend, PaidOnce
  <2> QED
    BY <1>1, <1>3, <1>5, <2>1 DEF Pay, PaidFor, PaidOnce, TypeOK
<1> QED
  BY <1>4, <1>5, SalesFrame DEF SaveSale, ListSales, Callback, RecordPayment, Notify, customerVars

(* A worker that saves a payment saves it for the sale it was made for.    *)
LEMMA SavesOwn ==
    ASSUME IInv, OwnInv, NEW w \in Workers, RecordPayment(w)
    PROVE  wsale[w] = payFor[wpay[w]]
<1>1. wsale[w] = payFor[wpay[w]] \/ Recorded(wpay[w])
  BY DEF RecordPayment, OwnInv
<1>2. wpay[w] \in called /\ \A s \in Sales \ {wsale[w]} : txid[s] # wpay[w]
  BY SavesFitting
<1>3. payFor[wpay[w]] \in Sales
  BY <1>2, PayForMade DEF Made
<1> QED
  BY <1>1, <1>2, <1>3 DEF Recorded

(* A recorded payment stays recorded.                                      *)
LEMMA RecordedKept ==
    ASSUME IInv, OwnInv, PaidOnce, [Next]_vars, NEW p \in called, Recorded(p)
    PROVE  Recorded(p)'
<1>1. p \in Payments /\ payFor[p] \in Sales /\ payFor[p] # NoSale /\ payFor'[p] = payFor[p]
  BY PayForMade, Monotone DEF Kept, Made, IInv, SalesInv
<1>2. CASE txid' = txid
  BY <1>1, <1>2 DEF Recorded
<1>3. ASSUME NEW w \in Workers, RecordPayment(w)
      PROVE  Recorded(p)'
  <2>1. txid' = [txid EXCEPT ![wsale[w]] = wpay[w]] /\ txid \in [Sales -> Payments \cup {NoPayment}]
    BY <1>3 DEF RecordPayment, IInv, TypeOK
  <2>2. wsale[w] = payFor[wpay[w]] /\ wpay[w] \in Payments
    BY <1>3, SavesOwn, SavesFitting
  <2>3. wsale[w] = payFor[p] => wpay[w] = p
    BY <1>1, <2>2 DEF PaidOnce
  <2> QED
    BY <1>1, <2>1, <2>3 DEF Recorded
<1> QED
  BY <1>2, <1>3, SalesFrame DEF SaveSale, ListSales, Pay, Callback, Notify, saleVars

(* The payment of a sale that is pending no more is recorded.              *)
LEMMA Settled ==
    ASSUME IInv, PaidOnce, RecordedByOwnPayment, NEW p \in called, payFor[p] \notin Pending
    PROVE  Recorded(p)
<1>1. p \in Payments /\ payFor[p] \in Made
  BY PayForMade
<1>2. txid[payFor[p]] \in Payments /\ payFor[txid[payFor[p]]] = payFor[p]
  BY <1>1 DEF Pending, Made, IInv, TypeOK, RecordedByOwnPayment
<1> QED
  BY <1>1, <1>2 DEF PaidOnce, Recorded, IInv, SalesInv

(* Only own payments are recorded.                                         *)
LEMMA RecordedStep ==
    ASSUME IInv, OwnInv, RecordedByOwnPayment, [Next]_vars
    PROVE  RecordedByOwnPayment'
<1>1. \A s \in Sales : txid[s] # NoPayment => payFor'[txid[s]] = s
  BY Monotone DEF IInv, TypeOK, SalesInv, Fits, Kept, RecordedByOwnPayment
<1>2. CASE txid' = txid
  BY <1>1, <1>2 DEF RecordedByOwnPayment, Made
<1>3. ASSUME NEW w \in Workers, RecordPayment(w)
      PROVE  RecordedByOwnPayment'
  <2>1. txid' = [txid EXCEPT ![wsale[w]] = wpay[w]] /\ txid \in [Sales -> Payments \cup {NoPayment}]
    BY <1>3 DEF RecordPayment, IInv, TypeOK
  <2>2. payFor' = payFor /\ wsale[w] = payFor[wpay[w]]
    BY <1>3, SavesOwn DEF RecordPayment, customerVars
  <2> QED
    BY <1>1, <2>1, <2>2 DEF RecordedByOwnPayment, Made
<1> QED
  BY <1>2, <1>3, SalesFrame DEF SaveSale, ListSales, Pay, Callback, Notify, saleVars

(* Workers keep to the sale a payment was made for.                        *)
LEMMA OwnStep ==
    ASSUME IInv, PendingDistinct, PaidOnce, RecordedByOwnPayment, OwnInv, [Next]_vars
    PROVE  OwnInv'
<1>1. TypeOK /\ WorkerInv /\ SalesInv /\ Kept
  BY Monotone DEF IInv
<1>2. ASSUME NEW v \in Workers, wpc[v] \notin {"idle", "down"}
      PROVE  /\ wpay[v] \in called /\ wpay[v] \in Payments
             /\ payFor'[wpay[v]] = payFor[wpay[v]]
             /\ Recorded(wpay[v]) => txid'[payFor'[wpay[v]]] = wpay[v]
  <2>1. wpay[v] \in called
    BY <1>1, <1>2 DEF WorkerInv
  <2>2. payFor'[wpay[v]] = payFor[wpay[v]]
    BY <1>1, <2>1 DEF Kept, SalesInv, TypeOK
  <2>3. ASSUME NEW p \in called, Recorded(p) PROVE txid'[payFor'[p]] = p
    BY <2>3, RecordedKept DEF Recorded
  <2> QED
    BY <1>1, <2>1, <2>2, <2>3 DEF TypeOK
<1>3. ASSUME NEW v \in Workers, wpc'[v] = wpc[v], wpay'[v] = wpay[v], wsale'[v] = wsale[v]
      PROVE  /\ wpc'[v] = "save" =>
                   wsale'[v] = payFor'[wpay'[v]] \/ txid'[payFor'[wpay'[v]]] = wpay'[v]
             /\ wpc'[v] \in {"notify", "ack"} => txid'[payFor'[wpay'[v]]] = wpay'[v]
  BY <1>2, <1>3 DEF OwnInv
<1>4. ASSUME NEW w \in Workers, Match(w)
      PROVE  wsale'[w] = payFor'[wpay'[w]] \/ txid'[payFor'[wpay'[w]]] = wpay'[w]
  <2>1. PICK s \in Matching(wpay[w]) : wsale' = [wsale EXCEPT ![w] = s]
    BY <1>4 DEF Match
  <2>2. wsale'[w] = s /\ wpay' = wpay /\ wpay[w] \in called /\ wpc[w] = "match"
    BY <1>1, <1>2, <1>4, <2>1 DEF Match, TypeOK
  <2>3. payFor[wpay[w]] \in Pending => s = payFor[wpay[w]]
    BY <2>1 DEF Matching, PendingDistinct
  <2>4. payFor[wpay[w]] \notin Pending => Recorded(wpay[w])
    BY <2>2, Settled
  <2> QED
    BY <1>2, <2>2, <2>3, <2>4
<1>5. ASSUME NEW w \in Workers, NoMatch(w)
      PROVE  txid'[payFor'[wpay'[w]]] = wpay'[w]
  <2>1. wpay' = wpay /\ wpay[w] \in called /\ wpc[w] = "match" /\ Matching(wpay[w]) = {}
    BY <1>2, <1>5 DEF NoMatch
  <2>2. payFor[wpay[w]] \notin Pending
    BY <2>1 DEF Matching
  <2> QED
    BY <1>2, <2>1, <2>2, Settled
<1>6. ASSUME NEW w \in Workers, RecordPayment(w)
      PROVE  txid'[payFor'[wpay'[w]]] = wpay'[w]
  <2>1. /\ txid' = [txid EXCEPT ![wsale[w]] = wpay[w]] /\ UNCHANGED <<wpay, payFor>>
        /\ wsale[w] = payFor[wpay[w]] /\ wsale[w] \in Sales
    BY <1>6, SavesOwn, SavesFitting DEF RecordPayment, customerVars, Made
  <2> QED
    BY <1>1, <2>1 DEF TypeOK
<1>7. ASSUME NEW w \in Workers, Notify(w) \/ (NotifyFails(w) /\ wpay' = wpay)
      PROVE  txid'[payFor'[wpay'[w]]] = wpay'[w]
  <2>1. wpay' = wpay /\ wpc[w] = "notify"
    BY <1>7 DEF Notify, NotifyFails
  <2> QED
    BY <1>2, <2>1 DEF OwnInv
<1> USE DEF OwnInv, Recorded
<1>8. CASE UNCHANGED <<queue, held, wpc, wpay, wsale>>
  BY <1>3, <1>8
<1>9. ASSUME NEW p \in Payments, Callback(p) PROVE OwnInv'
  BY <1>3, <1>9 DEF Callback, workerVars
<1>10. ASSUME NEW w \in Workers, WorkerStep(w) \/ NotifyFails(w) \/ WorkerCrash(w)
                                  \/ ConnectionLost(w) \/ Restart(w)
       PROVE  OwnInv'
  <2>1. \A v \in Workers \ {w} : wpc'[v] = wpc[v] /\ wpay'[v] = wpay[v] /\ wsale'[v] = wsale[v]
    BY <1>1, <1>10 DEF WorkerStep, Deliver, Match, NoMatch, RecordPayment, RecordFails, Notify, Ack,
       AckFails, NotifyFails, WorkerCrash, ConnectionLost, Restart, Exit, TypeOK, workerVars
  <2>2. CASE Match(w)
    <3>1. wpc'[w] = "save"
      BY <1>1, <2>2 DEF Match, TypeOK
    <3> QED
      BY <1>3, <1>4, <2>1, <2>2, <3>1
  <2>3. CASE NoMatch(w) \/ RecordPayment(w) \/ Notify(w)
    <3>1. wpc'[w] \in {"notify", "ack"}
      BY <1>1, <2>3 DEF NoMatch, RecordPayment, Notify, TypeOK
    <3> QED
      BY <1>3, <1>5, <1>6, <1>7, <2>1, <2>3, <3>1
  <2>4. CASE Deliver(w) \/ RecordFails(w) \/ Ack(w) \/ AckFails(w) \/ Exit(w) \/ Restart(w)
    <3>1. wpc'[w] \in {"match", "idle", "down"}
      BY <1>1, <2>4 DEF Deliver, RecordFails, Ack, AckFails, Restart, Exit, TypeOK
    <3> QED
      BY <1>3, <2>1, <3>1
  <2>5. CASE ConnectionLost(w)
    BY <1>3, <2>5 DEF ConnectionLost, workerVars
  <2>6. CASE NotifyFails(w) /\ ~Exit(w)
    <3>1. wpc'[w] = "ack" /\ wpay' = wpay
      BY <1>1, <2>6 DEF NotifyFails, TypeOK
    <3> QED
      BY <1>3, <1>7, <2>1, <2>6, <3>1
  <2>7. CASE WorkerCrash(w)
    BY <2>4, <2>7 DEF WorkerCrash
  <2> QED
    BY <1>10, <2>2, <2>3, <2>4, <2>5, <2>6, <2>7 DEF WorkerStep
<1>11. CASE BrokerRestart
  <2>1. UNCHANGED <<wpay, wsale>>
    BY <1>11 DEF BrokerRestart
  <2>2. \A v \in Workers : wpc'[v] = wpc[v] \/ wpc'[v] = "down"
    BY <1>1, <1>11 DEF BrokerRestart, TypeOK
  <2> QED
    BY <1>3, <2>1, <2>2
<1> QED
  BY <1>8, <1>9, <1>10, <1>11, WorkerFrame

(* A notification is recorded or on the queue, unless the broker restarted.*)
LEMMA KeptStep ==
    ASSUME IInv, PaidOnce, RecordedByOwnPayment, OwnInv, NotificationKept, [Next]_vars
    PROVE  NotificationKept'
<1>1. TypeOK /\ TypeOK' /\ WorkerInv /\ SalesInv /\ Kept
  BY TypeStep, Monotone DEF IInv
<1>2. Spent("broker") > 0 => Spent("broker")' > 0
  <2>1. budget["broker"] \in Int /\ budget'["broker"] \in Int /\ Budget["broker"] \in Int
    BY <1>1 DEF TypeOK, Faults
  <2>2. budget'["broker"] <= budget["broker"]
    BY <1>1, BudgetStep DEF TypeOK, Faults
  <2> QED
    BY <2>1, <2>2 DEF Spent
<1>3. ASSUME NEW p \in called, Recorded(p)
      PROVE  \E s \in Made' : txid'[s] = p
  <2>1. payFor[p] \in Made' /\ payFor'[p] = payFor[p]
    BY <1>1, PayForMade DEF Kept, SalesInv, TypeOK
  <2>2. txid'[payFor'[p]] = p
    BY <1>3, RecordedKept DEF Recorded
  <2> QED
    BY <2>1, <2>2
<1>4. ASSUME NEW p \in called, NEW s \in Made, txid[s] = p
      PROVE  Recorded(p)
  BY <1>1, <1>4 DEF RecordedByOwnPayment, Recorded, TypeOK
<1>5. ASSUME NEW p \in called, queue \subseteq queue'
      PROVE  \/ \E s \in Made' : txid'[s] = p
             \/ \E m \in queue' : m.payment = p
             \/ Spent("broker")' > 0
  BY <1>2, <1>3, <1>4, <1>5 DEF NotificationKept
<1>6. CASE queue \subseteq queue' /\ called' = called
  BY <1>5, <1>6 DEF NotificationKept
<1>7. ASSUME NEW p \in Payments, Callback(p)
      PROVE  NotificationKept'
  <2>1. called' = called \cup {p} /\ queue' = queue \cup {[pos |-> sent, payment |-> p]}
    BY <1>7 DEF Callback
  <2>2. \E m \in queue' : m.payment = p
    <3>1. [pos |-> sent, payment |-> p] \in queue' /\ [pos |-> sent, payment |-> p].payment = p
      BY <2>1
    <3> QED
      BY <3>1
  <2> QED
    BY <1>5, <2>1, <2>2 DEF NotificationKept
<1>8. ASSUME NEW w \in Workers, Ack(w)
      PROVE  NotificationKept'
  <2>1. queue' = queue \ {held[w]} /\ called' = called /\ held[w].payment = wpay[w]
    BY <1>1, <1>8 DEF Ack, WorkerInv, customerVars
  <2>2. wpay[w] \in called /\ Recorded(wpay[w])
    BY <1>1, <1>8 DEF Ack, WorkerInv, OwnInv
  <2>3. ASSUME NEW p \in called
        PROVE  \/ \E s \in Made' : txid'[s] = p
               \/ \E m \in queue' : m.payment = p
               \/ Spent("broker")' > 0
    <3>1. CASE p = wpay[w]
      BY <1>3, <2>2, <3>1
    <3>2. CASE p # wpay[w]
      BY <1>2, <1>3, <1>4, <2>1, <3>2 DEF NotificationKept
    <3> QED
      BY <3>1, <3>2
  <2> QED
    BY <2>1, <2>3 DEF NotificationKept
<1>9. CASE BrokerRestart
  <2>1. budget["broker"] \in Int /\ budget'["broker"] \in Int /\ Budget["broker"] \in Int
        /\ budget["broker"] <= Budget["broker"]
    BY <1>1 DEF TypeOK, Faults, IInv
  <2>2. budget'["broker"] < budget["broker"]
    BY <1>1, <1>9, SpendDecreases DEF BrokerRestart, TypeOK, Faults
  <2>3. Spent("broker")' > 0
    BY <2>1, <2>2 DEF Spent
  <2> QED
    BY <2>3 DEF NotificationKept
<1>10. ASSUME NEW w \in Workers,
              \/ WorkerStep(w) \/ NotifyFails(w)
              \/ WorkerCrash(w) \/ ConnectionLost(w) \/ Restart(w), ~Ack(w)
       PROVE  queue' = queue
  BY <1>10 DEF WorkerStep, Deliver, Match, NoMatch, RecordPayment, RecordFails, Notify, AckFails,
     NotifyFails, WorkerCrash, ConnectionLost, Restart, brokerVars
<1>11. called' = called \/ \E p \in Payments : Callback(p)
  BY SalesFrame DEF SaveSale, ListSales, Pay, RecordPayment, Notify, customerVars
<1> QED
  BY <1>6, <1>7, <1>8, <1>9, <1>10, <1>11, WorkerFrame

(* The initial state satisfies the invariant when nobody may pay twice.    *)
LEMMA SerialInit == Init /\ Budget["again"] = 0 => SerialInv
  BY DEF Init, SerialInv, PendingDistinct, ThreadInv, PaidOnce, RecordedByOwnPayment, OwnInv,
     NotificationKept, Pending, Made

(* With one thread no two pending sales wait for the same amount at the    *)
(* same address, also when customers pay a sale more than once.            *)
THEOREM PendingStaysDistinct ==
    ASSUME Serial
    PROVE  Spec => []PendingDistinct
<1>1. Init => PendingDistinct /\ ThreadInv
  BY DEF Init, PendingDistinct, ThreadInv, Pending, Made
<1>2. IInv /\ PendingDistinct /\ ThreadInv /\ [Next]_vars => PendingDistinct' /\ ThreadInv'
  BY DistinctStep, ThreadsStep
<1> QED
  BY <1>1, <1>2, Inductive, PTL DEF Spec

(* With one thread every step preserves it.                                *)
LEMMA SerialStep == Serial /\ IInv /\ SerialInv /\ [Next]_vars => SerialInv'
  BY DistinctStep, ThreadsStep, PaidOnceStep, RecordedStep, OwnStep, KeptStep DEF SerialInv

(* What one thread and customers who pay once make of the shop: the        *)
(* properties of the next theorems, in one inductive invariant.            *)
THEOREM SerialInductive ==
    ASSUME Serial, Budget["again"] = 0
    PROVE  Spec => []SerialInv
<1>1. Init => SerialInv
  BY SerialInit
<1>2. IInv /\ SerialInv /\ [Next]_vars => SerialInv'
  BY SerialStep
<1> QED
  BY <1>1, <1>2, Inductive, PTL DEF Spec

(* Repeated callbacks, redelivered messages, dead workers and restarted    *)
(* brokers never make a payment count for another sale.                    *)
THEOREM RecordedOwn ==
    ASSUME Serial, Budget["again"] = 0
    PROVE  Spec => []RecordedByOwnPayment
<1>1. SerialInv => RecordedByOwnPayment
  BY DEF SerialInv
<1> QED
  BY <1>1, SerialInductive, PTL

(* A notification the view accepted is recorded or on the queue until the  *)
(* broker restarts: acknowledgement comes after the save.                  *)
THEOREM NothingLost ==
    ASSUME Serial, Budget["again"] = 0
    PROVE  Spec => []NotificationKept
<1>1. SerialInv => NotificationKept
  BY DEF SerialInv
<1> QED
  BY <1>1, SerialInductive, PTL

-----------------------------------------------------------------------------
(* Sales that can be paid, with one web thread.                            *)

(* Faults spent are never more than allowed, and never taken back.         *)
LEMMA SpentGrows ==
    ASSUME IInv, [Next]_vars, NEW f \in Faults
    PROVE  Spent(f) \in Nat /\ Spent(f)' \in Nat /\ Spent(f) <= Spent(f)'
<1>1. /\ budget \in [Faults -> Nat] /\ budget' \in [Faults -> Nat]
      /\ budget[f] <= Budget[f] /\ budget'[f] <= budget[f]
  BY BudgetStep, TypeStep DEF IInv, TypeOK
<1> QED
  BY <1>1 DEF Spent

(* A fault that is spent counts.                                           *)
LEMMA SpendCounts ==
    ASSUME IInv, [Next]_vars, NEW f \in Faults, Spend(f)
    PROVE  Spent(f)' > 0
<1>1. /\ budget \in [Faults -> Nat] /\ budget' \in [Faults -> Nat]
      /\ budget[f] <= Budget[f] /\ budget'[f] < budget[f]
  BY SpendDecreases DEF IInv, TypeOK
<1> QED
  BY <1>1 DEF Spent

(* A step of the one thread that no fault ends.                            *)
LEMMA AddressThread ==
    ASSUME IInv, Serial, AddressInv, [Next]_vars, NEW t \in Threads, ThreadStep(t)
    PROVE  AddressInv'
<1>1. /\ address \in [Rows -> {"none", "placeholder", "real"}]
      /\ tpc \in [Threads -> ThreadStates] /\ saleRow \in [Sales -> Rows \cup {NoRow}]
      /\ tfound \in [Threads -> SUBSET Loaded] /\ trow \in [Threads -> SUBSET Loaded]
  BY DEF IInv, TypeOK
<1>2. \A u \in Threads : u = t
  BY DEF Serial
<1>3. \A a \in tfound[t] \cup trow[t] : a.address = "real"
  BY DEF AddressInv
<1>4. \A i \in Rows : address[i] = "placeholder" =>
         tpc[t] = "generating" /\ \E a \in trow[t] : a.row = i
  BY <1>2 DEF AddressInv, Waited
<1>5. CASE FindAddresses(t)
  <2>1. /\ tfound' = [tfound EXCEPT ![t] = {[row |-> i, address |-> address[i]] :
                                              i \in {j \in Rows : address[j] # "none"}}]
        /\ tpc[t] = "search"
        /\ UNCHANGED <<address, trow, saleRow, payable>>
    BY <1>5 DEF FindAddresses, saleVars, customerVars
  <2>2. \A i \in Rows : address[i] # "placeholder"
    BY <1>4, <2>1
  <2>3. \A a \in tfound'[t] : a.address = "real"
    BY <1>1, <2>1, <2>2
  <2> QED
    BY <1>1, <1>2, <1>3, <2>1, <2>2, <2>3 DEF AddressInv, Made
<1>6. CASE ReuseAddress(t)
  <2>1. PICK a \in Free(t) : trow' = [trow EXCEPT ![t] = {a}]
    BY <1>6 DEF ReuseAddress
  <2>2. /\ a \in tfound[t] /\ tpc[t] = "filter"
        /\ UNCHANGED <<address, tfound, saleRow, payable>>
    BY <1>6 DEF ReuseAddress, Free, saleVars, customerVars
  <2> QED
    BY <1>1, <1>2, <1>3, <1>4, <2>1, <2>2 DEF AddressInv, Made
<1>7. CASE NoAddressFree(t)
  <2>1. tpc[t] = "filter" /\ UNCHANGED <<address, tfound, trow, saleRow, payable>>
    BY <1>7 DEF NoAddressFree, saleVars, customerVars
  <2> QED
    BY <1>1, <1>2, <1>3, <1>4, <2>1 DEF AddressInv, Made
<1>8. CASE CreateRow(t)
  <2>1. PICK i \in NextId(Rows, {j \in Rows : address[j] # "none"}) :
          /\ address' = [address EXCEPT ![i] = "placeholder"]
          /\ trow' = [trow EXCEPT ![t] = {[row |-> i, address |-> "real"]}]
    BY <1>8 DEF CreateRow
  <2>2. /\ tpc[t] = "generate" /\ tpc' = [tpc EXCEPT ![t] = "generating"]
        /\ UNCHANGED <<tfound, saleRow, payable>>
    BY <1>8 DEF CreateRow, saleVars, customerVars
  <2>3. \A j \in Rows : address'[j] = "placeholder" => j = i
    BY <1>1, <1>4, <2>1, <2>2
  <2>4. /\ [row |-> i, address |-> "real"] \in trow'[t] /\ tpc'[t] = "generating"
        /\ \A a \in trow'[t] : a.address = "real"
    BY <1>1, <2>1, <2>2
  <2>5. [row |-> i, address |-> "real"].row = i
    OBVIOUS
  <2>6. Waited(i)'
    BY <2>4, <2>5 DEF Waited
  <2> QED
    BY <1>1, <1>2, <1>3, <2>2, <2>3, <2>4, <2>6 DEF AddressInv, Made
<1>9. CASE AddressGenerated(t)
  <2>1. /\ address' = [i \in Rows |-> IF \E a \in trow[t] : a.row = i THEN "real" ELSE address[i]]
        /\ UNCHANGED <<tfound, trow, saleRow, payable>>
    BY <1>9 DEF AddressGenerated, saleVars, customerVars
  <2>2. \A i \in Rows : address'[i] # "placeholder"
    BY <1>4, <2>1
  <2> QED
    BY <1>1, <1>2, <1>3, <2>1, <2>2 DEF AddressInv, Made
<1>10. CASE SaveSale(t)
  <2>1. PICK a \in trow[t], s \in NextId(Sales, Made) :
          /\ saleRow' = [saleRow EXCEPT ![s] = a.row]
          /\ payable' = IF a.address = "real" THEN payable \cup {s} ELSE payable
    BY <1>10 DEF SaveSale
  <2>2. Made' \subseteq Made \cup {s} /\ payable' = payable \cup {s}
    BY <1>1, <1>3, <2>1 DEF Made
  <2>3. /\ tpc[t] = "save" /\ address' = address
        /\ tfound' = [tfound EXCEPT ![t] = {}] /\ trow' = [trow EXCEPT ![t] = {}]
    BY <1>10 DEF SaveSale, EndRequest
  <2> QED
    BY <1>1, <1>2, <1>4, <2>2, <2>3 DEF AddressInv
<1> QED
  BY <1>5, <1>6, <1>7, <1>8, <1>9, <1>10 DEF ThreadStep

(* While no request is refused an address or dies, a placeholder row is    *)
(* the one the thread waits for.                                           *)
LEMMA AddressStep ==
    ASSUME IInv, Serial, AnsweredInv, [Next]_vars
    PROVE  AnsweredInv'
<1> SUFFICES ASSUME Spent("api")' + Spent("abort")' = 0 PROVE AddressInv'
  BY DEF AnsweredInv
<1>1. "api" \in Faults /\ "abort" \in Faults
  BY DEF Faults
<1>2. AddressInv
  BY <1>1, SpentGrows DEF AnsweredInv
<1>3. ~Spend("api") /\ ~Spend("abort")
  BY <1>1, SpentGrows, SpendCounts
<1>4. \A t \in Threads : ~AddressFails(t) /\ ~RequestDies(t)
  BY <1>3 DEF AddressFails, RequestDies
<1>5. ASSUME \A t \in Threads : ~ThreadStep(t) PROVE AddressInv'
  <2>1. address' = address
    BY <1>5, AddressFrame DEF ThreadStep
  <2>2. Made' = Made /\ payable \subseteq payable'
    <3>1. Made' = Made
      BY <1>5, PendingFrame DEF ThreadStep
    <3>2. payable \subseteq payable'
      BY <1>5, SalesFrame DEF ThreadStep, ListSales, Pay, Callback, RecordPayment, Notify,
         customerVars
    <3> QED
      BY <3>1, <3>2
  <2>3. CASE UNCHANGED threadVars
    BY <1>2, <2>1, <2>2, <2>3 DEF AddressInv, Waited, threadVars
  <2>4. ASSUME NEW t \in Threads, NEW a \in Amounts, NewSale(t, a) PROVE AddressInv'
    <3>1. tpc[t] = "idle" /\ tpc' = [tpc EXCEPT ![t] = "search"] /\ UNCHANGED <<tfound, trow>>
      BY <2>4 DEF NewSale
    <3>2. \A u \in Threads : tpc[u] # "generating"
      BY <3>1 DEF Serial
    <3> QED
      BY <1>2, <2>1, <2>2, <3>1, <3>2 DEF AddressInv, Waited
  <2> QED
    BY <1>4, <1>5, <2>3, <2>4, ThreadFrame
<1> QED
  BY <1>2, <1>5, AddressThread

(* When sales are made one at a time, none is made on a row without a real *)
(* address unless a request was refused one or died: rows that are created *)
(* in two steps are only ever reused complete.                             *)
THEOREM PayableSerially ==
    ASSUME Serial
    PROVE  Spec => []PayableWhileAnswered
<1>1. Init => AnsweredInv
  BY DEF Init, AnsweredInv, AddressInv, Made
<1>2. IInv /\ AnsweredInv /\ [Next]_vars => AnsweredInv'
  BY AddressStep
<1>3. AnsweredInv => PayableWhileAnswered
  BY DEF AnsweredInv, AddressInv, PayableWhileAnswered
<1> QED
  BY <1>1, <1>2, <1>3, Inductive, PTL DEF Spec

-----------------------------------------------------------------------------
(* Sales that stay in their batch.                                         *)

(* A batch is given to a sale by Batch, and taken away by RecordPayment.   *)
LEMMA BatchedFrame ==
    ASSUME [Next]_vars
    PROVE  \/ batched' = batched
           \/ \E s \in Sales : Batch(s)
           \/ \E w \in Workers : RecordPayment(w)
<1>1. ASSUME NEW t \in Threads,
             \/ \E a \in Amounts : NewSale(t, a)
             \/ ThreadStep(t) \/ AddressFails(t) \/ RequestDies(t)
      PROVE  batched' = batched
  BY <1>1 DEF ThreadStep, NewSale, FindAddresses, ReuseAddress, NoAddressFree, CreateRow,
     AddressGenerated, SaveSale, AddressFails, RequestDies, saleVars
<1>2. ASSUME NEW w \in Workers, ~RecordPayment(w),
             \/ WorkerStep(w) \/ NotifyFails(w)
             \/ WorkerCrash(w) \/ ConnectionLost(w) \/ Restart(w)
      PROVE  batched' = batched
  BY <1>2 DEF WorkerStep, Deliver, Match, NoMatch, RecordFails, Notify, Ack, AckFails,
     NotifyFails, WorkerCrash, ConnectionLost, Restart, saleVars
<1>3. ASSUME NEW s \in Sales, NEW p \in Payments, Pay(s, p)
      PROVE  batched' = batched
  BY <1>3 DEF Pay, saleVars
<1>4. ASSUME NEW p \in Payments, Callback(p)
      PROVE  batched' = batched
  BY <1>4 DEF Callback, saleVars
<1>5. CASE ListSales \/ BrokerRestart \/ UNCHANGED vars
  BY <1>5 DEF ListSales, BrokerRestart, vars, saleVars
<1> QED
  BY <1>1, <1>2, <1>3, <1>4, <1>5 DEF Next

(* Nothing that is shared among workers changes, and at most one of them,  *)
(* w, becomes idle or goes on with the notification it has.                *)
GoesOn(w) ==
    /\ queue' = queue /\ held' = held /\ wpay' = wpay /\ Busy(w)
    /\ \A v \in Workers \ {w} : wpc'[v] = wpc[v] /\ wsale'[v] = wsale[v]

GoesAway(w) ==
    /\ queue' \subseteq queue /\ ~Busy(w)'
    /\ \A v \in Workers \ {w} : /\ wpc'[v] = wpc[v] /\ wsale'[v] = wsale[v]
                                /\ held'[v] = held[v] /\ wpay'[v] = wpay[v]

(* The first three parts of OneNotification: messages and who has them.    *)
Exclusive ==
    /\ \A m, n \in queue : m.payment = n.payment => m = n
    /\ \A v, w \in Workers : Busy(v) /\ Busy(w) /\ wpay[v] = wpay[w] => v = w
    /\ \A w \in Workers, m \in queue : Busy(w) /\ m.payment = wpay[w] => held[w] = m

(* Without repeated callbacks and lost connections every notification is   *)
(* with one worker, also after crashes and restarts of the broker.         *)
LEMMA ExclusiveStep ==
    ASSUME IInv, Exclusive, [Next]_vars, ~Spend("dup"), ~Spend("drop")
    PROVE  Exclusive'
<1> USE DEF Busy
<1>1. /\ queue \subseteq Messages /\ held \in [Workers -> Messages \cup {NoMessage}]
      /\ wpc \in [Workers -> WorkerStates] /\ wpay \in [Workers -> Payments \cup {NoPayment}]
      /\ wsale \in [Workers -> Sales \cup {NoSale}]
      /\ \A m \in queue : m.payment \in called
      /\ \A w \in Workers : Busy(w) => wpay[w] \in called
  BY DEF IInv, TypeOK, WorkerInv
<1>2. CASE UNCHANGED <<queue, held, wpc, wpay, wsale>>
  BY <1>2 DEF Exclusive
<1>3. ASSUME NEW p \in Payments, Callback(p) PROVE Exclusive'
  <2>1. /\ p \notin called /\ queue' = queue \cup {[pos |-> sent, payment |-> p]}
        /\ UNCHANGED <<held, wpc, wpay>>
    BY <1>3 DEF Callback, workerVars
  <2>2. [pos |-> sent, payment |-> p].payment = p
    OBVIOUS
  <2> QED
    BY <1>1, <2>1, <2>2 DEF Exclusive
<1>4. ASSUME NEW w \in Workers, Deliver(w) PROVE Exclusive'
  <2>1. PICK m \in NextUp(queue, held) :
          held' = [held EXCEPT ![w] = m] /\ wpay' = [wpay EXCEPT ![w] = m.payment]
    BY <1>4 DEF Deliver
  <2>2. m \in queue /\ \A v \in Workers : held[v] # m
    BY <1>1 DEF NextUp, Ready
  <2>3. /\ wpc[w] = "idle" /\ wpc' = [wpc EXCEPT ![w] = "match"] /\ queue' = queue
    BY <1>4 DEF Deliver
  <2>4. \A v \in Workers : Busy(v) => wpay[v] # m.payment
    BY <2>2 DEF Exclusive
  <2> QED
    BY <1>1, <2>1, <2>2, <2>3, <2>4 DEF Exclusive
<1>5. ASSUME NEW w \in Workers, GoesOn(w) PROVE Exclusive'
  BY <1>5 DEF GoesOn, Exclusive
<1>6. ASSUME NEW w \in Workers, GoesAway(w) PROVE Exclusive'
  <2>1. \A v \in Workers : Busy(v)' => v # w /\ Busy(v) /\ held'[v] = held[v] /\ wpay'[v] = wpay[v]
    BY <1>6 DEF GoesAway
  <2> QED
    BY <1>6, <2>1 DEF GoesAway, Exclusive
<1>7. ASSUME NEW w \in Workers,
             \/ Match(w) \/ NoMatch(w) \/ RecordPayment(w) \/ Notify(w)
             \/ NotifyFails(w) /\ ~Exit(w)
      PROVE  GoesOn(w)
  BY <1>1, <1>7 DEF Match, NoMatch, RecordPayment, Notify, NotifyFails, GoesOn, brokerVars
<1>8. ASSUME NEW w \in Workers,
             \/ RecordFails(w) \/ Ack(w) \/ AckFails(w) \/ WorkerCrash(w) \/ Restart(w)
             \/ NotifyFails(w) /\ Exit(w)
      PROVE  GoesAway(w)
  BY <1>1, <1>8 DEF RecordFails, Ack, AckFails, NotifyFails, WorkerCrash, Restart, Exit, GoesAway,
     brokerVars
<1>9. ASSUME BrokerRestart PROVE Exclusive'
  BY <1>1, <1>9 DEF BrokerRestart, Exclusive
<1>10. \A w \in Workers : ~ConnectionLost(w)
  BY DEF ConnectionLost
<1>11. ASSUME NEW w \in Workers, NotifyFails(w) PROVE Exclusive'
  <2>1. CASE Exit(w)
    BY <1>6, <1>8, <1>11, <2>1
  <2>2. CASE ~Exit(w)
    BY <1>5, <1>7, <1>11, <2>2
  <2> QED
    BY <2>1, <2>2
<1>12. ASSUME NEW w \in Workers, WorkerStep(w) PROVE Exclusive'
  BY <1>4, <1>5, <1>6, <1>7, <1>8, <1>12 DEF WorkerStep
<1>13. ASSUME NEW w \in Workers, WorkerCrash(w) \/ Restart(w) PROVE Exclusive'
  BY <1>6, <1>8, <1>13
<1> QED
  BY <1>2, <1>3, <1>9, <1>10, <1>11, <1>12, <1>13, WorkerFrame

(* The last part: a worker that is about to save a payment for its own     *)
(* sale finds it pending.                                                  *)
StillPending ==
    \A w \in Workers : wpc[w] = "save" /\ wsale[w] = payFor[wpay[w]] => txid[wsale[w]] = NoPayment

(* It stays so, because nobody else has this payment and no other payment  *)
(* is recorded for this sale.                                              *)
LEMMA StillPendingStep ==
    ASSUME IInv, PaidOnce, OwnInv, Exclusive, StillPending, [Next]_vars
    PROVE  StillPending'
<1> SUFFICES ASSUME NEW w \in Workers, wpc'[w] = "save", wsale'[w] = payFor'[wpay'[w]]
             PROVE  txid'[wsale'[w]] = NoPayment
  BY DEF StillPending
<1>1. /\ wpc \in [Workers -> WorkerStates] /\ wpay \in [Workers -> Payments \cup {NoPayment}]
      /\ wsale \in [Workers -> Sales \cup {NoSale}] /\ txid \in [Sales -> Payments \cup {NoPayment}]
  BY DEF IInv, TypeOK
<1>2. CASE Match(w)
  <2>1. \E s \in Pending : wsale'[w] = s /\ txid' = txid
    BY <1>1, <1>2 DEF Match, Matching, saleVars
  <2> QED
    BY <2>1 DEF Pending
<1>3. ASSUME ~Match(w)
      PROVE  wpc[w] = "save" /\ wsale'[w] = wsale[w] /\ wpay'[w] = wpay[w]
  <2>1. ASSUME NEW v \in Workers,
               \/ WorkerStep(v) \/ NotifyFails(v)
               \/ WorkerCrash(v) \/ ConnectionLost(v) \/ Restart(v)
        PROVE  wpc[w] = "save" /\ wsale'[w] = wsale[w] /\ wpay'[w] = wpay[w]
    BY <1>1, <1>3, <2>1 DEF WorkerStep, Deliver, Match, NoMatch, RecordPayment, RecordFails, Notify,
       Ack, AckFails, NotifyFails, WorkerCrash, ConnectionLost, Restart, Exit, workerVars
  <2>2. CASE BrokerRestart
    BY <1>1, <2>2 DEF BrokerRestart
  <2> QED
    BY <2>1, <2>2, WorkerFrame DEF Callback, workerVars
<1>4. ASSUME ~Match(w)
      PROVE  wsale[w] = payFor[wpay[w]] /\ wpay[w] \in called /\ txid[wsale[w]] = NoPayment
  <2>1. wpay[w] \in called /\ wpay[w] \in Payments /\ payFor[wpay[w]] # NoSale
    BY <1>3, <1>4 DEF IInv, TypeOK, WorkerInv, SalesInv
  <2>2. payFor'[wpay[w]] = payFor[wpay[w]]
    BY <2>1, Monotone DEF Kept
  <2> QED
    BY <1>3, <1>4, <2>1, <2>2 DEF StillPending
<1>5. CASE txid' = txid /\ ~Match(w)
  BY <1>3, <1>4, <1>5
<1>6. ASSUME NEW v \in Workers, RecordPayment(v), ~Match(w) PROVE txid'[wsale'[w]] = NoPayment
  <2>1. v # w /\ wpc[v] = "save"
    BY <1>1, <1>6 DEF RecordPayment
  <2>2. wpay[v] # wpay[w]
    BY <1>3, <1>6, <2>1 DEF Exclusive, Busy
  <2>3. wsale[v] = payFor[wpay[v]] /\ wpay[v] \in Payments /\ wpay[w] \in Payments
    BY <1>4, <1>6, SavesOwn, SavesFitting DEF IInv, TypeOK
  <2>4. wsale[v] # wsale[w]
    BY <1>4, <1>6, <2>2, <2>3 DEF PaidOnce, IInv, SalesInv
  <2>5. txid' = [txid EXCEPT ![wsale[v]] = wpay[v]]
    BY <1>6 DEF RecordPayment
  <2> QED
    BY <1>1, <1>3, <1>4, <1>6, <2>4, <2>5
<1> QED
  BY <1>2, <1>5, <1>6, SalesFrame DEF SaveSale, ListSales, Pay, Callback, Notify, saleVars

(* A batched sale is a sold one, and notifications stay with one worker    *)
(* unless one is repeated or redelivered.                                  *)
LEMMA BatchedStep ==
    ASSUME IInv, PaidOnce, OwnInv, BatchedInv, [Next]_vars
    PROVE  BatchedInv'
<1>1. \A s \in batched' : txid'[s] # NoPayment
  <2>1. /\ batched \subseteq Sales /\ txid \in [Sales -> Payments \cup {NoPayment}]
        /\ \A s \in Sales : txid[s] # NoPayment => txid'[s] # NoPayment
    BY Monotone DEF IInv, TypeOK, Kept
  <2>2. ASSUME NEW s \in Sales, Batch(s) PROVE batched' = batched \cup {s} /\ txid[s] # NoPayment
    BY <2>2 DEF Batch
  <2>3. ASSUME NEW w \in Workers, RecordPayment(w) PROVE batched' \subseteq batched
    BY <2>3 DEF RecordPayment
  <2> QED
    BY <2>1, <2>2, <2>3, BatchedFrame DEF BatchedInv
<1>2. ASSUME Spent("dup")' + Spent("drop")' = 0 PROVE OneNotification'
  <2>1. "dup" \in Faults /\ "drop" \in Faults
    BY DEF Faults
  <2>2. Spent("dup") + Spent("drop") = 0 /\ ~Spend("dup") /\ ~Spend("drop")
    BY <1>2, <2>1, SpentGrows, SpendCounts
  <2>3. OneNotification <=> Exclusive /\ StillPending
    BY DEF OneNotification, Exclusive, StillPending
  <2>4. Exclusive' /\ StillPending'
    BY <2>2, <2>3, ExclusiveStep, StillPendingStep DEF BatchedInv
  <2> QED
    BY <2>4 DEF OneNotification, Exclusive, StillPending
<1> QED
  BY <1>1, <1>2 DEF BatchedInv

(* One at a time and paid once, a sale in a batch stays there until a      *)
(* callback or a delivery is repeated: a worker's stale copy of the row    *)
(* never brings it back to the open batch, whoever crashes or restarts.    *)
THEOREM BatchedForGood ==
    ASSUME Serial, Budget["again"] = 0
    PROVE  Spec => BatchedStaysBatched
<1> DEFINE Stays == Spent("dup") + Spent("drop") = 0 => batched \subseteq batched'
<1>1. Init => BatchedInv
  BY DEF Init, BatchedInv, OneNotification, Busy
<1>2. IInv /\ SerialInv /\ BatchedInv /\ [Next]_vars => BatchedInv'
  BY BatchedStep DEF SerialInv
<1>3. IInv /\ SerialInv /\ BatchedInv /\ [Next]_vars => Stays
  <2> SUFFICES ASSUME IInv, SerialInv, BatchedInv, [Next]_vars, Spent("dup") + Spent("drop") = 0,
                      NEW w \in Workers, RecordPayment(w)
               PROVE  batched \subseteq batched'
    BY BatchedFrame DEF Batch
  <2>1. wsale[w] = payFor[wpay[w]]
    BY SavesOwn DEF SerialInv
  <2>2. txid[wsale[w]] = NoPayment
    BY <2>1 DEF BatchedInv, OneNotification, RecordPayment
  <2> QED
    BY <2>2 DEF BatchedInv, RecordPayment
<1>4. IInv /\ SerialInv /\ BatchedInv /\ [Next]_vars => [Stays]_vars
  BY <1>3
<1> QED
  BY <1>1, <1>2, <1>4, Inductive, SerialInductive, PTL DEF Spec, BatchedStaysBatched

=============================================================================

---------------------------- MODULE ScreenProofs ----------------------------
(* Theorems about the point of sale screen, for every number of sales, of  *)
(* connections and of confirmations, and every order of their answers.     *)
EXTENDS Screen, StreamProofs

USE MessagesAssumption

-----------------------------------------------------------------------------
(* What a step leaves alone.                                               *)

(* Screen is written on top of Stream.                                     *)
LEMMA StreamFrame == [Next]_vars => [StreamNext]_svars
<1> SUFFICES ASSUME [Next]_vars PROVE [StreamNext]_svars
  OBVIOUS
<1>1. ASSUME Answers \/ Retry \/ NoCredentials \/ NewSaleButton PROVE UNCHANGED svars
  BY <1>1 DEF Answers, FindHistory, LoadSaleHistory, NewSaleMade, ShowPanel, ShowDetail, Animate,
     Retry, NoCredentials, NewSaleButton
<1>2. ASSUME NEW s \in Sales, NewSaleSubmit(s) \/ NewSaleFails(s) \/ Pay(s) PROVE UNCHANGED svars
  BY <1>2 DEF NewSaleSubmit, NewSaleFails, Pay
<1>3. ASSUME NEW d \in DOMAIN divs, Click(d) PROVE UNCHANGED svars
  BY <1>3 DEF Click
<1>4. ASSUME NEW c \in Conns, Credentials(c) PROVE StreamNext
  BY <1>4 DEF Credentials, StreamNext, Phases
<1>5. ASSUME NEW c \in Conns, NEW p \in Phases, NEW n \in 0 .. 1, OnConnect(c, p, n)
      PROVE  StreamNext
  BY <1>5 DEF OnConnect, StreamNext
<1>6. ASSUME NEW c \in Conns, NEW m \in Messages, Notify(c, m) PROVE StreamNext
  BY <1>6 DEF Notify, StreamNext
<1>7. ASSUME Confirmed PROVE StreamNext
  BY <1>7 DEF Confirmed, OnConfirm, StreamNext
<1>8. CASE UNCHANGED vars
  BY <1>8 DEF vars
<1> QED
  BY <1>1, <1>2, <1>3, <1>4, <1>5, <1>6, <1>7, <1>8 DEF Next

(* The panels change only when one is put up, when a confirmation comes and*)
(* when an animation ends.                                                 *)
LEMMA DivsFrame ==
    ASSUME [Next]_vars
    PROVE  \/ divs' = divs
           \/ \E r \in renders : ShowPanel(r)
           \/ \E c \in Conns : \E q \in Orders(Unseen(c)) : OnConfirm(c, q)
           \/ \E d \in DOMAIN divs : Animate(d)
<1>1. ASSUME \/ FindHistory \/ LoadSaleHistory \/ Retry \/ NoCredentials \/ NewSaleButton
             \/ \E s \in Sales : NewSaleMade(s) \/ NewSaleSubmit(s) \/ NewSaleFails(s) \/ Pay(s)
             \/ \E r \in renders : ShowDetail(r)
             \/ \E d \in DOMAIN divs : Click(d)
             \/ UNCHANGED vars
      PROVE  divs' = divs
  BY <1>1 DEF FindHistory, LoadSaleHistory, Retry, NoCredentials, NewSaleButton, NewSaleMade,
     NewSaleSubmit, NewSaleFails, Pay, ShowDetail, Click, vars, pvars
<1>2. ASSUME NEW c \in Conns,
             \/ Credentials(c)
             \/ \E p \in Phases, n \in 0 .. 1 : OnConnect(c, p, n)
             \/ \E m \in Messages : Notify(c, m)
      PROVE  divs' = divs
  BY <1>2 DEF Credentials, OnConnect, Notify
<1> QED
  BY <1>1, <1>2 DEF Next, Answers, Confirmed

(* A sale stays confirmed.                                                 *)
LEMMA PaidForGood ==
    ASSUME ShapeInv, [Next]_vars, NEW s, Paid(s)
    PROVE  Paid(s)'
<1>1. ASSUME NEW t \in Sales, NewSaleSubmit(t) \/ Pay(t) PROVE Paid(s)'
  BY <1>1 DEF NewSaleSubmit, Pay, Paid, ShapeInv
<1>2. ASSUME \/ FindHistory \/ LoadSaleHistory \/ Retry \/ NoCredentials \/ NewSaleButton
             \/ \E t \in Sales : NewSaleMade(t) \/ NewSaleFails(t)
             \/ \E r \in renders : ShowDetail(r) \/ ShowPanel(r)
             \/ \E d \in DOMAIN divs : Click(d) \/ Animate(d)
             \/ UNCHANGED vars
      PROVE  sale' = sale
  BY <1>2 DEF FindHistory, LoadSaleHistory, Retry, NoCredentials, NewSaleButton, NewSaleMade,
     NewSaleFails, ShowDetail, ShowPanel, Click, Animate, vars, pvars, orders
<1>3. ASSUME NEW c \in Conns,
             \/ Credentials(c)
             \/ \E p \in Phases, n \in 0 .. 1 : OnConnect(c, p, n)
             \/ \E m \in Messages : Notify(c, m)
             \/ \E q \in Orders(Unseen(c)) : OnConfirm(c, q)
      PROVE  sale' = sale
  BY <1>3 DEF Credentials, OnConnect, Notify, OnConfirm, orders
<1> QED
  BY <1>1, <1>2, <1>3 DEF Next, Answers, Confirmed, Paid

-----------------------------------------------------------------------------
(* The shape of the page's state.                                          *)
LEMMA ShapeStep == ShapeInv /\ [Next]_vars => ShapeInv'
<1> SUFFICES ASSUME ShapeInv, [Next]_vars PROVE ShapeInv'
  OBVIOUS
<1> USE DEF ShapeInv, Known, orders, dialogs, login
<1>1. ASSUME NEW c \in Conns,
             \/ Credentials(c)
             \/ \E p \in Phases, n \in 0 .. 1 : OnConnect(c, p, n)
             \/ \E m \in Messages : Notify(c, m)
             \/ \E q \in Orders(Unseen(c)) : OnConfirm(c, q)
      PROVE  ShapeInv'
  <2>1. UNCHANGED <<orders, renders, dialogs>> /\ DOMAIN divs' = DOMAIN divs
    BY <1>1 DEF Credentials, OnConnect, Notify, OnConfirm, UpdateTxStatus
  <2> QED
    BY <2>1
<1>2. ASSUME Retry \/ NoCredentials \/ NewSaleButton \/ UNCHANGED vars PROVE ShapeInv'
  BY <1>2 DEF Retry, NoCredentials, NewSaleButton, vars, pvars
<1>3. ASSUME FindHistory \/ LoadSaleHistory PROVE ShapeInv'
  BY <1>3 DEF FindHistory, LoadSaleHistory, AddSaleDiv
<1>4. ASSUME NEW s \in Sales,
             NewSaleSubmit(s) \/ NewSaleFails(s) \/ Pay(s)
      PROVE  ShapeInv'
  BY <1>4 DEF NewSaleSubmit, NewSaleFails, Pay
<1>5. ASSUME NEW s \in Sales, NewSaleMade(s) PROVE ShapeInv'
  BY <1>5 DEF NewSaleMade, AddSaleDiv
<1>6. ASSUME NEW r \in renders, ShowPanel(r) PROVE ShapeInv'
  <2>1. Known(<<r.sale, r.from>>)
    BY <1>6 DEF ShowPanel
  <2>2. DOMAIN divs' = DOMAIN divs \cup {<<r.sale, r.from>>}
    BY <1>6 DEF ShowPanel
  <2> QED
    BY <1>6, <2>1, <2>2 DEF ShowPanel
<1>7. ASSUME NEW r \in renders, ShowDetail(r) PROVE ShapeInv'
  BY <1>7 DEF ShowDetail
<1>8. ASSUME NEW d \in DOMAIN divs, Click(d) PROVE ShapeInv'
  BY <1>8 DEF Click
<1>9. ASSUME NEW d \in DOMAIN divs, Animate(d) PROVE ShapeInv'
  <2>1. UNCHANGED <<orders, renders, dialogs>> /\ DOMAIN divs' = DOMAIN divs
    BY <1>9 DEF Animate, Turned
  <2> QED
    BY <2>1
<1> QED
  BY <1>1, <1>2, <1>3, <1>4, <1>5, <1>6, <1>7, <1>8, <1>9 DEF Next, Answers, Confirmed

(* Only a connection that is connecting opens or fails to authenticate.    *)
LEMMA PhaseOrder ==
    ASSUME NEW x \in Phases
    PROVE  /\ "new" \notin Follows(x)
           /\ {"open", "failed"} \cap Follows(x) # {} => x = "connecting"
<1>1. /\ x = "new" => Follows(x) = {"connecting"}
      /\ x = "open" => Follows(x) = {"closing", "closed"}
      /\ x = "failed" => Follows(x) = {"closing", "closed"}
      /\ x = "closing" => Follows(x) = {"closed"}
      /\ x = "closed" => Follows(x) = {"closing"}
      /\ x = "connecting" => Follows(x) = {"open", "failed", "closing", "closed"}
  BY DEF Follows
<1> QED
  BY <1>1 DEF Phases

(* One login at a time.                                                    *)
LEMMA LoginStep == StreamInv /\ LoginInv /\ [Next]_vars => LoginInv'
<1> SUFFICES ASSUME StreamInv, LoginInv, [Next]_vars PROVE LoginInv'
  OBVIOUS
<1>1. phase \in [Conns -> Phases] /\ fails \in [Conns -> 0 .. 1]
  BY DEF StreamInv
<1> DEFINE Still == UNCHANGED <<asks, retries, phase, fails>>
<1>2. ASSUME Still PROVE LoginInv'
  BY <1>2 DEF LoginInv, Holding
<1>3. ASSUME \/ FindHistory \/ LoadSaleHistory \/ NewSaleButton
             \/ \E s \in Sales : NewSaleMade(s) \/ NewSaleSubmit(s) \/ NewSaleFails(s) \/ Pay(s)
             \/ \E r \in renders : ShowDetail(r) \/ ShowPanel(r)
             \/ \E d \in DOMAIN divs : Click(d) \/ Animate(d)
             \/ UNCHANGED vars
      PROVE  Still
  BY <1>3 DEF FindHistory, LoadSaleHistory, NewSaleButton, NewSaleMade, NewSaleSubmit, Pay,
     NewSaleFails, ShowDetail, ShowPanel, Click, Animate, vars, pvars, svars, login
<1>4. ASSUME NEW c \in Conns,
             \/ \E m \in Messages : Notify(c, m)
             \/ \E q \in Orders(Unseen(c)) : OnConfirm(c, q)
      PROVE  Still
  BY <1>4 DEF Notify, OnConfirm, Put, HandOver, login
<1>5. ASSUME NEW c \in Conns, Credentials(c) PROVE LoginInv'
  <2>1. /\ asks = 1 /\ retries = 0 /\ Holding = {}
        /\ phase[c] = "new" /\ fails[c] = 0 /\ fails' = [fails EXCEPT ![c] = @ + 0]
        /\ asks' = 0 /\ retries' = 0 /\ phase' = [phase EXCEPT ![c] = "connecting"]
    BY <1>5 DEF Credentials, Change, LoginInv
  <2>2. \A d \in Conns : fails'[d] = fails[d]
    BY <1>1, <2>1 DEF LoginInv
  <2>3. Holding' \subseteq {c}
    BY <2>1, <2>2 DEF Holding
  <2> QED
    BY <2>1, <2>2, <2>3 DEF LoginInv, Phases
<1>6. ASSUME NoCredentials \/ Retry PROVE LoginInv'
  <2>1. phase' = phase /\ fails' = fails /\ Holding' = Holding
    BY <1>6 DEF NoCredentials, Retry, svars, Holding
  <2> QED
    BY <1>6, <2>1 DEF NoCredentials, Retry, LoginInv
<1>7. ASSUME NEW c \in Conns, NEW p \in Phases, OnConnect(c, p, 0) PROVE LoginInv'
  <2>1. /\ phase[c] # "new" /\ p \in Follows(phase[c]) /\ p # "connecting"
        /\ phase' = [phase EXCEPT ![c] = p] /\ fails' = [fails EXCEPT ![c] = @ + 0]
        /\ asks' = asks /\ retries' = retries + 0
    BY <1>7 DEF OnConnect, Change
  <2>2. \A d \in Conns : fails'[d] = fails[d] /\ (d # c => phase'[d] = phase[d])
    BY <1>1, <2>1
  <2>3. /\ p # "new" /\ phase[c] \in Phases
        /\ p \in {"open", "failed"} => phase[c] = "connecting"
    BY <1>1, <2>1, PhaseOrder
  <2>4. phase'[c] = p /\ retries' = retries
    BY <1>1, <2>1, <2>3 DEF LoginInv
  <2>5. Holding' = Holding
    BY <2>1, <2>2, <2>3, <2>4 DEF Holding
  <2> QED
    BY <2>1, <2>2, <2>3, <2>4, <2>5 DEF LoginInv
<1>8. ASSUME NEW c \in Conns, NEW p \in Phases, OnConnect(c, p, 1) PROVE LoginInv'
  <2>1. /\ phase[c] # "new" /\ p \in {"closing", "closed"} /\ fails[c] = 0
        /\ phase' = [phase EXCEPT ![c] = p] /\ fails' = [fails EXCEPT ![c] = @ + 1]
        /\ asks' = asks /\ retries' = retries + 1
    BY <1>8 DEF OnConnect, Change
  <2>2. Holding = {c} /\ asks = 0 /\ retries = 0
    BY <2>1 DEF LoginInv, Holding
  <2>3. phase'[c] = p /\ fails'[c] = 1
    BY <1>1, <2>1
  <2>4. \A d \in Conns \ {c} : phase'[d] = phase[d] /\ fails'[d] = fails[d]
    BY <1>1, <2>1
  <2>5. Holding' = {}
    BY <2>2, <2>3, <2>4 DEF Holding
  <2> QED
    BY <2>1, <2>2, <2>3, <2>4, <2>5 DEF LoginInv
<1> QED
  BY <1>2, <1>3, <1>4, <1>5, <1>6, <1>7, <1>8 DEF Next, Answers, Confirmed

-----------------------------------------------------------------------------
(* The animations of a panel.                                              *)

(* An answer hands over a finite number of confirmations.                  *)
LEMMA AnswerIsFinite ==
    ASSUME StreamInv, NEW c \in Conns, NEW q \in Orders(Unseen(c))
    PROVE  IsFiniteSet(DOMAIN q)
<1>1. IsFiniteSet(Unseen(c))
  BY FS_Subset DEF StreamInv, Unseen
<1>2. Len(q) \in Nat /\ DOMAIN q = 1 .. Len(q)
  BY <1>1, OrdersAreNew, LenProperties
<1>3. IsFiniteSet(1 .. Len(q))
  BY <1>2, FS_Interval
<1> QED
  BY <1>2, <1>3

(* A confirmation queues turns with all panels of its sale.                *)
LEMMA TurnsQueued ==
    ASSUME QueueInv, NEW q, IsFiniteSet(DOMAIN q), divs' = UpdateTxStatus(divs, q),
           NEW d \in DOMAIN divs
    PROVE  LET old == divs[d].queue
               n == Times(q, d[1])
           IN  /\ n \in Nat /\ Len(old) \in Nat /\ d \in DivsOf(d[1])
               /\ divs'[d] = [green |-> divs[d].green, shown |-> divs[d].shown,
                              queue |-> divs'[d].queue]
               /\ divs'[d].queue \in Seq(Animation) /\ Len(divs'[d].queue) = Len(old) + n
               /\ \A i \in 1 .. Len(old) + n :
                     divs'[d].queue[i] = IF i <= Len(old) THEN old[i] ELSE Turn(DivsOf(d[1]))
<1> DEFINE old == divs[d].queue
           n == Times(q, d[1])
           new == Turns(DivsOf(d[1]), n)
<1>1. n \in Nat
  <2>1. {k \in DOMAIN q : SaleOf(q[k]) = d[1]} \subseteq DOMAIN q
    OBVIOUS
  <2> QED
    BY <2>1, FS_Subset, FS_CardinalityType DEF Times
<1>2. Turn(DivsOf(d[1])) \in Animation /\ d \in DivsOf(d[1])
  BY DEF Animation, DivsOf, PanelsOf
<1>3. new \in Seq(Animation) /\ Len(new) = n /\ \A i \in 1 .. n : new[i] = Turn(DivsOf(d[1]))
  BY <1>1, <1>2 DEF Turns
<1>4. old \in Seq(Animation) /\ Len(old) \in Nat
      /\ divs[d] \in [green : BOOLEAN, shown : BOOLEAN, queue : Seq(Animation)]
  BY LenProperties DEF QueueInv
<1>5. divs'[d] = [divs[d] EXCEPT !.queue = old \o new]
  BY DEF UpdateTxStatus, DivsOf
<1>6. /\ divs'[d].queue = old \o new
      /\ divs'[d] = [green |-> divs[d].green, shown |-> divs[d].shown, queue |-> divs'[d].queue]
  BY <1>4, <1>5
<1> HIDE DEF old, new, n
<1>7. /\ old \o new \in Seq(Animation) /\ Len(old \o new) = Len(old) + n
      /\ \A i \in 1 .. Len(old) + n :
            (old \o new)[i] = IF i <= Len(old) THEN old[i] ELSE new[i - Len(old)]
  BY <1>1, <1>3, <1>4, ConcatProperties
<1>8. \A i \in 1 .. Len(old) + n : ~(i <= Len(old)) => i - Len(old) \in 1 .. n
  BY <1>1, <1>4
<1>9. \A i \in 1 .. Len(old) + n :
         (old \o new)[i] = IF i <= Len(old) THEN old[i] ELSE Turn(DivsOf(d[1]))
  BY <1>3, <1>7, <1>8
<1> QED
  BY <1>1, <1>2, <1>4, <1>6, <1>7, <1>9 DEF old, n

(* An animation that ends leaves its queue; the end of a turn queues one   *)
(* that toggles back for every panel of the turn.                          *)
Rest(d, e) == IF e = d THEN Tail(divs[e].queue) ELSE divs[e].queue
Turning(d, e) == LET a == Head(divs[d].queue) IN a.kind = "turn" /\ e \in a.els

LEMMA AnimationEnds ==
    ASSUME QueueInv, NEW d \in DOMAIN divs, Animate(d), NEW e \in DOMAIN divs
    PROVE  /\ DOMAIN divs' = DOMAIN divs
           /\ divs'[e] = [green |-> divs'[e].green, shown |-> divs'[e].shown,
                          queue |-> divs'[e].queue]
           /\ divs'[e].green \in BOOLEAN /\ divs'[e].shown \in BOOLEAN
           /\ divs'[e].green <=> divs[e].green \/ Turning(d, e)
           /\ divs'[e].shown <=> (divs[e].shown <=> e # d)
           /\ Turning(d, e) => divs'[e].queue = Append(Rest(d, e), Back)
           /\ ~Turning(d, e) => divs'[e].queue = Rest(d, e)
<1>1. PICK a, toggled :
         /\ a = Head(divs[d].queue)
         /\ toggled = [divs EXCEPT ![d].shown = ~@, ![d].queue = Tail(@)]
         /\ divs' = IF a.kind = "turn" THEN Turned(toggled, a) ELSE toggled
  BY DEF Animate
<1>2. PICK r : r = divs[e] /\ r \in [green : BOOLEAN, shown : BOOLEAN, queue : Seq(Animation)]
  BY DEF QueueInv
<1>3. DOMAIN toggled = DOMAIN divs
  BY <1>1
<1>4. PICK on, rest : /\ on \in BOOLEAN /\ rest = Rest(d, e)
                      /\ on = (IF e = d THEN ~r.shown ELSE r.shown)
  BY <1>2
<1>5. PICK t, g : /\ t = toggled[e] /\ g = r.green
                  /\ t = [green |-> g, shown |-> on, queue |-> rest]
  BY <1>1, <1>2, <1>4 DEF Rest
<1>6. Turning(d, e) <=> a.kind = "turn" /\ e \in a.els
  BY <1>1 DEF Turning
<1>7. DOMAIN divs' = DOMAIN divs
  BY <1>1, <1>3 DEF Turned
<1>8. on <=> (divs[e].shown <=> e # d)
  BY <1>2, <1>4
<1>9. CASE Turning(d, e)
  <2> PICK x : x = divs'[e]
    OBVIOUS
  <2>1. x = [t EXCEPT !.green = TRUE, !.queue = Append(@, Back)]
    BY <1>1, <1>3, <1>5, <1>6, <1>9 DEF Turned
  <2>2. t = [green |-> g, shown |-> on, queue |-> rest]
    BY <1>5
  <2>3. x = [green |-> TRUE, shown |-> on, queue |-> Append(rest, Back)]
    BY <2>1, <2>2
  <2>4. /\ divs'[e].green = TRUE /\ divs'[e].shown = on
        /\ divs'[e].queue = Append(rest, Back)
        /\ divs'[e] = [green |-> divs'[e].green, shown |-> divs'[e].shown,
                       queue |-> divs'[e].queue]
    BY <2>3
  <2>5. divs'[e].shown <=> (divs[e].shown <=> e # d)
    BY <1>8, <2>4
  <2> QED
    BY <1>4, <1>7, <1>9, <2>4, <2>5, Zenon
<1>10. CASE ~Turning(d, e)
  <2>1. divs'[e] = [green |-> r.green, shown |-> on, queue |-> rest]
    BY <1>1, <1>3, <1>5, <1>6, <1>10 DEF Turned
  <2> QED
    BY <1>2, <1>4, <1>7, <1>8, <1>10, <2>1
<1> QED
  BY <1>9, <1>10

(* What waits in a queue after an animation has ended.                     *)
LEMMA RestElements ==
    ASSUME QueueInv, NEW d \in DOMAIN divs, Animate(d), NEW e \in DOMAIN divs
    PROVE  /\ divs[d].queue # <<>> /\ Len(divs[e].queue) \in Nat
           /\ Rest(d, e) \in Seq(Animation)
           /\ Len(Rest(d, e)) = IF e = d THEN Len(divs[e].queue) - 1 ELSE Len(divs[e].queue)
           /\ \A i \in 1 .. Len(Rest(d, e)) :
                 /\ (IF e = d THEN i + 1 ELSE i) \in 1 .. Len(divs[e].queue)
                 /\ Rest(d, e)[i] = divs[e].queue[IF e = d THEN i + 1 ELSE i]
           /\ divs'[e].queue \in Seq(Animation)
           /\ Turning(d, e) =>
                /\ Len(divs'[e].queue) = Len(Rest(d, e)) + 1
                /\ divs'[e].queue[Len(Rest(d, e)) + 1] = Back
                /\ \A i \in 1 .. Len(Rest(d, e)) : divs'[e].queue[i] = Rest(d, e)[i]
           /\ ~Turning(d, e) => divs'[e].queue = Rest(d, e)
<1>1. divs[d].queue # <<>> /\ divs[e].queue \in Seq(Animation) /\ Back \in Animation
  BY DEF Animate, QueueInv, Animation
<1>2. /\ Rest(d, e) \in Seq(Animation) /\ Len(divs[e].queue) \in Nat
      /\ Len(Rest(d, e)) = IF e = d THEN Len(divs[e].queue) - 1 ELSE Len(divs[e].queue)
      /\ \A i \in 1 .. Len(Rest(d, e)) :
            Rest(d, e)[i] = divs[e].queue[IF e = d THEN i + 1 ELSE i]
  <2>1. Len(divs[e].queue) \in Nat
    BY <1>1, LenProperties
  <2>2. CASE e = d
    <3>1. /\ Tail(divs[e].queue) \in Seq(Animation)
          /\ Len(Tail(divs[e].queue)) = Len(divs[e].queue) - 1
          /\ \A i \in 1 .. Len(Tail(divs[e].queue)) :
                Tail(divs[e].queue)[i] = divs[e].queue[i + 1]
      BY <1>1, <2>2, HeadTailProperties
    <3> QED
      BY <2>1, <2>2, <3>1 DEF Rest
  <2>3. CASE e # d
    BY <1>1, <2>1, <2>3 DEF Rest
  <2> QED
    BY <2>2, <2>3
<1>3. divs'[e].queue = IF Turning(d, e) THEN Append(Rest(d, e), Back) ELSE Rest(d, e)
  BY AnimationEnds
<1>4. /\ Append(Rest(d, e), Back) \in Seq(Animation)
      /\ Len(Append(Rest(d, e), Back)) = Len(Rest(d, e)) + 1
      /\ Append(Rest(d, e), Back)[Len(Rest(d, e)) + 1] = Back
      /\ \A i \in 1 .. Len(Rest(d, e)) : Append(Rest(d, e), Back)[i] = Rest(d, e)[i]
  BY <1>1, <1>2, AppendProperties
<1>5. \A i \in 1 .. Len(Rest(d, e)) : (IF e = d THEN i + 1 ELSE i) \in 1 .. Len(divs[e].queue)
  BY <1>2
<1> QED
  BY <1>1, <1>2, <1>3, <1>4, <1>5

(* Nothing new but a toggle back is found in a queue then.                 *)
LEMMA AnimationElement ==
    ASSUME QueueInv, NEW d \in DOMAIN divs, Animate(d), NEW e \in DOMAIN divs,
           NEW i \in DOMAIN divs'[e].queue
    PROVE  \/ divs'[e].queue[i] = Back
           \/ \E k \in DOMAIN divs[e].queue : divs'[e].queue[i] = divs[e].queue[k]
<1>1. /\ divs[e].queue \in Seq(Animation) /\ divs'[e].queue \in Seq(Animation)
      /\ Len(Rest(d, e)) \in Nat
  BY RestElements, LenProperties DEF QueueInv
<1>2. i \in 1 .. Len(divs'[e].queue) /\ DOMAIN divs[e].queue = 1 .. Len(divs[e].queue)
  BY <1>1, LenProperties
<1>3. ASSUME i \in 1 .. Len(Rest(d, e)), divs'[e].queue[i] = Rest(d, e)[i]
      PROVE  \E k \in DOMAIN divs[e].queue : divs'[e].queue[i] = divs[e].queue[k]
  <2>1. (IF e = d THEN i + 1 ELSE i) \in 1 .. Len(divs[e].queue)
        /\ Rest(d, e)[i] = divs[e].queue[IF e = d THEN i + 1 ELSE i]
    BY <1>3, RestElements
  <2> QED
    BY <1>2, <1>3, <2>1
<1>4. CASE Turning(d, e)
  <2>1. i \in 1 .. Len(Rest(d, e)) \/ i = Len(Rest(d, e)) + 1
    BY <1>1, <1>2, <1>4, RestElements
  <2> QED
    BY <1>3, <1>4, <2>1, RestElements
<1>5. CASE ~Turning(d, e)
  BY <1>2, <1>3, <1>5, RestElements
<1> QED
  BY <1>4, <1>5

-----------------------------------------------------------------------------
(* Only confirmed sales are turned green.                                  *)

(* The confirmations an answer hands over are of confirmed sales.          *)
LEMMA AnswerIsPaid ==
    ASSUME StreamInv, PaidInv, NEW c \in Conns, NEW q \in Orders(Unseen(c))
    PROVE  \A k \in DOMAIN q : Paid(SaleOf(q[k]))
<1>1. IsFiniteSet(Unseen(c)) /\ Unseen(c) \subseteq sent[c]
  BY FS_Subset DEF StreamInv, Unseen
<1>2. q \in Seq(Unseen(c)) /\ DOMAIN q = 1 .. Len(q)
  BY <1>1, OrdersAreNew, LenProperties
<1> QED
  BY <1>1, <1>2, ElementOfSeq DEF PaidInv

(* Only Notify puts a confirmation on a connection.                        *)
LEMMA SentFrame ==
    ASSUME [Next]_vars
    PROVE  sent' = sent \/ \E c \in Conns, m \in Messages : Notify(c, m)
<1>1. ASSUME \/ FindHistory \/ LoadSaleHistory \/ Retry \/ NoCredentials \/ NewSaleButton
             \/ \E s \in Sales : NewSaleMade(s) \/ NewSaleSubmit(s) \/ NewSaleFails(s) \/ Pay(s)
             \/ \E r \in renders : ShowDetail(r) \/ ShowPanel(r)
             \/ \E d \in DOMAIN divs : Click(d) \/ Animate(d)
             \/ UNCHANGED vars
      PROVE  sent' = sent
  BY <1>1 DEF FindHistory, LoadSaleHistory, Retry, NoCredentials, NewSaleButton, NewSaleMade,
     NewSaleSubmit, NewSaleFails, Pay, ShowDetail, ShowPanel, Click, Animate, vars, svars
<1>2. ASSUME NEW c \in Conns,
             \/ Credentials(c)
             \/ \E p \in Phases, n \in 0 .. 1 : OnConnect(c, p, n)
             \/ \E q \in Orders(Unseen(c)) : OnConfirm(c, q)
      PROVE  sent' = sent
  BY <1>2 DEF Credentials, OnConnect, OnConfirm, Change, HandOver
<1> QED
  BY <1>1, <1>2 DEF Next, Answers, Confirmed

LEMMA PaidStep == StreamInv /\ ShapeInv /\ QueueInv /\ PaidInv /\ [Next]_vars => PaidInv'
<1> SUFFICES ASSUME StreamInv, ShapeInv, QueueInv, PaidInv, [Next]_vars PROVE PaidInv'
  OBVIOUS
<1>1. \A s : Paid(s) => Paid(s)'
  BY PaidForGood
<1>2. \A c \in Conns : \A m \in sent'[c] : Paid(SaleOf(m))'
  <2>1. CASE sent' = sent
    BY <1>1, <2>1 DEF PaidInv
  <2>2. ASSUME NEW c \in Conns, NEW m \in Messages, Notify(c, m)
        PROVE  \A b \in Conns : \A k \in sent'[b] : Paid(SaleOf(k))'
    <3>1. Paid(SaleOf(m))
      BY <2>2 DEF Notify, Paid, SaleOf
    <3>2. ASSUME NEW b \in Conns, NEW k \in sent'[b] PROVE k \in sent[b] \/ k = m
      BY <2>2, <3>2 DEF Notify, Put, StreamInv
    <3> QED
      BY <1>1, <3>1, <3>2 DEF PaidInv
  <2> QED
    BY <2>1, <2>2, SentFrame
<1> DEFINE Fine(e) == /\ \A i \in DOMAIN divs'[e].queue :
                             divs'[e].queue[i].kind = "turn" => Paid(e[1])
                      /\ divs'[e].green => Paid(e[1])
<1>3. \A e \in DOMAIN divs :
         /\ Known(e)
         /\ \A i \in DOMAIN divs[e].queue : divs[e].queue[i].kind = "turn" => Paid(e[1])
         /\ divs[e].green => Paid(e[1])
  BY DEF ShapeInv, Known, PaidInv, GreenIsPaid, Paid
<1>4. ASSUME divs' = divs, NEW e \in DOMAIN divs' PROVE Fine(e)
  BY <1>3, <1>4
<1>5. ASSUME NEW r \in renders, ShowPanel(r), NEW e \in DOMAIN divs' PROVE Fine(e)
  <2>1. (e \in DOMAIN divs /\ divs'[e] = divs[e]) \/ divs'[e] = Panel
    BY <1>5 DEF ShowPanel
  <2> QED
    BY <1>3, <2>1 DEF Panel
<1>6. ASSUME NEW c \in Conns, NEW q \in Orders(Unseen(c)), OnConfirm(c, q),
             NEW e \in DOMAIN divs'
      PROVE  Fine(e)
  <2>1. IsFiniteSet(DOMAIN q) /\ \A k \in DOMAIN q : Paid(SaleOf(q[k]))
    BY AnswerIsPaid, AnswerIsFinite
  <2>2. divs' = UpdateTxStatus(divs, q) /\ e \in DOMAIN divs
    BY <1>6 DEF OnConfirm, UpdateTxStatus
  <2> DEFINE old == divs[e].queue
             n == Times(q, e[1])
  <2>3. /\ n \in Nat /\ Len(old) \in Nat /\ divs'[e].queue \in Seq(Animation)
        /\ Len(divs'[e].queue) = Len(old) + n
        /\ \A i \in 1 .. Len(old) + n : i <= Len(old) => divs'[e].queue[i] = old[i]
    BY <2>1, <2>2, TurnsQueued
  <2>4. n = 0 \/ Paid(e[1])
    <3>1. CASE \E k \in DOMAIN q : SaleOf(q[k]) = e[1]
      BY <2>1, <3>1
    <3>2. CASE {k \in DOMAIN q : SaleOf(q[k]) = e[1]} = {}
      BY <3>2, FS_EmptySet DEF Times
    <3> QED
      BY <3>1, <3>2
  <2>5. divs[e] \in [green : BOOLEAN, shown : BOOLEAN, queue : Seq(Animation)]
    BY <2>2 DEF QueueInv
  <2>6. divs'[e].green = divs[e].green
    <3>1. divs'[e] = [green |-> divs[e].green, shown |-> divs[e].shown, queue |-> divs'[e].queue]
      BY <2>1, <2>2, TurnsQueued
    <3> QED
      BY <3>1
  <2>7. DOMAIN divs'[e].queue = 1 .. Len(old) + n /\ DOMAIN old = 1 .. Len(old)
    BY <2>3, <2>5, LenProperties
  <2> HIDE DEF n
  <2>8. ASSUME NEW i \in 1 .. Len(old) + n, n = 0
        PROVE  i \in DOMAIN old /\ divs'[e].queue[i] = old[i]
    BY <2>3, <2>7, <2>8
  <2>9. CASE n = 0
    BY <1>3, <2>2, <2>6, <2>7, <2>8, <2>9
  <2> QED
    BY <2>4, <2>9
<1>7. ASSUME NEW d \in DOMAIN divs, Animate(d), NEW e \in DOMAIN divs' PROVE Fine(e)
  <2>1. /\ e \in DOMAIN divs /\ Len(divs[e].queue) \in Nat
        /\ divs[d].queue # <<>> /\ divs[d].queue \in Seq(Animation)
        /\ divs[e].queue \in Seq(Animation) /\ divs'[e].queue \in Seq(Animation)
    BY <1>7, AnimationEnds, RestElements DEF QueueInv
  <2>2. Turning(d, e) => Paid(e[1])
    <3>1. 1 \in DOMAIN divs[d].queue /\ Head(divs[d].queue) = divs[d].queue[1]
      BY <2>1, HeadTailProperties, LenProperties
    <3> QED
      BY <1>3, <3>1 DEF QueueInv, Turning, DivsOf, PanelsOf
  <2>3. divs'[e].green <=> divs[e].green \/ Turning(d, e)
    BY <1>7, <2>1, AnimationEnds
  <2>4. ASSUME NEW i \in DOMAIN divs'[e].queue, divs'[e].queue[i].kind = "turn"
        PROVE  Paid(e[1])
    <3>1. \E k \in DOMAIN divs[e].queue : divs'[e].queue[i] = divs[e].queue[k]
      BY <1>7, <2>1, <2>4, AnimationElement DEF Back
    <3> QED
      BY <1>3, <2>1, <2>4, <3>1
  <2> QED
    BY <1>3, <2>1, <2>2, <2>3, <2>4
<1>8. \A e \in DOMAIN divs' : Fine(e)
  BY <1>4, <1>5, <1>6, <1>7, DivsFrame
<1> QED
  BY <1>1, <1>2, <1>8 DEF PaidInv, GreenIsPaid, Paid

-----------------------------------------------------------------------------
(* A queued turn knows the panels of its sale, its own among them.         *)
LEMMA QueueStep == StreamInv /\ QueueInv /\ [Next]_vars => QueueInv'
<1> SUFFICES ASSUME StreamInv, QueueInv, [Next]_vars PROVE QueueInv'
  OBVIOUS
<1> DEFINE Good(e) == /\ divs'[e] \in [green : BOOLEAN, shown : BOOLEAN, queue : Seq(Animation)]
                      /\ \A i \in DOMAIN divs'[e].queue :
                            divs'[e].queue[i].kind = "turn" =>
                               /\ e \in divs'[e].queue[i].els
                               /\ divs'[e].queue[i].els \subseteq DivsOf(e[1])
<1>1. ASSUME divs' = divs, NEW e \in DOMAIN divs' PROVE e \in DOMAIN divs /\ Good(e)
  BY <1>1 DEF QueueInv
<1>2. ASSUME NEW r \in renders, ShowPanel(r)
      PROVE  DOMAIN divs \subseteq DOMAIN divs' /\ \A e \in DOMAIN divs' : Good(e)
  <2>1. ASSUME NEW e \in DOMAIN divs'
        PROVE  (e \in DOMAIN divs /\ divs'[e] = divs[e]) \/ divs'[e] = Panel
    BY <1>2 DEF ShowPanel
  <2>2. ASSUME NEW e \in DOMAIN divs', divs'[e] = Panel PROVE Good(e)
    BY <2>2, EmptySeq DEF Panel
  <2> QED
    BY <1>2, <2>1, <2>2 DEF QueueInv, ShowPanel
<1>3. ASSUME NEW c \in Conns, NEW q \in Orders(Unseen(c)), OnConfirm(c, q),
             NEW e \in DOMAIN divs'
      PROVE  e \in DOMAIN divs /\ Good(e)
  <2>1. divs' = UpdateTxStatus(divs, q) /\ e \in DOMAIN divs
    BY <1>3 DEF OnConfirm, UpdateTxStatus
  <2>2. e \in DivsOf(e[1]) /\ divs[e].queue \in Seq(Animation)
        /\ divs[e].green \in BOOLEAN /\ divs[e].shown \in BOOLEAN
    BY <2>1 DEF QueueInv, DivsOf, PanelsOf
  <2>3. divs'[e] = [green |-> divs[e].green, shown |-> divs[e].shown, queue |-> divs'[e].queue]
    BY <2>1, AnswerIsFinite, TurnsQueued
  <2>4. /\ divs'[e].queue \in Seq(Animation) /\ Len(divs[e].queue) \in Nat
        /\ Times(q, e[1]) \in Nat
        /\ Len(divs'[e].queue) = Len(divs[e].queue) + Times(q, e[1])
        /\ \A i \in 1 .. Len(divs[e].queue) + Times(q, e[1]) :
              divs'[e].queue[i] = IF i <= Len(divs[e].queue) THEN divs[e].queue[i]
                                  ELSE Turn(DivsOf(e[1]))
    BY <2>1, AnswerIsFinite, TurnsQueued
  <2>5. ASSUME NEW i \in DOMAIN divs'[e].queue
        PROVE  \/ i \in DOMAIN divs[e].queue /\ divs'[e].queue[i] = divs[e].queue[i]
               \/ divs'[e].queue[i] = Turn(DivsOf(e[1]))
    <3>1. i \in 1 .. Len(divs[e].queue) + Times(q, e[1]) /\ i \in Nat /\ i >= 1
      BY <2>4, LenProperties
    <3>2. i <= Len(divs[e].queue) => i \in DOMAIN divs[e].queue
      BY <2>2, <2>4, <3>1, LenProperties
    <3> QED
      BY <2>4, <3>1, <3>2
  <2>6. divs'[e] \in [green : BOOLEAN, shown : BOOLEAN, queue : Seq(Animation)]
    BY <2>2, <2>3, <2>4
  <2>7. Turn(DivsOf(e[1])).els = DivsOf(e[1])
    BY DEF Turn
  <2> QED
    BY <2>1, <2>2, <2>5, <2>6, <2>7 DEF QueueInv
<1>4. ASSUME NEW d \in DOMAIN divs, Animate(d), NEW e \in DOMAIN divs'
      PROVE  e \in DOMAIN divs /\ Good(e)
  <2>1. e \in DOMAIN divs
    BY <1>4, AnimationEnds
  <2>2. /\ divs'[e] = [green |-> divs'[e].green, shown |-> divs'[e].shown, queue |-> divs'[e].queue]
        /\ divs'[e].green \in BOOLEAN /\ divs'[e].shown \in BOOLEAN
    BY <1>4, <2>1, AnimationEnds
  <2>3. divs'[e].queue \in Seq(Animation) /\ divs[e].queue \in Seq(Animation)
    BY <1>4, <2>1, RestElements DEF QueueInv
  <2>4. ASSUME NEW i \in DOMAIN divs'[e].queue
        PROVE  divs'[e].queue[i] = Back
               \/ \E k \in DOMAIN divs[e].queue : divs'[e].queue[i] = divs[e].queue[k]
    BY <1>4, <2>1, <2>3, AnimationElement
  <2>5. Back.kind # "turn"
    BY DEF Back
  <2>6. divs'[e] \in [green : BOOLEAN, shown : BOOLEAN, queue : Seq(Animation)]
    BY <2>2, <2>3
  <2> QED
    BY <2>1, <2>4, <2>5, <2>6 DEF QueueInv
<1>5. ASSUME NEW d \in DOMAIN divs, \/ Animate(d)
                                   \/ \E c \in Conns : \E q \in Orders(Unseen(c)) : OnConfirm(c, q)
      PROVE  DOMAIN divs' = DOMAIN divs
  BY <1>5 DEF OnConfirm, UpdateTxStatus, Animate, Turned
<1>6. DOMAIN divs \subseteq DOMAIN divs' /\ \A e \in DOMAIN divs' : Good(e)
  BY <1>1, <1>2, <1>3, <1>4, <1>5, DivsFrame
<1>7. /\ Animation \subseteq Animation'
      /\ \A s : DivsOf(s) \subseteq DivsOf(s)'
  BY <1>6 DEF Animation, DivsOf, PanelsOf
<1>8. Seq(Animation) \subseteq Seq(Animation')
  BY <1>7, SeqMonotonic
<1> QED
  BY <1>6, <1>7, <1>8 DEF QueueInv

-----------------------------------------------------------------------------
(* A panel that is alone comes back.                                       *)

LEMMA RestoredPanel == Restored(TRUE, <<>>)
<1> DEFINE c == [i \in 0 .. 0 |-> TRUE]
<1>1. c \in [0 .. Len(<<>>) -> BOOLEAN] /\ c[0] /\ c[Len(<<>>)] /\ DOMAIN <<>> = {}
  OBVIOUS
<1> QED
  BY <1>1, Zenon DEF Restored

(* Turns that are queued do not matter until they have ended.              *)
LEMMA RestoredTurns ==
    ASSUME NEW on, NEW s, NEW t, NEW S, s \in Seq(S), t \in Seq(S), Restored(on, s),
           Len(s) <= Len(t), \A i \in 1 .. Len(s) : t[i] = s[i],
           \A i \in Len(s) + 1 .. Len(t) : t[i].kind # "back"
    PROVE  Restored(on, t)
<1>1. Len(s) \in Nat /\ Len(t) \in Nat /\ DOMAIN s = 1 .. Len(s) /\ DOMAIN t = 1 .. Len(t)
  BY LenProperties
<1>2. PICK c \in [0 .. Len(s) -> BOOLEAN] :
         /\ c[0] <=> on
         /\ \A i \in DOMAIN s : c[i] <=> (c[i - 1] <=> s[i].kind # "back")
         /\ c[Len(s)]
  BY DEF Restored
<1> DEFINE b == [i \in 0 .. Len(t) |-> IF i <= Len(s) THEN c[i] ELSE c[Len(s)]]
<1>3. b \in [0 .. Len(t) -> BOOLEAN] /\ (b[0] <=> on) /\ b[Len(t)]
  <2>1. ASSUME NEW m \in Nat, NEW n \in Nat, m <= n
        PROVE  0 \in 0 .. n /\ 0 <= m /\ n \in 0 .. n /\ m \in 0 .. m /\ (n <= m => n = m)
    BY <2>1
  <2>2. 0 \in 0 .. Len(t) /\ 0 <= Len(s) /\ Len(t) \in 0 .. Len(t) /\ Len(s) \in 0 .. Len(s)
        /\ (Len(t) <= Len(s) => Len(t) = Len(s))
    BY <1>1, <2>1
  <2>3. \A i \in 0 .. Len(t) : i <= Len(s) => i \in 0 .. Len(s)
    BY <1>1
  <2>4. \A i \in 0 .. Len(t) : (IF i <= Len(s) THEN c[i] ELSE c[Len(s)]) \in BOOLEAN
    BY <1>2, <2>2, <2>3
  <2>5. b[0] = c[0] /\ b[Len(t)] = c[Len(s)]
    BY <2>2
  <2>6. b \in [0 .. Len(t) -> BOOLEAN]
    BY <2>4
  <2> QED
    BY <1>2, <2>5, <2>6
<1>4. ASSUME NEW i \in DOMAIN t
      PROVE  b[i] <=> (b[i - 1] <=> t[i].kind # "back")
  <2>1. CASE i <= Len(s)
    <3>1. i \in DOMAIN s /\ t[i] = s[i] /\ b[i] = c[i] /\ b[i - 1] = c[i - 1]
      BY <1>1, <2>1
    <3> QED
      BY <1>2, <3>1
  <2>2. CASE ~(i <= Len(s))
    <3>1. i \in Len(s) + 1 .. Len(t) /\ i - 1 \in 0 .. Len(t) /\ (i - 1 <= Len(s) => i - 1 = Len(s))
      BY <1>1, <2>2
    <3>2. b[i] = c[Len(s)] /\ b[i - 1] = c[Len(s)]
      BY <1>1, <2>2, <3>1
    <3> QED
      BY <3>1, <3>2
  <2> QED
    BY <2>1, <2>2
<1> HIDE DEF b
<1> QED
  BY <1>3, <1>4 DEF Restored

(* The end of the first turn toggles the panel, and one more is queued.    *)
LEMMA RestoredTurnEnds ==
    ASSUME NEW on \in BOOLEAN, NEW s, NEW t, NEW S, s \in Seq(S), t \in Seq(S), Restored(on, s),
           s # <<>>, s[1].kind # "back", Len(t) = Len(s), t[Len(s)].kind = "back",
           \A i \in 1 .. Len(s) - 1 : t[i] = s[i + 1]
    PROVE  Restored(~on, t)
<1>1. Len(s) \in Nat \ {0} /\ DOMAIN s = 1 .. Len(s) /\ DOMAIN t = 1 .. Len(s)
  BY LenProperties, EmptySeq
<1>2. PICK c \in [0 .. Len(s) -> BOOLEAN] :
         /\ c[0] <=> on
         /\ \A i \in DOMAIN s : c[i] <=> (c[i - 1] <=> s[i].kind # "back")
         /\ c[Len(s)]
  BY DEF Restored
<1> DEFINE b == [i \in 0 .. Len(t) |-> IF i < Len(s) THEN ~c[i + 1] ELSE TRUE]
<1>3. c[1] <=> on
  <2>1. 1 \in DOMAIN s /\ 1 - 1 = 0
    BY <1>1
  <2> QED
    BY <1>2, <2>1
<1>4. b \in [0 .. Len(t) -> BOOLEAN] /\ (b[0] <=> ~on) /\ b[Len(t)]
  <2>1. 0 \in 0 .. Len(t) /\ 0 < Len(s) /\ Len(t) \in 0 .. Len(t) /\ ~(Len(t) < Len(s)) /\ 0 + 1 = 1
    BY <1>1
  <2>2. (b[0] <=> ~c[1]) /\ b[Len(t)]
    BY <2>1
  <2>3. \A i \in 0 .. Len(t) : (IF i < Len(s) THEN ~c[i + 1] ELSE TRUE) \in BOOLEAN
    OBVIOUS
  <2> QED
    BY <1>3, <2>2, <2>3
<1>5. ASSUME NEW i \in DOMAIN t
      PROVE  b[i] <=> (b[i - 1] <=> t[i].kind # "back")
  <2>1. i \in 1 .. Len(s) /\ i \in 0 .. Len(t) /\ i - 1 \in 0 .. Len(t) /\ i - 1 < Len(s)
        /\ (i - 1) + 1 = i
    BY <1>1
  <2>2. b[i - 1] <=> ~c[i]
    BY <2>1
  <2>3. CASE i = Len(s)
    <3>1. b[i]
      BY <1>1, <2>1, <2>3
    <3>2. c[i]
      BY <1>1, <1>2, <2>3
    <3> QED
      BY <2>2, <2>3, <3>1, <3>2
  <2>4. CASE i # Len(s)
    <3>1. i \in 1 .. Len(s) - 1 /\ i < Len(s) /\ i + 1 \in DOMAIN s /\ (i + 1) - 1 = i
      BY <1>1, <2>1, <2>4
    <3>2. (b[i] <=> ~c[i + 1]) /\ t[i] = s[i + 1]
      BY <2>1, <3>1
    <3>3. c[i + 1] <=> (c[i] <=> s[i + 1].kind # "back")
      BY <1>2, <3>1
    <3> QED
      BY <2>2, <3>2, <3>3
  <2> QED
    BY <2>3, <2>4
<1> HIDE DEF b
<1> QED
  BY <1>4, <1>5, Zenon DEF Restored

(* So does the end of a toggle back.                                       *)
LEMMA RestoredBackEnds ==
    ASSUME NEW on \in BOOLEAN, NEW s, NEW t, NEW S, s \in Seq(S), t \in Seq(S), Restored(on, s),
           s # <<>>, s[1].kind = "back", Len(t) = Len(s) - 1,
           \A i \in 1 .. Len(s) - 1 : t[i] = s[i + 1]
    PROVE  Restored(~on, t)
<1>1. Len(s) \in Nat \ {0} /\ DOMAIN s = 1 .. Len(s) /\ DOMAIN t = 1 .. Len(s) - 1
      /\ Len(s) - 1 \in Nat
  BY LenProperties, EmptySeq
<1>2. PICK c \in [0 .. Len(s) -> BOOLEAN] :
         /\ c[0] <=> on
         /\ \A i \in DOMAIN s : c[i] <=> (c[i - 1] <=> s[i].kind # "back")
         /\ c[Len(s)]
  BY DEF Restored
<1> DEFINE b == [i \in 0 .. Len(t) |-> c[i + 1]]
<1>3. c[1] <=> ~on
  <2>1. 1 \in DOMAIN s /\ 1 - 1 = 0
    BY <1>1
  <2> QED
    BY <1>2, <2>1
<1>4. b \in [0 .. Len(t) -> BOOLEAN] /\ (b[0] <=> ~on) /\ b[Len(t)]
  BY <1>1, <1>2, <1>3
<1>5. ASSUME NEW i \in DOMAIN t
      PROVE  b[i] <=> (b[i - 1] <=> t[i].kind # "back")
  <2>1. /\ i \in 1 .. Len(s) - 1 /\ i + 1 \in DOMAIN s /\ (i + 1) - 1 = i /\ (i - 1) + 1 = i
        /\ i \in 0 .. Len(t) /\ i - 1 \in 0 .. Len(t)
    BY <1>1
  <2>2. b[i] = c[i + 1] /\ b[i - 1] = c[i] /\ t[i] = s[i + 1]
    BY <2>1
  <2> QED
    BY <1>2, <2>1, <2>2
<1> HIDE DEF b
<1> QED
  BY <1>4, <1>5, Zenon DEF Restored

LEMMA BackStep == StreamInv /\ QueueInv /\ BackInv /\ [Next]_vars => BackInv'
<1> SUFFICES ASSUME StreamInv, QueueInv, BackInv, [Next]_vars,
                    NEW e \in DOMAIN divs', PanelsOf(divs', e[1]) = {e}
             PROVE  Restored(divs'[e].shown, divs'[e].queue)
  BY DEF BackInv, DivsOf
<1>1. ASSUME e \in DOMAIN divs, DOMAIN divs \subseteq DOMAIN divs'
      PROVE  /\ DivsOf(e[1]) = {e} /\ Restored(divs[e].shown, divs[e].queue)
             /\ divs[e].shown \in BOOLEAN /\ divs[e].queue \in Seq(Animation)
  <2>1. DivsOf(e[1]) = {e}
    BY <1>1 DEF DivsOf, PanelsOf
  <2> QED
    BY <1>1, <2>1 DEF BackInv, QueueInv
<1>2. CASE divs' = divs
  BY <1>1, <1>2
<1>3. ASSUME NEW r \in renders, ShowPanel(r) PROVE Restored(divs'[e].shown, divs'[e].queue)
  <2>1. DOMAIN divs \subseteq DOMAIN divs'
        /\ \/ e \in DOMAIN divs /\ divs'[e] = divs[e]
           \/ divs'[e] = Panel
    BY <1>3 DEF ShowPanel
  <2>2. CASE divs'[e] = Panel
    <3>1. divs'[e].shown = TRUE /\ divs'[e].queue = <<>>
      BY <2>2 DEF Panel
    <3> QED
      BY <3>1, RestoredPanel
  <2> QED
    BY <1>1, <2>1, <2>2
<1>4. ASSUME NEW c \in Conns, NEW q \in Orders(Unseen(c)), OnConfirm(c, q)
      PROVE  Restored(divs'[e].shown, divs'[e].queue)
  <2>1. divs' = UpdateTxStatus(divs, q) /\ e \in DOMAIN divs /\ DOMAIN divs' = DOMAIN divs
    BY <1>4 DEF OnConfirm, UpdateTxStatus
  <2>2. divs'[e] = [green |-> divs[e].green, shown |-> divs[e].shown, queue |-> divs'[e].queue]
    BY <2>1, AnswerIsFinite, TurnsQueued
  <2>3. /\ divs'[e].queue \in Seq(Animation) /\ Len(divs[e].queue) \in Nat
        /\ Times(q, e[1]) \in Nat
        /\ Len(divs'[e].queue) = Len(divs[e].queue) + Times(q, e[1])
        /\ \A i \in 1 .. Len(divs[e].queue) + Times(q, e[1]) :
              divs'[e].queue[i] = IF i <= Len(divs[e].queue) THEN divs[e].queue[i]
                                  ELSE Turn(DivsOf(e[1]))
    BY <2>1, AnswerIsFinite, TurnsQueued
  <2>4. /\ Len(divs[e].queue) <= Len(divs'[e].queue)
        /\ \A i \in 1 .. Len(divs[e].queue) : divs'[e].queue[i] = divs[e].queue[i]
        /\ \A i \in Len(divs[e].queue) + 1 .. Len(divs'[e].queue) :
              divs'[e].queue[i] = Turn(DivsOf(e[1]))
    BY <2>3
  <2>5. Turn(DivsOf(e[1])).kind # "back"
    BY DEF Turn
  <2>6. Restored(divs[e].shown, divs'[e].queue)
    BY <1>1, <2>1, <2>3, <2>4, <2>5, RestoredTurns
  <2> QED
    BY <2>2, <2>6
<1>5. ASSUME NEW d \in DOMAIN divs, Animate(d) PROVE Restored(divs'[e].shown, divs'[e].queue)
  <2>1. DOMAIN divs' = DOMAIN divs /\ e \in DOMAIN divs
    BY <1>5, AnimationEnds
  <2>2. /\ DivsOf(e[1]) = {e} /\ Restored(divs[e].shown, divs[e].queue)
        /\ divs[e].shown \in BOOLEAN /\ divs[e].queue \in Seq(Animation)
        /\ divs'[e].queue \in Seq(Animation) /\ Len(divs[e].queue) \in Nat
    BY <1>1, <1>5, <2>1, RestElements
  <2>3. divs'[e].shown \in BOOLEAN /\ (divs'[e].shown <=> (divs[e].shown <=> e # d))
    BY <1>5, <2>1, AnimationEnds
  <2>4. /\ divs[d].queue # <<>> /\ divs[d].queue \in Seq(Animation)
        /\ Head(divs[d].queue) = divs[d].queue[1] /\ 1 \in DOMAIN divs[d].queue
        /\ Head(divs[d].queue) \in Animation
    BY <1>5, RestElements, HeadTailProperties, LenProperties DEF QueueInv
  <2>5. CASE e = d
    <3>1. divs'[e].shown = ~divs[e].shown
      BY <2>2, <2>3, <2>5
    <3>2. /\ Len(Rest(d, e)) = Len(divs[e].queue) - 1
          /\ \A i \in 1 .. Len(Rest(d, e)) : Rest(d, e)[i] = divs[e].queue[i + 1]
      BY <1>5, <2>1, <2>5, RestElements
    <3>3. CASE divs[e].queue[1].kind = "turn"
      <4>1. Turning(d, e)
        BY <2>4, <2>5, <3>3 DEF QueueInv, Turning
      <4>2. /\ Len(divs'[e].queue) = Len(Rest(d, e)) + 1
            /\ divs'[e].queue[Len(Rest(d, e)) + 1] = Back
            /\ \A i \in 1 .. Len(Rest(d, e)) : divs'[e].queue[i] = Rest(d, e)[i]
        BY <1>5, <2>1, <4>1, RestElements
      <4>3. /\ Len(divs'[e].queue) = Len(divs[e].queue)
            /\ divs'[e].queue[Len(divs[e].queue)] = Back
            /\ \A i \in 1 .. Len(divs[e].queue) - 1 : divs'[e].queue[i] = divs[e].queue[i + 1]
        BY <2>2, <3>2, <4>2
      <4>4. divs'[e].queue[Len(divs[e].queue)].kind = "back"
        BY <4>3 DEF Back
      <4> QED
        BY <2>2, <2>4, <2>5, <3>1, <3>3, <4>3, <4>4, RestoredTurnEnds
    <3>4. CASE divs[e].queue[1].kind # "turn"
      <4>1. divs[e].queue[1].kind = "back"
        BY <2>4, <2>5, <3>4 DEF Animation, Turn, Back
      <4>2. divs'[e].queue = Rest(d, e)
        BY <1>5, <2>1, <2>4, <2>5, <3>4, RestElements DEF Turning
      <4> QED
        BY <2>2, <2>4, <2>5, <3>1, <3>2, <4>1, <4>2, RestoredBackEnds
    <3> QED
      BY <3>3, <3>4
  <2>6. CASE e # d
    <3>1. ~Turning(d, e)
      BY <2>2, <2>4, <2>6 DEF QueueInv, Turning, DivsOf, PanelsOf
    <3>2. divs'[e].queue = divs[e].queue
      BY <1>5, <2>1, <2>6, <3>1, AnimationEnds DEF Rest
    <3> QED
      BY <2>2, <2>3, <2>6, <3>2
  <2> QED
    BY <2>5, <2>6
<1> QED
  BY <1>2, <1>3, <1>4, <1>5, DivsFrame

-----------------------------------------------------------------------------
(* The theorems.                                                           *)

LEMMA ScreenInit == Init => StreamInv /\ ScreenInv
<1> SUFFICES ASSUME Init PROVE StreamInv /\ ScreenInv
  OBVIOUS
<1>1. StreamInv
  BY StreamInitInv DEF Init
<1>2. divs = <<>> /\ DOMAIN divs = {}
  BY DEF Init
<1>3. ShapeInv
  BY <1>2 DEF Init, ShapeInv
<1>4. Holding = {} /\ fails = [c \in Conns |-> 0] /\ asks = 1 /\ retries = 0
  BY DEF Init, StreamInit, Holding
<1>5. LoginInv
  BY <1>4 DEF LoginInv
<1>6. PaidInv /\ QueueInv /\ BackInv
  BY <1>2 DEF Init, StreamInit, PaidInv, GreenIsPaid, QueueInv, BackInv
<1> QED
  BY <1>1, <1>3, <1>5, <1>6 DEF ScreenInv

LEMMA ScreenStep == StreamInv /\ ScreenInv /\ [Next]_vars => StreamInv' /\ ScreenInv'
  BY StreamFrame, StreamStep, ShapeStep, LoginStep, PaidStep, QueueStep, BackStep DEF ScreenInv

(* pos.js: whatever the order of answers, templates, clicks, confirmations *)
(* and animations, the page and its queues keep the inductive invariant.   *)
THEOREM ScreenInvariant == Spec => [](StreamInv /\ ScreenInv)
  BY ScreenInit, ScreenStep, PTL DEF Spec

(* pos.js keeps its state's shape, and its connections, its requests for   *)
(* credentials and its timers are together at most one login.              *)
THEOREM OneLogin == Spec => []TypeOK
<1>1. StreamInv /\ ScreenInv => TypeOK
  <2> SUFFICES ASSUME ShapeInv, LoginInv PROVE TypeOK
    BY DEF ScreenInv
  <2> DEFINE live == {c \in Conns : phase[c] \in {"connecting", "open", "failed"}}
  <2>1. live \subseteq Holding
    BY DEF LoginInv, Holding
  <2>2. live = {} \/ \E c \in Holding : live = {c}
    BY <2>1 DEF LoginInv
  <2>3. \/ live = {} /\ Cardinality(live) = 0
        \/ Holding # {} /\ Cardinality(live) = 1
    <3>1. \A x : Cardinality({x}) = 1
      BY FS_Singleton
    <3> QED
      BY <2>2, <3>1, FS_EmptySet
  <2>4. asks + retries + Cardinality(live) =< 1
    BY <2>3 DEF LoginInv
  <2> QED
    BY <2>4 DEF TypeOK, ShapeInv, LoginInv, Known
<1> QED
  BY <1>1, ScreenInvariant, PTL

(* onConfirm, updateTxStatus: no panel is green before its sale is         *)
(* confirmed at the server.                                                *)
THEOREM GreenWhenPaid == Spec => []GreenIsPaid
<1>1. ScreenInv => GreenIsPaid
  BY DEF ScreenInv, PaidInv
<1> QED
  BY <1>1, ScreenInvariant, PTL

(* updateTxStatus: a panel that is the only one of its sale is visible     *)
(* whenever its animations have ended.                                     *)
THEOREM AlonePanelReturns == Spec => []PanelReturns
<1>1. ScreenInv => PanelReturns
  <2> SUFFICES ASSUME ShapeInv, BackInv, QueueInv, NEW d \in DOMAIN divs, divs[d].queue = <<>>,
                      Cardinality(DivsOf(d[1])) = 1
               PROVE  divs[d].shown
    BY DEF ScreenInv, PanelReturns
  <2>1. DivsOf(d[1]) \subseteq {<<d[1], "history">>, <<d[1], "new">>}
    BY DEF ShapeInv, Known, DivsOf, PanelsOf
  <2>2. IsFiniteSet(DivsOf(d[1]))
    <3>1. \A x, y : IsFiniteSet({x} \cup {y})
      BY FS_Singleton, FS_AddElement
    <3>2. PICK S : IsFiniteSet(S) /\ DivsOf(d[1]) \subseteq S
      <4>1. DivsOf(d[1]) \subseteq {<<d[1], "history">>} \cup {<<d[1], "new">>}
        BY <2>1
      <4> QED
        BY <3>1, <4>1
    <3> QED
      BY <3>2, FS_Subset
  <2>3. \E x : DivsOf(d[1]) = {x}
    BY <2>2, FS_Singleton
  <2>4. DivsOf(d[1]) = {d}
    BY <2>3 DEF DivsOf, PanelsOf
  <2>5. Restored(divs[d].shown, <<>>)
    BY <2>4 DEF BackInv
  <2>6. Len(<<>>) = 0
    OBVIOUS
  <2> QED
    BY <2>5, <2>6 DEF Restored
<1> QED
  BY <1>1, ScreenInvariant, PTL

(* pos.js: the screen uses its connections only as Stream allows, so what  *)
(* is proved of Stream holds on the screen: onConfirm sees a confirmation  *)
(* once at most.                                                           *)
THEOREM ScreenUsesStream == Spec => StreamSpec /\ []HandedOverOnce
<1>1. Init => StreamInit
  BY DEF Init
<1> QED
  BY <1>1, StreamFrame, HandedOver, PTL DEF Spec, StreamSpec

=============================================================================

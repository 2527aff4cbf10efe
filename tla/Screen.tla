------------------------------- MODULE Screen -------------------------------
(* The point of sale screen, pos.js, on top of the connections of Stream:  *)
(* it logs in to XMPP, loads the pending sales, makes new ones, puts each  *)
(* in a panel once its template has come, and turns the panel green when   *)
(* the sale's confirmation does.  Templates are fetched every time, and    *)
(* their answers come in any order.                                        *)
EXTENDS Stream

CONSTANTS
    Sales,      \* the sales of the merchant
    Old,        \* those made before the page was opened
    Texts,      \* the sets of sales whose payment text is too long for a QR code
    Budgets     \* how many clicks, repeated confirmations and reconnections

(* A confirmation names a sale; the payment worker may send it twice.      *)
ASSUME MessagesAssumption == Messages \subseteq Sales \X Nat
SaleOf(m) == m[1]

VARIABLES
    large,      \* the sales whose text is too long, chosen from Texts
    sale,       \* at the server: "none", "pending" or "confirmed"
    asks,       \* requests for XMPP credentials in flight
    retries,    \* timers of five seconds that ask again
    history,    \* the query for sales: "due", "found" or "shown", and its sales
    posts,      \* new sales made at the server, their answers in flight
    renders,    \* templates in flight
    divs,       \* the panels on the screen, by sale and origin
    qr,         \* the sale whose QR code the new sale dialog shows
    review,     \* the sale in the review dialog
    left        \* what is left of the budget chosen

login == <<asks, retries>>
orders == <<large, sale, history, posts>>
dialogs == <<qr, review>>
pvars == <<login, orders, renders, divs, dialogs, left>>
vars == <<svars, pvars>>

None == "none"

(* What a bounded step uses up.                                            *)
Spend(f) == left[f] > 0 /\ left' = [left EXCEPT ![f] = @ - 1]

(* A panel: its colour, whether its height is toggled off, and its queue   *)
(* of animations, each with the panels it was started for.                 *)
Panel == [green |-> FALSE, shown |-> TRUE, queue |-> <<>>]
PanelsOf(ds, s) == {d \in DOMAIN ds : d[1] = s}
DivsOf(s) == PanelsOf(divs, s)

------------------------------------------------------------------------------
(* xmpp_doConnect: the answer with the credentials makes a new connection; *)
(* without it nothing is tried again.                                      *)
Credentials(c) ==
    /\ asks > 0 /\ phase[c] = "new"
    /\ Change(c, "connecting", 0)
    /\ asks' = asks - 1
    /\ UNCHANGED <<orders, retries, renders, divs, dialogs, left>>

NoCredentials ==
    /\ asks > 0
    /\ asks' = asks - 1
    /\ UNCHANGED <<svars, orders, retries, renders, divs, dialogs, left>>

(* xmpp_onConnect: a failed connection is replaced, a disconnected one is  *)
(* only reported.                                                          *)
ReconnectAlways(c, p, n) ==
    /\ phase[c] # "new" /\ p # "connecting"
    /\ Change(c, p, n)
    /\ retries' = retries + (IF n = 1 \/ p = "closing" THEN 1 ELSE 0)
    /\ UNCHANGED <<orders, asks, renders, divs, dialogs, left>>

OnConnect(c, p, n) ==
    /\ phase[c] # "new" /\ p # "connecting"
    /\ Change(c, p, n)
    /\ retries' = retries + n
    /\ UNCHANGED <<orders, asks, renders, divs, dialogs, left>>

Retry ==
    /\ retries > 0 /\ Spend("retries")
    /\ retries' = retries - 1
    /\ asks' = asks + 1
    /\ UNCHANGED <<svars, orders, renders, divs, dialogs>>

------------------------------------------------------------------------------
(* load_sale_history: the server's answer lists every sale, and those that *)
(* were pending then get a panel.                                          *)
FindHistory ==
    /\ history.state = "due"
    /\ history' = [state |-> "found", sales |-> {s \in Sales : sale[s] = "pending"}]
    /\ UNCHANGED <<svars, large, sale, login, posts, renders, divs, dialogs, left>>

AddSaleDiv(s, from) == [kind |-> "panel", sale |-> s, from |-> from, n |-> 0]

LoadSaleHistory ==
    /\ history.state = "found"
    /\ renders' = renders \cup {AddSaleDiv(s, "history") : s \in history.sales}
    /\ history' = [state |-> "shown", sales |-> {}]
    /\ UNCHANGED <<svars, large, sale, login, posts, divs, dialogs, left>>

(* newSaleSubmit: the server makes the sale, or the request fails and an   *)
(* alert is shown.  An amount that is no number is not sent at all.        *)
NewSaleSubmit(s) ==
    /\ sale[s] = "none"
    /\ sale' = [sale EXCEPT ![s] = "pending"]
    /\ posts' = posts \cup {s}
    /\ UNCHANGED <<svars, large, login, history, renders, divs, dialogs, left>>

NewSaleFails(s) ==
    /\ s \in posts
    /\ posts' = posts \ {s}
    /\ UNCHANGED <<svars, large, sale, login, history, renders, divs, dialogs, left>>

(* The answer shows the QR code and then adds the panel: a text that does  *)
(* not fit the code throws in between.                                     *)
NewSaleMade(s) ==
    /\ s \in posts
    /\ posts' = posts \ {s}
    /\ IF s \in large THEN UNCHANGED <<renders, qr>>
       ELSE /\ qr' = s
            /\ renders' = renders \cup {AddSaleDiv(s, "new")}
    /\ UNCHANGED <<svars, large, sale, login, history, divs, review, left>>

(* newSaleButton: the dialog is opened again.                              *)
NewSaleButton ==
    /\ qr # None /\ Spend("clicks")
    /\ qr' = None
    /\ UNCHANGED <<svars, orders, login, renders, divs, review>>

------------------------------------------------------------------------------
(* The template of a panel has come: the panel is put on top, yellow.      *)
ShowPanel(r) ==
    /\ r \in renders /\ r.kind = "panel"
    /\ renders' = renders \ {r}
    /\ divs' = [d \in DOMAIN divs \cup {<<r.sale, r.from>>} |->
                  IF d = <<r.sale, r.from>> THEN Panel ELSE divs[d]]
    /\ UNCHANGED <<svars, orders, login, dialogs, left>>

(* A click on a panel fetches the detail template; its answer opens the    *)
(* review dialog with the sale's QR code, unless the text is too long.     *)
Click(d) ==
    /\ d \in DOMAIN divs /\ divs[d].shown
    /\ Spend("clicks")
    /\ renders' = renders \cup {[kind |-> "detail", sale |-> d[1], from |-> "click", n |-> left.clicks]}
    /\ UNCHANGED <<svars, orders, login, divs, qr, review>>

ShowDetail(r) ==
    /\ r \in renders /\ r.kind = "detail"
    /\ renders' = renders \ {r}
    /\ review' = IF r.sale \in large THEN review ELSE r.sale
    /\ UNCHANGED <<svars, orders, login, divs, qr, left>>

------------------------------------------------------------------------------
(* updateTxStatus queues, for every panel of the sale on the screen, a     *)
(* toggle of its height whose end turns them all green; once for each of   *)
(* the confirmations of an answer, which find the same panels.             *)
Turn(els) == [kind |-> "turn", els |-> els]
Back == [kind |-> "back", els |-> {}]

Times(q, s) == Cardinality({k \in DOMAIN q : SaleOf(q[k]) = s})
Turns(els, n) == [i \in 1 .. n |-> Turn(els)]

UpdateEvery(ds, q) ==
    [d \in DOMAIN ds |-> [ds[d] EXCEPT !.queue = @ \o Turns(DOMAIN ds, Len(q))]]

UpdateTxStatus(ds, q) ==
    [d \in DOMAIN ds |->
        [ds[d] EXCEPT !.queue = @ \o Turns(PanelsOf(ds, d[1]), Times(q, d[1]))]]

(* onConfirm stays a handler: it returns true.                             *)
OnConfirmOnce(c, q) ==
    /\ HandOver(c, q)
    /\ divs' = IF seen[c] = <<>> THEN UpdateTxStatus(divs, <<q[1]>>) ELSE divs
    /\ UNCHANGED <<orders, login, renders, dialogs, left>>

OnConfirm(c, q) ==
    /\ HandOver(c, q)
    /\ divs' = UpdateTxStatus(divs, q)
    /\ UNCHANGED <<orders, login, renders, dialogs, left>>

(* The first animation of a panel's queue ends: its height is toggled, and *)
(* its callback, which runs once for each panel it was started for, turns  *)
(* all of them green and toggles all of them back.                         *)
TurnedNoMore(ds, a) ==
    [e \in DOMAIN ds |-> IF e \in a.els THEN [ds[e] EXCEPT !.green = TRUE] ELSE ds[e]]

Turned(ds, a) ==
    [e \in DOMAIN ds |->
        IF e \in a.els THEN [ds[e] EXCEPT !.green = TRUE, !.queue = Append(@, Back)]
        ELSE ds[e]]

Animate(d) ==
    /\ d \in DOMAIN divs /\ divs[d].queue # <<>>
    /\ LET a == Head(divs[d].queue)
           toggled == [divs EXCEPT ![d].shown = ~@, ![d].queue = Tail(@)]
       IN divs' = IF a.kind = "turn" THEN Turned(toggled, a) ELSE toggled
    /\ UNCHANGED <<svars, orders, login, renders, dialogs, left>>

------------------------------------------------------------------------------
(* The sale is paid, and its confirmation sent once or twice; the XMPP     *)
(* server delivers it to an open connection, and drops it without one.     *)
Pay(s) ==
    /\ sale[s] = "pending"
    /\ sale' = [sale EXCEPT ![s] = "confirmed"]
    /\ UNCHANGED <<svars, large, login, history, posts, renders, divs, dialogs, left>>

Notify(c, m) ==
    /\ sale[SaleOf(m)] = "confirmed" /\ phase[c] = "open"
    /\ \A d \in Conns : m \notin sent[d]
    /\ Put(c, m)
    /\ IF m[2] = 1 THEN UNCHANGED left ELSE Spend("repeats")
    /\ UNCHANGED <<orders, login, renders, divs, dialogs>>

Init ==
    /\ StreamInit
    /\ large \in Texts
    /\ sale = [s \in Sales |-> IF s \in Old THEN "pending" ELSE "none"]
    /\ asks = 1 /\ retries = 0
    /\ history = [state |-> "due", sales |-> {}]
    /\ posts = {} /\ renders = {}
    /\ divs = <<>>
    /\ qr = None /\ review = None
    /\ left \in Budgets

Answers ==
    \/ FindHistory \/ LoadSaleHistory
    \/ \E s \in Sales : NewSaleMade(s)
    \/ \E r \in renders : ShowPanel(r) \/ ShowDetail(r)
    \/ \E d \in DOMAIN divs : Animate(d)

Confirmed == \E c \in Conns : \E q \in Orders(Unseen(c)) : OnConfirm(c, q)

Next ==
    \/ Answers \/ Confirmed \/ Retry \/ NoCredentials \/ NewSaleButton
    \/ \E c \in Conns : \/ Credentials(c)
                        \/ \E p \in Phases, n \in 0 .. 1 : OnConnect(c, p, n)
                        \/ \E m \in Messages : Notify(c, m)
    \/ \E s \in Sales : NewSaleSubmit(s) \/ NewSaleFails(s) \/ Pay(s)
    \/ \E d \in DOMAIN divs : Click(d)

Spec == Init /\ [][Next]_vars
FairSpec == Spec /\ WF_vars(Answers) /\ WF_vars(Confirmed)

------------------------------------------------------------------------------
(* The page's state keeps its shape, and the page never runs two logins at *)
(* a time: a connection that is not closing, a request for credentials and *)
(* a timer that will ask for them are together at most one, also when a    *)
(* closed connection fails late.                                           *)
TypeOK ==
    /\ asks + retries
        + Cardinality({c \in Conns : phase[c] \in {"connecting", "open", "failed"}}) =< 1
    /\ sale \in [Sales -> {"none", "pending", "confirmed"}]
    /\ large \in Texts /\ asks \in 0 .. 1 /\ retries \in 0 .. 1
    /\ posts \subseteq Sales
    /\ DOMAIN divs \subseteq Sales \X {"history", "new"}
    /\ {qr, review} \subseteq Sales \cup {None}

(* A panel that was toggled off and on is visible in the end, unless its   *)
(* sale has two panels: then each is toggled three times, and both are     *)
(* gone.                                                                   *)
PanelReturns ==
    \A d \in DOMAIN divs :
        divs[d].queue = <<>> /\ Cardinality(DivsOf(d[1])) = 1 => divs[d].shown

(* No panel is green before the server has confirmed its own sale, however *)
(* confirmations, templates and animations interleave.                     *)
GreenIsPaid ==
    \A d \in DOMAIN divs : divs[d].green => sale[d[1]] = "confirmed"

(* A confirmation that is sent to an open connection while its sale has a  *)
(* panel turns a panel of the sale green, or the connection ends.  One that *)
(* overtakes the template of its panel finds nothing to turn: the panel    *)
(* then comes yellow and stays so, and a sale without one is left out here. *)
ShownTurnsGreen ==
    \A c \in Conns, m \in Messages :
        (m \in sent[c] /\ m \notin ToSet(seen[c]) /\ DivsOf(SaleOf(m)) # {})
            ~> (phase[c] # "open" \/ \E d \in DivsOf(SaleOf(m)) : divs[d].green)

------------------------------------------------------------------------------
(* The inductive invariants of the screen.                                 *)

Known(d) == d \in Sales \X {"history", "new"}

ShapeInv ==
    /\ sale \in [Sales -> {"none", "pending", "confirmed"}]
    /\ large \in Texts /\ history.sales \subseteq Sales /\ posts \subseteq Sales
    /\ \A r \in renders :
          /\ r.sale \in Sales
          /\ r.kind = "panel" => r.from \in {"history", "new"}
    /\ \A d \in DOMAIN divs : Known(d)
    /\ {qr, review} \subseteq Sales \cup {None}

(* Behind the first conjunct of TypeOK: a login is a request, a timer or a *)
(* connection, and a connection gives it up when pos.js hears that it has  *)
(* failed, once.                                                           *)
Holding == {c \in Conns : phase[c] # "new" /\ fails[c] = 0}

LoginInv ==
    /\ asks \in 0 .. 1 /\ retries \in 0 .. 1 /\ asks + retries =< 1
    /\ asks + retries = 1 => Holding = {}
    /\ \A c, d \in Holding : c = d
    /\ \A c \in Conns :
          phase[c] \in {"new", "connecting", "open", "failed"} => fails[c] = 0

(* Behind GreenIsPaid: what the server sends, and what a queued turn will  *)
(* turn green, are of confirmed sales.                                     *)
Paid(s) == s \in Sales /\ sale[s] = "confirmed"

PaidInv ==
    /\ \A c \in Conns : \A m \in sent[c] : Paid(SaleOf(m))
    /\ \A d \in DOMAIN divs : \A i \in DOMAIN divs[d].queue :
          divs[d].queue[i].kind = "turn" => Paid(d[1])
    /\ GreenIsPaid

(* Behind PanelReturns: a turn is queued with all the panels its sale then *)
(* had, and a panel that is alone is toggled back for every turn that has  *)
(* ended.  c[i] says whether it is shown after i animations, each turn's   *)
(* toggle counted with the one that will follow it.                        *)
Animation == {Back} \cup {Turn(els) : els \in SUBSET (DOMAIN divs)}

QueueInv ==
    \A d \in DOMAIN divs :
        /\ divs[d] \in [green : BOOLEAN, shown : BOOLEAN, queue : Seq(Animation)]
        /\ \A i \in DOMAIN divs[d].queue :
              divs[d].queue[i].kind = "turn" =>
                  d \in divs[d].queue[i].els /\ divs[d].queue[i].els \subseteq DivsOf(d[1])

Restored(shown, queue) ==
    \E c \in [0 .. Len(queue) -> BOOLEAN] :
        /\ c[0] <=> shown
        /\ \A i \in DOMAIN queue : c[i] <=> (c[i - 1] <=> queue[i].kind # "back")
        /\ c[Len(queue)]

BackInv ==
    \A d \in DOMAIN divs :
        DivsOf(d[1]) = {d} => Restored(divs[d].shown, divs[d].queue)

ScreenInv == ShapeInv /\ LoginInv /\ PaidInv /\ QueueInv /\ BackInv

=============================================================================

------------------------------ MODULE Strophe ------------------------------
(* The messaging library of the point of sale screen: one                  *)
(* Strophe.Connection over BOSH, the connection manager it polls and the   *)
(* network between them.  JavaScript runs one callback at a time, so that  *)
(* every callback -- a request that completes, the idle timer -- is one    *)
(* action; what a callback does is written as functions of the             *)
(* connection's record, in the order of the code.                          *)
EXTENDS Naturals, SequencesExt

CONSTANTS
    Messages,   \* the confirmations the server may send
    Profiles,   \* what a server may offer at login: see Init
    Window,     \* the connection manager's "requests" attribute
    Budgets     \* how often each fault may happen: bounds on retries and rids

VARIABLES
    conn,       \* the Strophe.Connection and its Strophe.Bosh
    srv,        \* the connection manager's session
    left        \* what is left of the budget chosen

vars == <<conn, srv, left>>

Mechanisms == {"ANONYMOUS", "PLAIN", "DIGEST-MD5", "SCRAM-SHA-1"}
Handlers == {"success", "failure", "challenge", "features", "bind", "session",
             "auth1", "auth2", "confirm"}
LoginStanzas == {"auth", "response", "restart", "bind", "session", "auth1", "auth2"}
Statuses == {"none", "CONNECTING", "AUTHENTICATING", "CONNECTED", "AUTHFAIL",
             "CONNFAIL", "DISCONNECTING", "DISCONNECTED"}
MaxSends == 6
NaN == 0 - 1

(* What the server says to the login.  A confirmation is none of it.       *)
LoginItems ==
    {"offers", "challenge", "bad nonce", "success", "bad signature", "failure",
     "features", "features without bind", "bind result", "bind error",
     "session result", "session error", "auth1 result", "auth2 result", "auth2 error"}

ASSUME MessagesAssumption == Messages \cap LoginItems = {}

------------------------------------------------------------------------------
(* Strophe.Request.  xhr: "unsent", "sent", waiting in sendFunc's timer    *)
(* ("backoff") or "failed"; age and dead are the time since it was sent    *)
(* and since its sibling asked for its restart, against the limits         *)
(* TIMEOUT * wait = 66 s ("old") and SECONDARY_TIMEOUT * wait = 6 s.       *)
Request(rid, sid, body, func) ==
    [rid |-> rid, sid |-> sid, body |-> body, func |-> func, sends |-> 0,
     xhr |-> "unsent", age |-> "new", dead |-> "none"]

TimedOut(r) == r.age = "old" \/ r.dead = "old" \/ r.xhr = "failed"

(* _processRequest: a request that timed out or failed is replaced by a    *)
(* new one for the same rid, and one that is not open yet is sent, at once *)
(* or after a while when it was sent more than once.  Its limit of retries *)
(* is Bosh's maxRetries, which nothing sets: sends > undefined is false.   *)
Renewed(r) ==
    IF TimedOut(r)
    THEN [Request(r.rid, r.sid, r.body, r.func) EXCEPT !.sends = r.sends]
    ELSE r

Posted(r) ==
    IF r.xhr # "unsent" THEN r
    ELSE [r EXCEPT !.xhr = IF r.sends > 1 THEN "backoff" ELSE "sent",
                   !.age = IF r.sends > 1 THEN "new" ELSE "fresh",
                   !.sends = IF @ < MaxSends THEN @ + 1 ELSE @]

ProcessRequest(k, i) == [k EXCEPT !.requests[i] = Posted(Renewed(@))]

(* _throttledRequestHandler: the first request, and the second when the    *)
(* rids of both are within the window.                                     *)
Throttled(k) ==
    LET first == IF Len(k.requests) > 0 THEN ProcessRequest(k, 1) ELSE k
        apart == IF k.requests[1].rid < k.requests[2].rid
                 THEN k.requests[2].rid - k.requests[1].rid
                 ELSE k.requests[1].rid - k.requests[2].rid
    IN IF Len(k.requests) > 1 /\ apart < Window
       THEN ProcessRequest(first, 2) ELSE first

PushSameRid(k, body, func) ==
    [k EXCEPT !.requests = Append(@, Request(k.rid, k.sid, body, func))]

(* _buildBody takes the next rid and the sid, the caller pushes a request. *)
Push(k, body, func) ==
    [k EXCEPT !.requests = Append(@, Request(k.rid, k.sid, body, func)),
              !.rid = @ + 1]

RemoveAllButFirst(k, i) ==
    IF i > 1 THEN Throttled([k EXCEPT !.requests = RemoveAt(@, i)]) ELSE Throttled(k)

RemoveRequest(k, i) == Throttled([k EXCEPT !.requests = RemoveAt(@, i)])

RestartRequest(k) ==
    ProcessRequest([k EXCEPT !.requests[1].dead =
                        IF @ = "none" THEN "fresh" ELSE @], 1)

(* _onDisconnectTimeout of Bosh.                                           *)
AbortAll(k) == [k EXCEPT !.requests = <<>>]

(* _hitError: errors is first set by the first answer (undefined + 1 is    *)
(* NaN); the fifth error in a row aborts every request, and tells nobody.  *)
HitError(k) ==
    LET n == IF k.errors = NaN THEN NaN ELSE IF k.errors < 5 THEN k.errors + 1 ELSE 5
    IN IF n > 4
       THEN AbortAll([k EXCEPT !.errors = n, !.gaveUp = TRUE])
       ELSE [k EXCEPT !.errors = n]

------------------------------------------------------------------------------
(* send: the stanza waits in _data for the next _onIdle.                   *)
Send(k, stanza) ==
    [Throttled([k EXCEPT !.data = Append(@, stanza)]) EXCEPT !.idle = TRUE]

AddHandler(k, h) == [k EXCEPT !.adding = @ \cup {h}]
DeleteHandlers(k, hs) == [k EXCEPT !.removing = @ \cup hs]

(* _changeConnectStatus calls xmpp_onConnect of pos.js, which answers      *)
(* CONNECTED with its presence and a handler for confirmations.            *)
Tell(k, s) ==
    LET told == [k EXCEPT !.status = s,
                          !.fails = IF s = "CONNFAIL" THEN @ + 1 ELSE @]
    IN IF s = "CONNECTED"
       THEN AddHandler(Send(told, "presence"), "confirm")
       ELSE told

(* disconnect: a terminate request of its own, past the queue, and a timed *)
(* handler that gives up on its answer after three seconds.                *)
SendTerminate(k, pres) ==
    Throttled(Push(k, IF pres THEN {"unavailable", "terminate"}
                              ELSE {"terminate"}, "data"))

Disconnect(k) ==
    LET told == Tell(k, "DISCONNECTING")
    IN IF ~k.connected THEN told
       ELSE SendTerminate([told EXCEPT !.disconnecting = TRUE, !.timer = TRUE],
                          k.authenticated)

(* _doDisconnect: the session is forgotten and the next rid random; the    *)
(* requests and the data that are still queued are not.                    *)
FreshRid(rid) == ((rid \div 100) + 1) * 100

DoDisconnect(k) ==
    LET told == Tell([k EXCEPT !.timer = FALSE, !.sid = FALSE,
                               !.rid = FreshRid(@), !.authenticated = FALSE,
                               !.disconnecting = FALSE, !.handlers = {},
                               !.adding = {}, !.removing = {}], "DISCONNECTED")
    IN [told EXCEPT !.connected = FALSE]

------------------------------------------------------------------------------
(* Login.  The first mechanism by priority whose test holds for a jid with *)
(* a node, and the old jabber:iq:auth when there is none.                  *)
Usable == Mechanisms \ {"ANONYMOUS"}
Priority(m) == CASE m = "SCRAM-SHA-1" -> 40 [] m = "DIGEST-MD5" -> 30
                 [] m = "PLAIN" -> 20 [] m = "ANONYMOUS" -> 10

Authenticate(k, offers) ==
    LET usable == offers \cap Usable
        best == CHOOSE m \in usable : \A n \in usable : Priority(n) =< Priority(m)
    IN IF usable # {}
       THEN Send([k EXCEPT !.adding = @ \cup {"success", "failure", "challenge"},
                           !.mech = best], "auth")
       ELSE Send(AddHandler(Tell(k, "AUTHENTICATING"), "auth1"), "auth1")

(* _no_auth_received asks again with an empty body.                        *)
NoAuthReceived(k) == Throttled(Push(k, {}, "connect"))

ConnectCb(k, a) ==
    LET up == [k EXCEPT !.connected = TRUE]
    IN CASE a.kind = "parsererror" -> Disconnect(up)
         [] a.kind = "null" -> [up EXCEPT !.gaveUp = TRUE]
         [] a.kind = "terminate" -> DoDisconnect(Tell(up, "CONNFAIL"))
         [] a.kind = "data" ->
              IF a.items # <<"offers">>
              THEN NoAuthReceived([up EXCEPT !.sid = TRUE])
              ELSE Authenticate([up EXCEPT !.sid = TRUE], srv.profile.offers)

SaslFailureCb(k) == Tell(DeleteHandlers(k, {"success", "challenge"}), "AUTHFAIL")

SaslSuccessCb(k) ==
    LET handled == AddHandler(DeleteHandlers(k, {"failure", "challenge"}), "features")
    IN Send(handled, "restart")

(* A SCRAM server that does not know the password cannot sign.             *)
BadSignature(k) == SaslFailureCb(DeleteHandlers(k, {"failure", "challenge"}))

SaslAuth1Cb(k, item) ==
    IF item = "features" THEN Send(AddHandler(k, "bind"), "bind") ELSE Tell(k, "AUTHFAIL")

Authenticated(k) == Tell([k EXCEPT !.authenticated = TRUE], "CONNECTED")

SaslBindCb(k, item) ==
    CASE item = "bind error" -> Tell(k, "AUTHFAIL")
      [] item = "bind result" -> IF srv.profile.session
                                 THEN Send(AddHandler(k, "session"), "session")
                                 ELSE Authenticated(k)

SaslSessionCb(k, item) ==
    IF item = "session result" THEN Authenticated(k) ELSE Tell(k, "AUTHFAIL")

Auth2Cb(k, item) ==
    IF item = "auth2 result" THEN Authenticated(k)
    ELSE Disconnect(Tell(k, "AUTHFAIL"))

(* A nonce that is not ours fails a SCRAM login, and the handler throws on *)
(* the answer it was to encode; DIGEST-MD5 answers its second challenge    *)
(* with an empty response.                                                 *)
OnChallengeSHA1(k, item) ==
    IF item = "bad nonce" THEN SaslFailureCb(k) ELSE Send(k, "response")

OnChallengeMD5(k, item) == Send(k, "response")

SaslChallengeCb(k, item) ==
    IF k.mech = "SCRAM-SHA-1" THEN OnChallengeSHA1(k, item) ELSE OnChallengeMD5(k, item)

(* onConfirm of pos.js is the only handler of the user.                    *)
OnConfirm(k, item) == [k EXCEPT !.received = Append(@, item)]

Auth1Cb(k) == Send(AddHandler(k, "auth2"), "auth2")

(* The handler an item of an answer is for.                                *)
HandlerOf(item) ==
    CASE item = "challenge" \/ item = "bad nonce" -> "challenge"
      [] item = "success" \/ item = "bad signature" -> "success"
      [] item = "failure" -> "failure"
      [] item = "features" \/ item = "features without bind" -> "features"
      [] item = "bind result" \/ item = "bind error" -> "bind"
      [] item = "session result" \/ item = "session error" -> "session"
      [] item = "auth1 result" -> "auth1"
      [] item = "auth2 result" \/ item = "auth2 error" -> "auth2"
      [] OTHER -> "confirm"

Run(k, h, item) ==
    CASE h = "challenge" -> SaslChallengeCb(k, item)
      [] h = "success" -> IF item = "success" THEN SaslSuccessCb(k) ELSE BadSignature(k)
      [] h = "failure" -> SaslFailureCb(k)
      [] h = "features" -> SaslAuth1Cb(k, item)
      [] h = "bind" -> SaslBindCb(k, item)
      [] h = "session" -> SaslSessionCb(k, item)
      [] h = "auth1" -> Auth1Cb(k)
      [] h = "auth2" -> Auth2Cb(k, item)
      [] h = "confirm" -> OnConfirm(k, item)

(* One child of an answer: the handlers that match run, those of the user  *)
(* only once authenticated, and stay when they return true.                *)
Handle(k, item) ==
    LET h == HandlerOf(item)
        keeps == item = "challenge" \/ h = "confirm"
    IN IF h \notin k.handlers \/ (h = "confirm" /\ ~k.authenticated) THEN k
       ELSE LET ran == Run(k, h, item)
            IN IF keeps THEN ran ELSE [ran EXCEPT !.handlers = @ \ {h}]

(* The children of an answer, one after the other.                         *)
Handled(k, items) ==
    LET after[i \in 0 .. Len(items)] ==
            IF i = 0 THEN k ELSE Handle(after[i - 1], items[i])
    IN after[Len(items)]

(* _dataRecv.  An answer that is no XML has disconnected by then, and      *)
(* reading its type throws.                                                *)
Merged(k) == [k EXCEPT !.handlers = (@ \ k.removing) \cup k.adding,
                       !.removing = {}, !.adding = {}]

DataRecv(k, a) ==
    LET read == Merged(IF a.kind = "parsererror" THEN Disconnect(k) ELSE k)
    IN CASE a.kind = "null" -> [k EXCEPT !.gaveUp = TRUE]
         [] a.kind # "null" /\ read.disconnecting /\ read.requests = <<>> ->
              DoDisconnect(read)
         [] a.kind # "null" /\ ~(read.disconnecting /\ read.requests = <<>>) ->
              CASE a.kind = "parsererror" -> read
                [] a.kind = "terminate" ->
                     IF read.disconnecting THEN read
                     ELSE Disconnect(Tell(read, "CONNFAIL"))
                [] a.kind = "data" -> Handled(read, a.items)

------------------------------------------------------------------------------
(* _onRequestStateChange, readyState 4, of the i-th request.               *)
Answered(k, func, a) ==
    LET done == IF func = "connect" THEN ConnectCb(k, a) ELSE DataRecv(k, a)
        threw == func = "data" /\ a.kind = "parsererror"
    IN IF threw THEN done ELSE [done EXCEPT !.errors = 0]

Status200(k, i, a) ==
    LET removed == RemoveRequest(k, i)
        restart == removed.requests # <<>>
                   /\ (i = 2 \/ (i = 1 /\ removed.requests[1].age \in {"aged", "old"}))
    IN Answered(IF restart THEN RestartRequest(removed) ELSE removed,
                k.requests[i].func, a)

Status404(k, i) ==
    DoDisconnect(Tell(HitError(RemoveRequest(k, i)), "DISCONNECTING"))

Status0RemovesEarly(k, i) ==
    IF k.requests[i].sends > 1 THEN HitError(RemoveRequest(k, i))
    ELSE Throttled(HitError([k EXCEPT !.requests[i].xhr = "failed"]))

(* Status 0, a lost request or answer, and 5xx.                            *)
Status0(k, i) ==
    IF k.requests[i].sends > 5
    THEN HitError([RemoveRequest(k, i) EXCEPT !.gaveUp = TRUE])
    ELSE Throttled(HitError([k EXCEPT !.requests[i].xhr = "failed"]))

TimedHandlersOfUser(k, due) ==
    IF k.timer /\ due /\ ~k.disconnecting THEN DoDisconnect(AbortAll(k)) ELSE k

(* _onIdle.  due: the timed handler of disconnect is three seconds old.    *)
TimedHandlers(k, due) ==
    IF k.timer /\ due THEN DoDisconnect(AbortAll(k)) ELSE k

Polled(k) ==
    IF k.authenticated /\ k.requests = <<>> /\ k.data = <<>> /\ ~k.disconnecting
    THEN [k EXCEPT !.data = <<"blank">>] ELSE k

Flushed(k) ==
    LET n == Len(k.requests)
        body == ToSet(k.data) \ {"blank"}
    IN IF n < 2 /\ k.data # <<>>
       THEN ProcessRequest(Push([k EXCEPT !.data = <<>>], body, "data"), n + 1)
       ELSE k

Rechecked(k) ==
    IF k.requests # <<>> /\ (k.requests[1].dead = "old" \/ k.requests[1].age = "old")
    THEN Throttled(k) ELSE k

OnIdleOnce(k, due) ==
    [Rechecked(Flushed(Polled(TimedHandlers(k, due)))) EXCEPT !.idle = FALSE]

OnIdle(k, due) ==
    LET done == Rechecked(Flushed(Polled(TimedHandlers(k, due))))
    IN [done EXCEPT !.idle = done.connected]

------------------------------------------------------------------------------
(* The connection manager.  It reads a stanza and answers with what the    *)
(* login asks for, or refuses.                                             *)
Replies(stanza, mech) ==
    CASE stanza = "auth" -> IF mech = "PLAIN" THEN {"success"} ELSE {"challenge"}
      [] stanza = "response" -> {"success"}
      [] stanza = "restart" -> {"features"}
      [] stanza = "bind" -> {"bind result"}
      [] stanza = "session" -> {"session result"}
      [] stanza = "auth1" -> {"auth1 result"}
      [] stanza = "auth2" -> {"auth2 result"}
      [] OTHER -> {}

Refusals(stanza, mech) ==
    CASE stanza = "auth" -> IF mech = "SCRAM-SHA-1" THEN {"failure", "bad nonce"}
                            ELSE {"failure"}
      [] stanza = "response" -> IF mech = "SCRAM-SHA-1" THEN {"failure", "bad signature"}
                                ELSE {"failure"}
      [] stanza = "restart" -> {"features without bind"}
      [] stanza = "bind" -> {"bind error"}
      [] stanza = "session" -> {"session error"}
      [] stanza = "auth2" -> {"auth2 error"}
      [] OTHER -> {}

Data(items) == [kind |-> "data", items |-> items]
Broken(kind) == [kind |-> kind, items |-> <<>>]

(* DIGEST-MD5 challenges twice.                                            *)
Answers(stanza) ==
    IF stanza = "response" /\ conn.mech = "DIGEST-MD5" /\ ~srv.again
    THEN {"challenge"} ELSE Replies(stanza, conn.mech)

(* What a fault uses up.                                                   *)
Spend(f) == left[f] > 0 /\ left' = [left EXCEPT ![f] = @ - 1]

(* The server keeps the answers that it gave; only those a queued request  *)
(* can still ask for are of interest.                                      *)
Stored(cache, new) ==
    [r \in DOMAIN new \cup DOMAIN cache |-> IF r \in DOMAIN new THEN new[r] ELSE cache[r]]
Rids(k) == {k.requests[i].rid : i \in DOMAIN k.requests}
Become(k) == conn' = k
Cached(cache, k) == [r \in DOMAIN cache \cap Rids(k) |-> cache[r]]

Outgoing(i) == i \in DOMAIN conn.requests /\ conn.requests[i].xhr = "sent"

(* A request is processed in the order of the rids.                        *)
Process(i) ==
    LET r == conn.requests[i]
        asks == r.body \cap LoginStanzas
        stanza == IF asks = {} THEN "none" ELSE CHOOSE s \in asks : TRUE
        offer == ~srv.offered /\ (~srv.profile.late \/ r.rid > 1)
        hears == [srv EXCEPT !.next = @ + 1, !.offered = @ \/ offer,
                             !.again = @ \/ stanza = "response",
                             !.online = @ \/ "presence" \in r.body]
        open == srv.open \cup {r.rid}
        Say(items) == [hears EXCEPT !.open = open,
                                    !.out = @ \o (IF offer THEN <<"offers">> ELSE <<>>) \o items]
    IN /\ Outgoing(i)
       /\ srv.alive /\ r.rid = srv.next /\ (r.sid \/ r.rid = 1)
       /\ IF "terminate" \in r.body
          THEN /\ srv' = [hears EXCEPT !.alive = FALSE, !.open = {}, !.out = <<>>,
                            !.cache = Stored(@, [x \in open |->
                                IF x = r.rid THEN Broken("terminate") ELSE Data(<<>>)])]
               /\ UNCHANGED left
          ELSE \/ /\ Answers(stanza) = {} /\ srv' = Say(<<>>) /\ UNCHANGED left
               \/ \E item \in Answers(stanza) : srv' = Say(<<item>>) /\ UNCHANGED left
               \/ \E item \in Refusals(stanza, conn.mech) :
                     srv' = Say(<<item>>) /\ Spend("refuse")
       /\ UNCHANGED conn

(* The oldest open request is answered when there is something to say or a *)
(* newer request to hold, and otherwise when the wait is over.             *)
Oldest(rids) == CHOOSE r \in rids : \A s \in rids : r =< s

Reply ==
    LET rid == Oldest(srv.open)
    IN /\ srv.open # {}
       /\ \/ (srv.out # <<>> \/ Cardinality(srv.open) > 1 \/ rid = 1) /\ UNCHANGED left
          \/ srv.out = <<>> /\ Cardinality(srv.open) = 1 /\ rid > 1 /\ Spend("wait")
       /\ srv' = [srv EXCEPT !.open = @ \ {rid}, !.out = <<>>,
                             !.cache = IF rid \in Rids(conn)
                                       THEN Stored(@, [r \in {rid} |-> Data(srv.out)]) ELSE @]
       /\ UNCHANGED conn

(* The session ends: the server stops or another client takes the name; or *)
(* the client has been silent, or a rid of its is missing, for a minute.   *)
End ==
    LET rid == Oldest(srv.open)
    IN [srv EXCEPT !.alive = FALSE, !.open = {}, !.out = <<>>,
                   !.cache = IF srv.open # {} /\ rid \in Rids(conn)
                             THEN Stored(@, [r \in {rid} |-> Broken("terminate")]) ELSE @]

Kick == srv.alive /\ srv.next > 1 /\ srv' = End /\ Spend("kick") /\ UNCHANGED conn

Expire ==
    /\ srv.alive /\ srv.next > 1
    /\ \A i \in DOMAIN conn.requests : conn.requests[i].rid > srv.next
    /\ conn.requests = <<>> => ~conn.idle
    /\ srv' = End
    /\ UNCHANGED <<conn, left>>

(* The server puts a confirmation on the session.                          *)
Confirm(m) ==
    /\ srv.alive /\ srv.online /\ m \notin srv.sent
    /\ srv' = [srv EXCEPT !.sent = @ \cup {m}, !.out = Append(@, m)]
    /\ UNCHANGED <<conn, left>>

------------------------------------------------------------------------------
(* The i-th request completes: with its answer, also after it was sent     *)
(* again; with what a proxy makes of the answer; with 404 when the session *)
(* is gone; or with status 0.                                              *)
Completed(k) ==
    /\ Become(k)
    /\ srv' = [srv EXCEPT !.cache = Cached(@, k)]

Deliver(i) ==
    /\ Outgoing(i) /\ conn.requests[i].rid \in DOMAIN srv.cache
    /\ Completed(Status200(conn, i, srv.cache[conn.requests[i].rid]))
    /\ UNCHANGED left

Garble(i) ==
    /\ Outgoing(i) /\ conn.requests[i].rid \in DOMAIN srv.cache
    /\ Spend("garble")
    /\ \E kind \in {"parsererror", "null"} :
          Completed(Status200(conn, i, Broken(kind)))

Refuse(i) ==
    /\ Outgoing(i) /\ conn.requests[i].rid \notin DOMAIN srv.cache
    /\ ~srv.alive \/ (~conn.requests[i].sid /\ conn.requests[i].rid > 1)
    /\ Completed(Status404(conn, i))
    /\ UNCHANGED left

Lose(i) ==
    /\ Outgoing(i)
    /\ Spend("lose")
    /\ Completed(Status0(conn, i))

(* sendFunc's timer sends a request that was put off.                      *)
BackoffEnds(i) ==
    /\ i \in DOMAIN conn.requests /\ conn.requests[i].xhr = "backoff"
    /\ Become([conn EXCEPT !.requests[i].xhr = "sent", !.requests[i].age = "fresh"])
    /\ UNCHANGED <<srv, left>>

(* More than 6 s pass, and more than 66 s without an answer.               *)
Later(r, age) == [r EXCEPT !.age = IF @ = "new" THEN @ ELSE age,
                           !.dead = IF @ = "none" THEN @ ELSE "old"]

TimePasses ==
    /\ \E i \in DOMAIN conn.requests :
          conn.requests[i].age = "fresh" \/ conn.requests[i].dead = "fresh"
    /\ Become([conn EXCEPT !.requests =
                  [i \in DOMAIN @ |-> Later(@[i], IF @[i].age = "old" THEN "old" ELSE "aged")]])
    /\ UNCHANGED <<srv, left>>

NoAnswer ==
    /\ \E i \in DOMAIN conn.requests : conn.requests[i].age \in {"fresh", "aged"}
    /\ Spend("late")
    /\ Become([conn EXCEPT !.requests = [i \in DOMAIN @ |-> Later(@[i], "old")]])
    /\ UNCHANGED srv

Idle(due) ==
    /\ conn.idle
    /\ conn # OnIdle(conn, due)
    /\ Completed(OnIdle(conn, due))
    /\ UNCHANGED left

(* xmpp_doConnect of pos.js: new Strophe.Connection (Init) and connect.    *)
Connect ==
    /\ conn.status = "none"
    /\ Become(Throttled(Push(Tell(conn, "CONNECTING"), {"connect"}, "connect")))
    /\ UNCHANGED <<srv, left>>

Init ==
    /\ conn = [status |-> "none", fails |-> 0, connected |-> FALSE,
               authenticated |-> FALSE, disconnecting |-> FALSE, timer |-> FALSE,
               idle |-> TRUE, handlers |-> {}, adding |-> {}, removing |-> {},
               data |-> <<>>, requests |-> <<>>, rid |-> 1, sid |-> FALSE,
               errors |-> NaN, mech |-> "none", received |-> <<>>,
               gaveUp |-> FALSE]
    /\ \E p \in Profiles :
          srv = [alive |-> TRUE, next |-> 1, open |-> {}, cache |-> <<>>,
                 out |-> <<>>, sent |-> {}, online |-> FALSE, offered |-> FALSE,
                 again |-> FALSE, profile |-> p]
    /\ left \in Budgets

(* What the browser, the network and the server do by themselves: as long  *)
(* as any of it can happen, something does.                                *)
Work ==
    \/ Connect \/ Reply \/ Expire \/ TimePasses
    \/ \E i \in 1 .. 2 : Process(i) \/ Deliver(i) \/ Refuse(i) \/ BackoffEnds(i)
    \/ \E due \in BOOLEAN : Idle(due)

Faults ==
    \/ Kick \/ NoAnswer
    \/ \E i \in 1 .. 2 : Garble(i) \/ Lose(i)

Next == Work \/ Faults \/ \E m \in Messages : Confirm(m)

Spec == Init /\ [][Next]_vars
FairSpec == Spec /\ WF_vars(Work)

------------------------------------------------------------------------------
PhaseOf(s) ==
    CASE s = "none" -> "new"
      [] s \in {"CONNECTING", "AUTHENTICATING"} -> "connecting"
      [] s = "CONNECTED" -> "open"
      [] s = "AUTHFAIL" -> "failed"
      [] s = "DISCONNECTING" -> "closing"
      [] s = "DISCONNECTED" -> "closed"

Abstract == INSTANCE Stream
    WITH Conns <- {"c"},
         phase <- [c \in {"c"} |-> PhaseOf(conn.status)],
         fails <- [c \in {"c"} |-> conn.fails],
         sent  <- [c \in {"c"} |-> srv.sent],
         seen  <- [c \in {"c"} |-> conn.received]

(* Strophe keeps what Stream promises pos.js: the order of the phases, no  *)
(* confirmation before the connection is open, each at most once -- also   *)
(* when requests are sent again and answers come out of order.             *)
KeepsStream == Abstract!StreamSpec

(* The connection's record keeps its shape: the queue is in the order of   *)
(* the rids, and a rid the library gives away is above all queued ones.    *)
(* The connection manager accepts two requests at a time ("requests=2")    *)
(* and may end a session that exceeds them: a disconnection adds its       *)
(* terminate request without counting, and still there are never three.    *)
TypeOK ==
    /\ conn.status \in Statuses
    /\ conn.handlers \cup conn.adding \cup conn.removing \subseteq Handlers
    /\ conn.errors \in NaN .. 5
    /\ Len(conn.requests) =< 2
    /\ \A i \in DOMAIN conn.requests :
          /\ conn.requests[i].sends \in 0 .. MaxSends
          /\ conn.requests[i].xhr \in {"unsent", "sent", "backoff", "failed"}
          /\ conn.requests[i].rid < conn.rid
          /\ \A j \in 1 .. (i - 1) : conn.requests[j].rid < conn.requests[i].rid

(* While the connection is open and the library has not thrown a request   *)
(* or an answer away, a confirmation of the server has reached onConfirm,  *)
(* or is on its way: queued at the server, or in an answer that a queued   *)
(* request will still fetch.                                               *)
OnItsWay(m) ==
    \/ m \in ToSet(srv.out)
    \/ \E r \in DOMAIN srv.cache : m \in ToSet(srv.cache[r].items)
NoConfirmationLost ==
    conn.status = "CONNECTED" /\ srv.alive /\ ~conn.gaveUp
        => \A m \in srv.sent : m \in ToSet(conn.received) \/ OnItsWay(m)

(* A confirmation reaches onConfirm, or pos.js is told that the connection *)
(* ends, or the library has given a request or an answer up.               *)
ConfirmationArrives ==
    \A m \in Messages :
        m \in srv.sent
            ~> (m \in ToSet(conn.received) \/ conn.status # "CONNECTED" \/ conn.gaveUp)

(* A disconnection that the idle timer watches completes, also when the    *)
(* server never answers the terminate request.                             *)
DisconnectionEnds ==
    (conn.disconnecting /\ conn.idle) ~> (conn.status = "DISCONNECTED")
=============================================================================

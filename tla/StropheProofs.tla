---------------------------- MODULE StropheProofs ----------------------------
(* What the connection of the point of sale screen keeps, for every set of *)
(* confirmations, every server and every number of faults.                 *)
EXTENDS Strophe, FiniteSetTheorems, SequenceTheorems, WellFoundedInduction, TLAPS

------------------------------------------------------------------------------
(* Types.                                                                  *)
Stanzas == LoginStanzas \cup {"presence", "blank", "connect", "unavailable", "terminate"}
Items == LoginItems \cup Messages

RequestType ==
    [rid : Nat, sid : BOOLEAN, body : SUBSET Stanzas, func : {"connect", "data"},
     sends : 0 .. MaxSends, xhr : {"unsent", "sent", "backoff", "failed"},
     age : {"new", "fresh", "aged", "old"}, dead : {"none", "fresh", "old"}]

ConnType ==
    [status : Statuses, fails : Nat, connected : BOOLEAN, authenticated : BOOLEAN,
     disconnecting : BOOLEAN, timer : BOOLEAN, idle : BOOLEAN,
     handlers : SUBSET Handlers, adding : SUBSET Handlers, removing : SUBSET Handlers,
     data : Seq(Stanzas), requests : Seq(RequestType), rid : Nat, sid : BOOLEAN,
     errors : NaN .. 5, mech : Mechanisms \cup {"none"}, received : Seq(Items),
     gaveUp : BOOLEAN]

AnswerType == [kind : {"data", "terminate", "parsererror", "null"}, items : Seq(Items)]

SrvType ==
    [alive : BOOLEAN, next : Nat, open : SUBSET Nat,
     cache : UNION {[D -> AnswerType] : D \in SUBSET Nat},
     out : Seq(Items), sent : SUBSET Messages, online : BOOLEAN, offered : BOOLEAN,
     again : BOOLEAN, profile : Profiles]

------------------------------------------------------------------------------
(* The client by itself.                                                   *)
InOrder(k) ==
    /\ Len(k.requests) =< 2
    /\ \A i \in 1 .. Len(k.requests) : k.requests[i].rid < k.rid
    /\ \A i, j \in 1 .. Len(k.requests) : j < i => k.requests[j].rid < k.requests[i].rid

LoggingIn(k) == k.status \in {"CONNECTING", "AUTHENTICATING"}
Before(k) == k.status = "none" \/ LoggingIn(k) \/ k.status = "AUTHFAIL"

(* Until the login is decided there is one stanza or request at a time,    *)
(* and none before or after it.                                            *)
OneAtATime(k) ==
    /\ Before(k) /\ ~LoggingIn(k) => k.requests = <<>> /\ k.data = <<>>
    /\ LoggingIn(k) =>
          /\ Len(k.requests) + Len(k.data) =< 1
          /\ k.data # <<>> => k.sid
          /\ \A i \in 1 .. Len(k.requests) :
                \/ k.requests[i].sid /\ k.sid
                \/ k.requests[i].rid = 1 /\ k.requests[i].func = "connect"

Standing(k) ==
    /\ k.status # "CONNFAIL"
    /\ k.authenticated => k.status \in {"CONNECTED", "DISCONNECTING"}
    /\ k.status = "CONNECTED" =>
          /\ k.authenticated /\ ~k.disconnecting
          /\ "confirm" \in k.handlers \cup k.adding
    /\ "confirm" \notin k.removing
    /\ k.timer \/ k.disconnecting => k.status = "DISCONNECTING"
    /\ k.status = "none" => k.rid = 1 /\ ~k.sid

(* What is in the queue.                                                   *)
Queued(k) ==
    /\ \A i \in 1 .. Len(k.requests) :
          /\ k.requests[i].func = "connect" => LoggingIn(k) /\ k.requests[i].body \subseteq {"connect"}
          /\ "presence" \in k.requests[i].body => ~Before(k)
    /\ "presence" \in ToSet(k.data) => ~Before(k)
    /\ "terminate" \notin ToSet(k.data)
    /\ ToSet(k.data) \cap LoginStanzas # {} => LoggingIn(k)

(* The client and the server.                                              *)
Bodies(k, s) ==
    /\ \A i \in 1 .. Len(k.requests) :
          k.requests[i].rid >= s.next /\ k.requests[i].body \cap LoginStanzas # {} => LoggingIn(k)
    /\ ~s.offered =>
          /\ k.data = <<>> /\ ~k.authenticated /\ s.out = <<>>
          /\ \A r \in DOMAIN s.cache : s.cache[r].items = <<>>
          /\ \A i \in 1 .. Len(k.requests) :
                k.requests[i].func = "connect" \/ "terminate" \in k.requests[i].body

Online(k, s) ==
    /\ s.online => ~Before(k)
    /\ s.online /\ s.alive => s.offered
    /\ s.sent # {} => s.online

Open(k, s) ==
    /\ s.next =< k.rid
    /\ \A r \in s.open : r < s.next
    /\ \A r \in DOMAIN s.cache : r < s.next /\ r \notin s.open
    /\ ~s.alive => s.open = {} /\ s.out = <<>>

(* A login item is alone, and what it answers is the request queued.       *)
LoginOnItsWay(k, s) ==
    /\ \A i \in 1 .. Len(s.out) : s.out[i] \in LoginItems =>
          /\ LoggingIn(k) /\ Len(s.out) = 1 /\ k.data = <<>>
          /\ \A j \in 1 .. Len(k.requests) :
                k.requests[j].rid < s.next /\ k.requests[j].rid \notin DOMAIN s.cache
    /\ \A r \in DOMAIN s.cache : \A i \in 1 .. Len(s.cache[r].items) :
          s.cache[r].items[i] \in LoginItems =>
             LoggingIn(k) /\ Len(s.cache[r].items) = 1 /\ r \in Rids(k)

(* Every confirmation is in one place.                                     *)
OnePlace(k, s) ==
    /\ k.received \in Seq(s.sent) /\ IsInjective(k.received)
    /\ ToSet(s.out) \subseteq LoginItems \cup s.sent
    /\ \A r \in DOMAIN s.cache : ToSet(s.cache[r].items) \subseteq LoginItems \cup s.sent
    /\ IsInjective(s.out)
    /\ \A r \in DOMAIN s.cache : IsInjective(s.cache[r].items)
    /\ \A m \in s.sent :
          /\ m \in ToSet(s.out) => m \notin ToSet(k.received)
          /\ \A r \in DOMAIN s.cache : m \in ToSet(s.cache[r].items) =>
                /\ m \notin ToSet(k.received) \cup ToSet(s.out)
                /\ \A q \in DOMAIN s.cache \ {r} : m \notin ToSet(s.cache[q].items)

Terminated(k, s) ==
    /\ k.fails \in 0 .. 1
    /\ s.alive => k.fails = 0
    /\ \A r \in DOMAIN s.cache : s.cache[r].kind = "terminate" =>
          /\ ~s.alive /\ k.fails = 0
          /\ \A q \in DOMAIN s.cache \ {r} : s.cache[q].kind # "terminate"
    /\ \A r \in DOMAIN s.cache : s.cache[r].kind \in {"data", "terminate"}
    /\ \A r \in DOMAIN s.cache : s.cache[r].kind # "data" => s.cache[r].items = <<>>

(* What reaches onConfirm: an answer that a request of the queue waits for *)
(* is not lost.                                                            *)
Live(k) ==
    k.status \in {"none", "CONNECTING", "AUTHENTICATING", "CONNECTED"} /\ ~k.gaveUp

Awaited(k, s) == Live(k) => s.open \subseteq Rids(k)

Arrives(k, s) ==
    k.status = "CONNECTED" /\ s.alive /\ ~k.gaveUp
        => \A m \in s.sent :
              \/ m \in ToSet(k.received) \/ m \in ToSet(s.out)
              \/ \E r \in DOMAIN s.cache \cap Rids(k) : m \in ToSet(s.cache[r].items)

(* What holds also while an answer is in the client's hands.               *)
Kept(k, s) ==
    /\ k \in ConnType /\ s \in SrvType
    /\ InOrder(k) /\ OneAtATime(k) /\ Standing(k) /\ Queued(k)
    /\ Bodies(k, s) /\ Online(k, s) /\ Open(k, s) /\ LoginOnItsWay(k, s)
    /\ OnePlace(k, s) /\ Terminated(k, s)

Holds(k, s) == Kept(k, s) /\ Awaited(k, s) /\ Arrives(k, s)

Inv == Holds(conn, srv)

------------------------------------------------------------------------------
(* The queue.                                                              *)

(* The same requests, sent or not.                                         *)
Same(q, p) ==
    /\ q \in Seq(RequestType) /\ Len(q) = Len(p)
    /\ \A i \in 1 .. Len(p) :
          /\ q[i].rid = p[i].rid /\ q[i].sid = p[i].sid
          /\ q[i].body = p[i].body /\ q[i].func = p[i].func

Resent(k, l) == \E q : l = [k EXCEPT !.requests = q] /\ Same(q, k.requests)

LEMMA PostedKeeps ==
    ASSUME NEW r \in RequestType
    PROVE  /\ Posted(Renewed(r)) \in RequestType
           /\ Posted(Renewed(r)).rid = r.rid /\ Posted(Renewed(r)).sid = r.sid
           /\ Posted(Renewed(r)).body = r.body /\ Posted(Renewed(r)).func = r.func
<1>1. /\ Renewed(r) \in RequestType
      /\ Renewed(r).rid = r.rid /\ Renewed(r).sid = r.sid
      /\ Renewed(r).body = r.body /\ Renewed(r).func = r.func
  BY DEF Renewed, Request, RequestType, MaxSends
<1>2. ASSUME NEW s \in RequestType
      PROVE  /\ Posted(s) \in RequestType
             /\ Posted(s).rid = s.rid /\ Posted(s).sid = s.sid
             /\ Posted(s).body = s.body /\ Posted(s).func = s.func
  <2>1. CASE s.xhr # "unsent"
    BY <2>1 DEF Posted
  <2>2. CASE s.xhr = "unsent"
    <3> DEFINE n == IF s.sends < MaxSends THEN s.sends + 1 ELSE s.sends
               x == IF s.sends > 1 THEN "backoff" ELSE "sent"
               a == IF s.sends > 1 THEN "new" ELSE "fresh"
    <3>1. n \in 0 .. MaxSends /\ x \in {"backoff", "sent"} /\ a \in {"new", "fresh"}
      BY DEF RequestType, MaxSends
    <3>2. Posted(s) = [s EXCEPT !.xhr = x, !.age = a, !.sends = n]
      BY <2>2 DEF Posted
    <3> HIDE DEF n, x, a
    <3> QED
      BY <3>1, <3>2 DEF RequestType
  <2> QED
    BY <2>1, <2>2
<1> QED
  BY <1>1, <1>2

LEMMA ProcessKeeps ==
    ASSUME NEW k \in ConnType, NEW i \in 1 .. Len(k.requests)
    PROVE  Resent(k, ProcessRequest(k, i))
<1> DEFINE q == [k.requests EXCEPT ![i] = Posted(Renewed(@))]
<1>1. k.requests \in Seq(RequestType)
  BY DEF ConnType
<1>2. k.requests[i] \in RequestType
  BY <1>1, ElementOfSeq
<1>3. Same(q, k.requests)
  BY <1>1, <1>2, PostedKeeps, ExceptSeq DEF Same
<1>4. ProcessRequest(k, i) = [k EXCEPT !.requests = q]
  BY DEF ProcessRequest, ConnType
<1> QED
  BY <1>3, <1>4 DEF Resent

LEMMA ResentType ==
    ASSUME NEW k \in ConnType, NEW l, Resent(k, l)
    PROVE  /\ l \in ConnType /\ l = [k EXCEPT !.requests = l.requests]
           /\ Same(l.requests, k.requests)
<1>1. PICK q : l = [k EXCEPT !.requests = q] /\ Same(q, k.requests)
  BY DEF Resent
<1>2. q \in Seq(RequestType) /\ l.requests = q
  BY <1>1 DEF Same, ConnType
<1> QED
  BY <1>1, <1>2 DEF ConnType

LEMMA ResentTwice ==
    ASSUME NEW k \in ConnType, NEW l, Resent(k, l), NEW m, Resent(l, m)
    PROVE  Resent(k, m)
<1>1. PICK q : l = [k EXCEPT !.requests = q] /\ Same(q, k.requests)
  BY DEF Resent
<1>2. PICK p : m = [l EXCEPT !.requests = p] /\ Same(p, l.requests)
  BY DEF Resent
<1>3. l.requests = q
  BY <1>1 DEF ConnType
<1>4. Same(p, k.requests)
  BY <1>1, <1>2, <1>3 DEF Same
<1>5. m = [k EXCEPT !.requests = p]
  BY <1>1, <1>2 DEF ConnType
<1> QED
  BY <1>4, <1>5 DEF Resent

LEMMA ResentItself == ASSUME NEW k \in ConnType PROVE Resent(k, k)
  BY DEF Resent, Same, ConnType

LEMMA ThrottledKeeps ==
    ASSUME NEW k \in ConnType
    PROVE  Resent(k, Throttled(k))
<1> DEFINE first == IF Len(k.requests) > 0 THEN ProcessRequest(k, 1) ELSE k
<1>1. Len(k.requests) \in Nat
  BY LenProperties DEF ConnType
<1>2. Resent(k, first)
  BY <1>1, ProcessKeeps, ResentItself
<1>3. first \in ConnType /\ Len(first.requests) = Len(k.requests)
  BY <1>2, ResentType DEF Same
<1>4. Len(k.requests) > 1 => Resent(first, ProcessRequest(first, 2))
  <2> HIDE DEF first
  <2> QED
    BY <1>1, <1>3, ProcessKeeps
<1>5. \/ Throttled(k) = first
      \/ Len(k.requests) > 1 /\ Throttled(k) = ProcessRequest(first, 2)
  BY DEF Throttled
<1> QED
  <2> HIDE DEF first
  <2> QED
    BY <1>2, <1>4, <1>5, ResentTwice

(* What the invariant is about is the same.                                *)
Alike(k, l) ==
    /\ l \in ConnType
    /\ l.status = k.status /\ l.fails = k.fails /\ l.rid = k.rid /\ l.sid = k.sid
    /\ l.data = k.data /\ l.authenticated = k.authenticated
    /\ l.disconnecting = k.disconnecting /\ l.timer = k.timer /\ l.received = k.received
    /\ k.gaveUp => l.gaveUp
    /\ "confirm" \notin k.removing =>
          /\ "confirm" \notin l.removing
          /\ "confirm" \in k.handlers \cup k.adding => "confirm" \in l.handlers \cup l.adding

(* The queue is the same, or requests of it are gone.                      *)
Fewer(k, l) ==
    /\ Alike(k, l)
    /\ Len(l.requests) =< Len(k.requests)
    /\ \A i \in 1 .. Len(l.requests) : \E j \in i .. Len(k.requests) :
          /\ l.requests[i].rid = k.requests[j].rid /\ l.requests[i].sid = k.requests[j].sid
          /\ l.requests[i].body = k.requests[j].body /\ l.requests[i].func = k.requests[j].func
    /\ \A i, j \in 1 .. Len(l.requests) : j < i => l.requests[j].rid < l.requests[i].rid

LEMMA QueueLength == ASSUME NEW k \in ConnType PROVE Len(k.requests) \in Nat /\ k.requests \in Seq(RequestType)
  BY LenProperties DEF ConnType

LEMMA ElementType ==
    ASSUME NEW k \in ConnType, NEW i \in 1 .. Len(k.requests)
    PROVE  /\ k.requests[i] \in RequestType
           /\ k.requests[i].rid \in Nat /\ k.requests[i].sid \in BOOLEAN
           /\ k.requests[i].body \subseteq Stanzas /\ k.requests[i].func \in {"connect", "data"}
<1>1. k.requests[i] \in RequestType
  BY QueueLength, ElementOfSeq
<1> QED
  BY <1>1 DEF RequestType

LEMMA ResentFewer ==
    ASSUME NEW k \in ConnType, InOrder(k), NEW l, Resent(k, l)
    PROVE  Fewer(k, l)
<1>1. l \in ConnType /\ l = [k EXCEPT !.requests = l.requests] /\ Same(l.requests, k.requests)
  BY ResentType
<1>2. Alike(k, l)
  BY <1>1 DEF Alike, ConnType
<1> QED
  BY <1>1, <1>2, QueueLength DEF Fewer, Same, InOrder

LEMMA RemoveAtIs ==
    ASSUME NEW q \in Seq(RequestType), NEW i \in 1 .. Len(q)
    PROVE  /\ RemoveAt(q, i) \in Seq(RequestType) /\ Len(RemoveAt(q, i)) = Len(q) - 1
           /\ \A j \in 1 .. (Len(q) - 1) :
                 RemoveAt(q, i)[j] = IF j < i THEN q[j] ELSE q[j + 1]
<1>1. Len(q) \in Nat
  BY LenProperties
<1>2. /\ SubSeq(q, 1, i - 1) \in Seq(RequestType) /\ Len(SubSeq(q, 1, i - 1)) = i - 1
      /\ \A j \in 1 .. i - 1 : SubSeq(q, 1, i - 1)[j] = q[j]
  BY <1>1, SubSeqProperties, ElementOfSeq
<1>3. /\ SubSeq(q, i + 1, Len(q)) \in Seq(RequestType)
      /\ Len(SubSeq(q, i + 1, Len(q))) = Len(q) - i
      /\ \A j \in 1 .. Len(q) - i : SubSeq(q, i + 1, Len(q))[j] = q[i + j]
  BY <1>1, SubSeqProperties, ElementOfSeq
<1> DEFINE a == SubSeq(q, 1, i - 1)
           b == SubSeq(q, i + 1, Len(q))
<1>4. RemoveAt(q, i) = a \o b
  BY DEF RemoveAt
<1>5. /\ a \in Seq(RequestType) /\ Len(a) = i - 1
      /\ \A j \in 1 .. i - 1 : a[j] = q[j]
  BY <1>2
<1>6. /\ b \in Seq(RequestType) /\ Len(b) = Len(q) - i
      /\ \A j \in 1 .. Len(q) - i : b[j] = q[i + j]
  BY <1>3
<1> HIDE DEF a, b
<1>7. /\ a \o b \in Seq(RequestType) /\ Len(a \o b) = Len(a) + Len(b)
      /\ \A j \in 1 .. Len(a) + Len(b) : (a \o b)[j] = IF j =< Len(a) THEN a[j] ELSE b[j - Len(a)]
  BY <1>5, <1>6, ConcatProperties
<1>8. ASSUME NEW j \in 1 .. (Len(q) - 1)
      PROVE  (a \o b)[j] = IF j < i THEN q[j] ELSE q[j + 1]
  <2>1. CASE j < i
    BY <2>1, <1>1, <1>5, <1>6, <1>7
  <2>2. CASE ~(j < i)
    <3>1. j - Len(a) \in 1 .. Len(q) - i /\ i + (j - Len(a)) = j + 1
      BY <2>2, <1>1, <1>5
    <3>2. b[j - Len(a)] = q[j + 1]
      BY <3>1, <1>6
    <3>3. j \in 1 .. Len(a) + Len(b) /\ ~(j =< Len(a))
      BY <2>2, <1>1, <1>5, <1>6
    <3> QED
      BY <2>2, <3>2, <3>3, <1>7
  <2> QED
    BY <2>1, <2>2
<1> QED
  BY <1>1, <1>4, <1>5, <1>6, <1>7, <1>8

LEMMA RemoveRequestKeeps ==
    ASSUME NEW k \in ConnType, InOrder(k), NEW i \in 1 .. Len(k.requests)
    PROVE  /\ Fewer(k, RemoveRequest(k, i))
           /\ Len(RemoveRequest(k, i).requests) = Len(k.requests) - 1
           /\ Rids(RemoveRequest(k, i)) = Rids(k) \ {k.requests[i].rid}
<1> DEFINE q == RemoveAt(k.requests, i)
           l == [k EXCEPT !.requests = q]
           m == RemoveRequest(k, i)
<1>1. k.requests \in Seq(RequestType) /\ Len(k.requests) \in Nat
  BY QueueLength
<1>2. /\ q \in Seq(RequestType) /\ Len(q) = Len(k.requests) - 1
      /\ \A j \in 1 .. (Len(k.requests) - 1) :
            q[j] = IF j < i THEN k.requests[j] ELSE k.requests[j + 1]
  BY <1>1, RemoveAtIs
<1> HIDE DEF q
<1>3. l \in ConnType /\ l.requests = q
  BY <1>2 DEF ConnType
<1>4. m = Throttled(l)
  BY DEF RemoveRequest, q
<1> HIDE DEF l
<1>5. m \in ConnType /\ m = [l EXCEPT !.requests = m.requests] /\ Same(m.requests, q)
  BY <1>3, <1>4, ThrottledKeeps, ResentType
<1>6. m = [k EXCEPT !.requests = m.requests]
  BY <1>5 DEF l, ConnType
<1> HIDE DEF m
<1>7. Len(m.requests) = Len(k.requests) - 1
  BY <1>2, <1>5 DEF Same
<1>8. \A j \in 1 .. (Len(k.requests) - 1) :
         LET p == IF j < i THEN j ELSE j + 1 IN
         /\ m.requests[j].rid = k.requests[p].rid /\ m.requests[j].sid = k.requests[p].sid
         /\ m.requests[j].body = k.requests[p].body /\ m.requests[j].func = k.requests[p].func
  BY <1>2, <1>5 DEF Same
<1>9. Fewer(k, m)
  <2>1. \A a \in 1 .. Len(m.requests) : \E j \in a .. Len(k.requests) :
          /\ m.requests[a].rid = k.requests[j].rid /\ m.requests[a].sid = k.requests[j].sid
          /\ m.requests[a].body = k.requests[j].body /\ m.requests[a].func = k.requests[j].func
    BY <1>1, <1>7, <1>8
  <2>2. \A a, j \in 1 .. Len(m.requests) : j < a => m.requests[j].rid < m.requests[a].rid
    BY <1>1, <1>7, <1>8 DEF InOrder
  <2>3. Alike(k, m)
    BY <1>5, <1>6 DEF Alike, ConnType
  <2> QED
    BY <1>1, <1>7, <2>1, <2>2, <2>3 DEF Fewer
<1>10. Rids(m) = Rids(k) \ {k.requests[i].rid}
  <2>1. DOMAIN k.requests = 1 .. Len(k.requests) /\ DOMAIN m.requests = 1 .. Len(m.requests)
    BY <1>1, <1>5, QueueLength, LenProperties
  <2>2. \A a, b \in 1 .. Len(k.requests) : a # b => k.requests[a].rid # k.requests[b].rid
    <3>1. \A a \in 1 .. Len(k.requests) : k.requests[a].rid \in Nat
      BY ElementType
    <3> QED
      BY <3>1, <1>1 DEF InOrder
  <2>3. ASSUME NEW j \in 1 .. (Len(k.requests) - 1)
        PROVE  m.requests[j].rid \in Rids(k) \ {k.requests[i].rid}
    <3>1. CASE j < i
      <4>1. j \in 1 .. Len(k.requests) /\ j # i
        BY <3>1, <1>1
      <4>2. m.requests[j].rid = k.requests[j].rid
        BY <3>1, <1>8
      <4> QED
        BY <4>1, <4>2, <2>1, <2>2 DEF Rids
    <3>2. CASE ~(j < i)
      <4>1. j + 1 \in 1 .. Len(k.requests) /\ j + 1 # i
        BY <3>2, <1>1
      <4> QED
        BY <3>2, <4>1, <1>8, <2>1, <2>2 DEF Rids
    <3> QED
      BY <3>1, <3>2
  <2>4. ASSUME NEW j \in 1 .. Len(k.requests), j # i PROVE k.requests[j].rid \in Rids(m)
    <3>1. CASE j < i
      <4>1. j \in 1 .. (Len(k.requests) - 1)
        BY <3>1, <1>1
      <4>2. m.requests[j].rid = k.requests[j].rid
        BY <3>1, <4>1, <1>8
      <4> QED
        BY <4>1, <4>2, <1>7, <2>1 DEF Rids
    <3>2. CASE j > i
      <4>1. j - 1 \in 1 .. (Len(k.requests) - 1) /\ ~(j - 1 < i) /\ (j - 1) + 1 = j
        BY <3>2, <1>1
      <4>2. m.requests[j - 1].rid = k.requests[j].rid
        BY <4>1, <1>8
      <4> QED
        BY <4>1, <4>2, <1>7, <2>1 DEF Rids
    <3> QED
      BY <3>1, <3>2, <2>4
  <2> QED
    BY <1>7, <2>1, <2>3, <2>4 DEF Rids
<1> QED
  BY <1>7, <1>9, <1>10 DEF m

------------------------------------------------------------------------------
(* The invariant of a client with fewer requests or a server with fewer    *)
(* answers.                                                                *)
Without(s, D) == [s EXCEPT !.cache = [r \in DOMAIN s.cache \cap D |-> s.cache[r]]]

LEMMA WithoutIs ==
    ASSUME NEW s \in SrvType, NEW D
    PROVE  /\ Without(s, D) \in SrvType
           /\ DOMAIN Without(s, D).cache = DOMAIN s.cache \cap D
           /\ \A r \in DOMAIN s.cache \cap D : Without(s, D).cache[r] = s.cache[r]
           /\ Without(s, D).alive = s.alive /\ Without(s, D).next = s.next
           /\ Without(s, D).open = s.open /\ Without(s, D).out = s.out
           /\ Without(s, D).sent = s.sent /\ Without(s, D).online = s.online
           /\ Without(s, D).offered = s.offered
<1> DEFINE c == [r \in DOMAIN s.cache \cap D |-> s.cache[r]]
<1>1. PICK E \in SUBSET Nat : s.cache \in [E -> AnswerType]
  BY DEF SrvType
<1>2. c \in [E \cap D -> AnswerType] /\ E \cap D \in SUBSET Nat
  BY <1>1
<1>3. c \in UNION {[F -> AnswerType] : F \in SUBSET Nat}
  BY <1>2
<1>4. /\ DOMAIN c = DOMAIN s.cache \cap D
      /\ \A r \in DOMAIN s.cache \cap D : c[r] = s.cache[r]
  OBVIOUS
<1>5. Without(s, D) = [s EXCEPT !.cache = c]
  BY DEF Without
<1> HIDE DEF c
<1>6. Without(s, D) \in SrvType /\ Without(s, D).cache = c
  BY <1>3, <1>5 DEF SrvType
<1> QED
  BY <1>4, <1>5, <1>6 DEF SrvType

LEMMA KeptWithout ==
    ASSUME NEW k, NEW s, Kept(k, s), NEW D
    PROVE  Kept(k, Without(s, D))
<1> DEFINE t == Without(s, D)
<1>1. k \in ConnType /\ s \in SrvType
  BY DEF Kept
<1>2. /\ t \in SrvType /\ DOMAIN t.cache \subseteq DOMAIN s.cache
      /\ \A r \in DOMAIN t.cache : t.cache[r] = s.cache[r]
      /\ t.alive = s.alive /\ t.next = s.next /\ t.open = s.open /\ t.out = s.out
      /\ t.sent = s.sent /\ t.online = s.online /\ t.offered = s.offered
  BY <1>1, WithoutIs
<1> HIDE DEF t
<1>3. Bodies(k, t)
  BY <1>2 DEF Kept, Bodies
<1>4. Online(k, t) /\ Open(k, t)
  BY <1>2 DEF Kept, Online, Open
<1>5. LoginOnItsWay(k, t)
  BY <1>2 DEF Kept, LoginOnItsWay
<1>6. OnePlace(k, t)
  BY <1>2 DEF Kept, OnePlace
<1>7. Terminated(k, t)
  BY <1>2 DEF Kept, Terminated
<1> QED
  BY <1>2, <1>3, <1>4, <1>5, <1>6, <1>7 DEF Kept, t

LEMMA KeptFewer ==
    ASSUME NEW k, NEW s, Kept(k, s), NEW l, Fewer(k, l),
           \A r \in DOMAIN s.cache : s.cache[r].items # <<>> /\ r \in Rids(k) => r \in Rids(l)
    PROVE  Kept(l, s)
<1>1. k \in ConnType /\ s \in SrvType /\ l \in ConnType
  BY DEF Kept, Fewer, Alike
<1>2. /\ l.status = k.status /\ l.rid = k.rid /\ l.sid = k.sid /\ l.data = k.data
      /\ l.authenticated = k.authenticated /\ l.disconnecting = k.disconnecting
      /\ l.timer = k.timer /\ l.received = k.received /\ l.fails = k.fails
      /\ "confirm" \notin k.removing =>
            /\ "confirm" \notin l.removing
            /\ "confirm" \in k.handlers \cup k.adding => "confirm" \in l.handlers \cup l.adding
  BY DEF Fewer, Alike
<1>3. /\ Len(k.requests) \in Nat /\ Len(l.requests) \in Nat
      /\ \A i \in 1 .. Len(l.requests) : l.requests[i].rid \in Nat
      /\ \A i \in 1 .. Len(k.requests) : k.requests[i].rid \in Nat
  BY <1>1, QueueLength, ElementType
<1>4. /\ Len(l.requests) =< Len(k.requests)
      /\ \A i \in 1 .. Len(l.requests) : \E j \in 1 .. Len(k.requests) :
            /\ l.requests[i].rid = k.requests[j].rid /\ l.requests[i].sid = k.requests[j].sid
            /\ l.requests[i].body = k.requests[j].body /\ l.requests[i].func = k.requests[j].func
      /\ \A i, j \in 1 .. Len(l.requests) : j < i => l.requests[j].rid < l.requests[i].rid
  BY <1>3 DEF Fewer
<1>5. InOrder(l)
  BY <1>2, <1>3, <1>4 DEF Kept, InOrder
<1>6. OneAtATime(l)
  <2>1. Len(l.data) \in Nat
    BY <1>1, LenProperties DEF ConnType
  <2>2. k.requests = <<>> => l.requests = <<>>
    BY <1>1, <1>3, <1>4, QueueLength, EmptySeq
  <2>3. (LoggingIn(l) <=> LoggingIn(k)) /\ (Before(l) <=> Before(k)) /\ OneAtATime(k)
    BY <1>2 DEF Kept, LoggingIn, Before
  <2>4. ASSUME LoggingIn(k)
        PROVE  /\ Len(l.requests) + Len(l.data) =< 1
               /\ l.data # <<>> => l.sid
               /\ \A i \in 1 .. Len(l.requests) :
                     \/ l.requests[i].sid /\ l.sid
                     \/ l.requests[i].rid = 1 /\ l.requests[i].func = "connect"
    <3>1. Len(k.requests) + Len(k.data) =< 1
      BY <2>3, <2>4 DEF OneAtATime
    <3>5. k.data # <<>> => k.sid
      BY <2>3, <2>4 DEF OneAtATime
    <3>6. \A i \in 1 .. Len(k.requests) :
             \/ k.requests[i].sid /\ k.sid
             \/ k.requests[i].rid = 1 /\ k.requests[i].func = "connect"
      BY <2>3, <2>4 DEF OneAtATime
    <3>2. \A i \in 1 .. Len(l.requests) :
             \/ l.requests[i].sid /\ l.sid
             \/ l.requests[i].rid = 1 /\ l.requests[i].func = "connect"
      <4>1. ASSUME NEW i \in 1 .. Len(l.requests)
            PROVE  \/ l.requests[i].sid /\ l.sid
                   \/ l.requests[i].rid = 1 /\ l.requests[i].func = "connect"
        <5>1. PICK j \in 1 .. Len(k.requests) :
                /\ l.requests[i].rid = k.requests[j].rid /\ l.requests[i].sid = k.requests[j].sid
                /\ l.requests[i].func = k.requests[j].func
          BY <1>4
        <5>2. l.sid = k.sid
          BY <1>2
        <5> QED
          BY <5>1, <5>2, <3>6
      <4> QED
        BY <4>1
    <3>3. Len(l.requests) =< Len(k.requests) /\ l.data = k.data
      BY <1>2 DEF Fewer
    <3>4. Len(l.requests) + Len(l.data) =< 1
      BY <1>1, <1>3, <2>1, <3>1, <3>3 DEF ConnType
    <3>7. l.data # <<>> => l.sid
      BY <1>2, <3>5
    <3> QED
      BY <3>2, <3>4, <3>7
  <2> QED
    BY <1>2, <2>2, <2>3, <2>4 DEF OneAtATime
<1>7. Standing(l)
  BY <1>2 DEF Kept, Standing
<1>8. Queued(l)
  BY <1>2, <1>4 DEF Kept, Queued, LoggingIn, Before
<1>9. Bodies(l, s)
  BY <1>2, <1>4 DEF Kept, Bodies, LoggingIn
<1>10. Online(l, s) /\ Open(l, s)
  BY <1>2 DEF Kept, Online, LoggingIn, Before, Open
<1>11. LoginOnItsWay(l, s)
  <2>1. ASSUME NEW r \in DOMAIN s.cache, NEW i \in 1 .. Len(s.cache[r].items),
               s.cache[r].items[i] \in LoginItems
        PROVE  LoggingIn(l) /\ Len(s.cache[r].items) = 1 /\ r \in Rids(l)
    <3>1. LoggingIn(k) /\ Len(s.cache[r].items) = 1 /\ r \in Rids(k)
      BY <2>1 DEF Kept, LoginOnItsWay
    <3>2. s.cache[r].items # <<>>
      BY <3>1
    <3> QED
      BY <1>2, <3>1, <3>2 DEF LoggingIn
  <2> QED
    BY <1>2, <1>4, <2>1 DEF Kept, LoginOnItsWay, LoggingIn
<1>12. OnePlace(l, s) /\ Terminated(l, s)
  BY <1>2 DEF Kept, OnePlace, Terminated
<1> QED
  BY <1>1, <1>5, <1>6, <1>7, <1>8, <1>9, <1>10, <1>11, <1>12 DEF Kept

------------------------------------------------------------------------------
(* A request more.                                                         *)
Longer(q, k, body, func) ==
    /\ q \in Seq(RequestType) /\ Len(q) = Len(k.requests) + 1
    /\ \A i \in 1 .. Len(k.requests) :
          /\ q[i].rid = k.requests[i].rid /\ q[i].sid = k.requests[i].sid
          /\ q[i].body = k.requests[i].body /\ q[i].func = k.requests[i].func
    /\ q[Len(k.requests) + 1].rid = k.rid /\ q[Len(k.requests) + 1].sid = k.sid
    /\ q[Len(k.requests) + 1].body = body /\ q[Len(k.requests) + 1].func = func

LEMMA RequestIs ==
    ASSUME NEW rid \in Nat, NEW sid \in BOOLEAN, NEW body \in SUBSET Stanzas,
           NEW func \in {"connect", "data"}
    PROVE  /\ Request(rid, sid, body, func) \in RequestType
           /\ Request(rid, sid, body, func).rid = rid /\ Request(rid, sid, body, func).sid = sid
           /\ Request(rid, sid, body, func).body = body /\ Request(rid, sid, body, func).func = func
  BY DEF Request, RequestType, MaxSends

LEMMA PushIs ==
    ASSUME NEW k \in ConnType, NEW body \in SUBSET Stanzas, NEW func \in {"connect", "data"}
    PROVE  /\ Push(k, body, func) \in ConnType
           /\ Push(k, body, func) = [k EXCEPT !.requests = Push(k, body, func).requests, !.rid = k.rid + 1]
           /\ Longer(Push(k, body, func).requests, k, body, func)
<1> DEFINE r == Request(k.rid, k.sid, body, func)
           q == Append(k.requests, r)
<1>1. /\ r \in RequestType
      /\ r.rid = k.rid /\ r.sid = k.sid /\ r.body = body /\ r.func = func
  <2>1. k.rid \in Nat /\ k.sid \in BOOLEAN
    BY DEF ConnType
  <2> QED
    BY <2>1, RequestIs
<1> HIDE DEF r
<1>2. k.requests \in Seq(RequestType) /\ Len(k.requests) \in Nat
  BY QueueLength
<1>3. /\ q \in Seq(RequestType) /\ Len(q) = Len(k.requests) + 1
      /\ \A i \in 1 .. Len(k.requests) : q[i] = k.requests[i]
      /\ q[Len(k.requests) + 1] = r
  BY <1>1, <1>2, AppendProperties
<1> HIDE DEF q
<1>4. Longer(q, k, body, func)
  BY <1>1, <1>3 DEF Longer
<1>5. Push(k, body, func) = [k EXCEPT !.requests = q, !.rid = k.rid + 1]
  BY DEF Push, q, r, ConnType
<1>6. k.rid + 1 \in Nat
  BY DEF ConnType
<1>7. Push(k, body, func) \in ConnType /\ Push(k, body, func).requests = q
  BY <1>3, <1>5, <1>6 DEF ConnType
<1> QED
  BY <1>4, <1>5, <1>7

LEMMA ThrottledPush ==
    ASSUME NEW k \in ConnType, NEW body \in SUBSET Stanzas, NEW func \in {"connect", "data"}
    PROVE  \E q : /\ Throttled(Push(k, body, func)) = [k EXCEPT !.requests = q, !.rid = k.rid + 1]
                  /\ Longer(q, k, body, func)
<1> DEFINE l == Push(k, body, func)
           m == Throttled(l)
<1>1. /\ l \in ConnType /\ l = [k EXCEPT !.requests = l.requests, !.rid = k.rid + 1]
      /\ Longer(l.requests, k, body, func)
  BY PushIs
<1> HIDE DEF l
<1>2. m \in ConnType /\ m = [l EXCEPT !.requests = m.requests] /\ Same(m.requests, l.requests)
  BY <1>1, ThrottledKeeps, ResentType
<1> HIDE DEF m
<1>3. m = [k EXCEPT !.requests = m.requests, !.rid = k.rid + 1]
  BY <1>1, <1>2 DEF ConnType
<1>4. Longer(m.requests, k, body, func)
  <2>1. Len(k.requests) \in Nat
    BY QueueLength
  <2> QED
    BY <1>1, <1>2, <2>1 DEF Longer, Same
<1> QED
  BY <1>3, <1>4 DEF l, m

------------------------------------------------------------------------------
(* The end of a connection.                                                *)
NoItems(s) == s.out = <<>> /\ \A r \in DOMAIN s.cache : s.cache[r].items = <<>>

(* A login that ends has nothing left on its way.                          *)
Settled(k, s) == LoggingIn(k) => k.requests = <<>> /\ k.data = <<>> /\ NoItems(s)

(* CONNFAIL is told once.                                                  *)
Told(k, l, s) ==
    \/ l.fails = k.fails
    \/ /\ k.fails = 0 /\ l.fails = 1 /\ ~s.alive
       /\ \A r \in DOMAIN s.cache : s.cache[r].kind # "terminate"

Ended(k, l) ==
    /\ l \in ConnType /\ l.status = "DISCONNECTED"
    /\ l.requests = k.requests /\ l.data = k.data /\ l.rid > k.rid
    /\ ~l.authenticated /\ ~l.disconnecting /\ ~l.timer
    /\ l.handlers = {} /\ l.adding = {} /\ l.removing = {}
    /\ l.received = k.received

LEMMA FreshRidAbove == ASSUME NEW n \in Nat PROVE FreshRid(n) \in Nat /\ FreshRid(n) > n
  BY DEF FreshRid

LEMMA DoDisconnectIs ==
    ASSUME NEW k \in ConnType
    PROVE  Ended(k, DoDisconnect(k)) /\ DoDisconnect(k).fails = k.fails
<1> DEFINE f == FreshRid(k.rid)
<1>1. f \in Nat /\ f > k.rid
  BY FreshRidAbove DEF ConnType
<1>2. DoDisconnect(k) =
        [k EXCEPT !.timer = FALSE, !.sid = FALSE, !.rid = f, !.authenticated = FALSE,
                  !.disconnecting = FALSE, !.handlers = {}, !.adding = {}, !.removing = {},
                  !.status = "DISCONNECTED", !.fails = k.fails, !.connected = FALSE]
  BY DEF DoDisconnect, Tell, ConnType
<1> HIDE DEF f
<1>3. DoDisconnect(k) \in ConnType
  BY <1>1, <1>2 DEF ConnType, Statuses
<1>4. DoDisconnect(k).rid = f
  BY <1>2 DEF ConnType
<1>5. DoDisconnect(k).rid > k.rid
  BY <1>1, <1>4
<1>6. LET l == DoDisconnect(k) IN
      /\ l.status = "DISCONNECTED" /\ l.requests = k.requests /\ l.data = k.data
      /\ ~l.authenticated /\ ~l.disconnecting /\ ~l.timer
      /\ l.handlers = {} /\ l.adding = {} /\ l.removing = {}
      /\ l.received = k.received /\ l.fails = k.fails
  BY <1>2 DEF ConnType
<1> QED
  BY <1>3, <1>5, <1>6 DEF Ended

LEMMA KeptEnded ==
    ASSUME NEW k, NEW s, Kept(k, s), Settled(k, s), NEW l, Ended(k, l), Told(k, l, s)
    PROVE  Kept(l, s)
<1>1. k \in ConnType /\ s \in SrvType /\ l \in ConnType
  BY DEF Kept, Ended
<1>2. ~LoggingIn(l) /\ ~Before(l)
  BY DEF Ended, LoggingIn, Before
<1>3. InOrder(l)
  <2>1. k.rid \in Nat /\ l.rid \in Nat /\ l.rid > k.rid
    BY <1>1 DEF ConnType, Ended
  <2>2. \A i \in 1 .. Len(k.requests) : k.requests[i].rid \in Nat
    BY <1>1, ElementType
  <2>3. \A i \in 1 .. Len(l.requests) : l.requests[i].rid < l.rid
    BY <1>1, <2>1, <2>2 DEF Kept, InOrder, Ended, ConnType
  <2> QED
    BY <2>3 DEF Kept, InOrder, Ended
<1>4. OneAtATime(l)
  BY <1>2 DEF OneAtATime
<1>5. Standing(l)
  BY DEF Ended, Standing
<1>6. Queued(l)
  <2>1. LoggingIn(k) => k.requests = <<>> /\ k.data = <<>>
    BY DEF Settled
  <2>2. LoggingIn(k) => Len(k.requests) = 0 /\ ToSet(k.data) = {}
    BY <2>1 DEF ToSet
  <2> QED
    BY <1>1, <1>2, <2>2 DEF Kept, Queued, Ended
<1>7. Bodies(l, s)
  <2>1. LoggingIn(k) => Len(k.requests) = 0
    BY DEF Settled
  <2> QED
    BY <1>2, <2>1 DEF Kept, Bodies, Ended
<1>8. Online(l, s) /\ Open(l, s)
  <2>1. k.rid \in Nat /\ l.rid \in Nat /\ s.next \in Nat /\ l.rid > k.rid /\ s.next =< k.rid
    BY <1>1 DEF ConnType, SrvType, Ended, Kept, Open
  <2>2. s.next =< l.rid
    BY <2>1
  <2> QED
    BY <1>2, <2>2 DEF Kept, Online, Open
<1>9. LoginOnItsWay(l, s)
  <2>1. LoggingIn(k) => Len(s.out) = 0 /\ \A r \in DOMAIN s.cache : Len(s.cache[r].items) = 0
    BY DEF Settled, NoItems
  <2> QED
    BY <1>2, <2>1 DEF Kept, LoginOnItsWay
<1>10. OnePlace(l, s)
  BY DEF Kept, OnePlace, Ended
<1>11. Terminated(l, s)
  BY DEF Kept, Terminated, Told
<1> QED
  BY <1>1, <1>3, <1>4, <1>5, <1>6, <1>7, <1>8, <1>9, <1>10, <1>11 DEF Kept

(* A client that says goodbye, with a request of its own or without.       *)
Closing(k, l) ==
    /\ l \in ConnType /\ l.status = "DISCONNECTING"
    /\ l.data = k.data /\ l.sid = k.sid /\ l.authenticated = k.authenticated
    /\ l.received = k.received /\ "confirm" \notin l.removing
    /\ \/ l.requests = k.requests /\ l.rid = k.rid
       \/ /\ l.rid = k.rid + 1
          /\ \E body \in {{"unavailable", "terminate"}, {"terminate"}} :
                Longer(l.requests, k, body, "data")

LEMMA DisconnectIs ==
    ASSUME NEW k \in ConnType, NEW j \in ConnType, "confirm" \notin j.removing,
           j.requests = k.requests, j.rid = k.rid, j.sid = k.sid, j.data = k.data,
           j.authenticated = k.authenticated, j.received = k.received
    PROVE  Closing(k, Disconnect(j)) /\ Disconnect(j).fails = j.fails
<1> DEFINE told == Tell(j, "DISCONNECTING")
           up == [told EXCEPT !.disconnecting = TRUE, !.timer = TRUE]
           body == IF j.authenticated THEN {"unavailable", "terminate"} ELSE {"terminate"}
<1>1. told = [j EXCEPT !.status = "DISCONNECTING", !.fails = j.fails]
  BY DEF Tell
<1>2. told \in ConnType /\ up \in ConnType
  BY <1>1 DEF ConnType, Statuses
<1>3. CASE ~j.connected
  <2>1. Disconnect(j) = told
    BY <1>3 DEF Disconnect
  <2>2. /\ told.requests = j.requests /\ told.rid = j.rid /\ told.fails = j.fails
        /\ told.status = "DISCONNECTING" /\ told.data = j.data /\ told.sid = j.sid
        /\ told.authenticated = j.authenticated /\ told.received = j.received
        /\ told.removing = j.removing
    BY <1>1 DEF ConnType
  <2> QED
    BY <1>2, <2>1, <2>2 DEF Closing
<1>4. CASE j.connected
  <2>1. Disconnect(j) = Throttled(Push(up, body, "data"))
    BY <1>4 DEF Disconnect, SendTerminate
  <2>2. body \in SUBSET Stanzas /\ body \in {{"unavailable", "terminate"}, {"terminate"}}
    BY DEF Stanzas
  <2> HIDE DEF body
  <2>3. PICK q : /\ Disconnect(j) = [up EXCEPT !.requests = q, !.rid = up.rid + 1]
                 /\ Longer(q, up, body, "data")
    <3> HIDE DEF up
    <3> QED
      BY <1>2, <2>1, <2>2, ThrottledPush
  <2>4. up = [j EXCEPT !.status = "DISCONNECTING", !.fails = j.fails,
                       !.disconnecting = TRUE, !.timer = TRUE]
    BY <1>1 DEF ConnType
  <2>5. up.requests = k.requests /\ up.rid = k.rid /\ up.sid = k.sid
    BY <2>4 DEF ConnType
  <2>6. q \in Seq(RequestType) /\ Longer(q, k, body, "data")
    BY <2>3, <2>5 DEF Longer
  <2>7. k.rid + 1 \in Nat
    BY DEF ConnType
  <2>8. Disconnect(j) = [j EXCEPT !.status = "DISCONNECTING", !.fails = j.fails,
                                  !.disconnecting = TRUE, !.timer = TRUE,
                                  !.requests = q, !.rid = k.rid + 1]
    BY <2>3, <2>4, <2>5 DEF ConnType
  <2>9. Disconnect(j) \in ConnType
    BY <2>6, <2>7, <2>8 DEF ConnType, Statuses
  <2>10. /\ Disconnect(j).requests = q /\ Disconnect(j).rid = k.rid + 1
         /\ Disconnect(j).status = "DISCONNECTING" /\ Disconnect(j).fails = j.fails
         /\ Disconnect(j).data = k.data /\ Disconnect(j).sid = k.sid
         /\ Disconnect(j).authenticated = k.authenticated
         /\ Disconnect(j).received = k.received /\ "confirm" \notin Disconnect(j).removing
    BY <2>8 DEF ConnType
  <2> QED
    BY <2>2, <2>6, <2>9, <2>10 DEF Closing
<1> QED
  BY <1>3, <1>4

(* The queue with one request more is in order.                            *)
LEMMA LongerInOrder ==
    ASSUME NEW k \in ConnType, InOrder(k), Len(k.requests) =< 1, NEW l \in ConnType,
           l.rid = k.rid + 1, NEW body, NEW func, Longer(l.requests, k, body, func)
    PROVE  InOrder(l)
<1>1. k.rid \in Nat /\ Len(k.requests) \in Nat
  BY QueueLength DEF ConnType
<1>2. \A i \in 1 .. Len(k.requests) : k.requests[i].rid \in Nat
  BY ElementType
<1>3. /\ Len(l.requests) = Len(k.requests) + 1
      /\ \A i \in 1 .. Len(k.requests) : l.requests[i].rid = k.requests[i].rid
      /\ l.requests[Len(k.requests) + 1].rid = k.rid
  BY DEF Longer
<1>4. \A i \in 1 .. Len(k.requests) : k.requests[i].rid < k.rid
  BY DEF InOrder
<1>5. l.rid = k.rid + 1
  OBVIOUS
<1>6. CASE Len(k.requests) = 0
  <2>1. Len(l.requests) = 1 /\ l.requests[1].rid = k.rid
    BY <1>3, <1>6
  <2> QED
    BY <1>1, <1>5, <2>1 DEF InOrder
<1>7. CASE Len(k.requests) = 1
  <2>1. Len(l.requests) = 2 /\ l.requests[2].rid = k.rid /\ l.requests[1].rid < k.rid
        /\ l.requests[1].rid \in Nat
    BY <1>2, <1>3, <1>4, <1>7
  <2> QED
    BY <1>1, <1>5, <2>1 DEF InOrder
<1>8. Len(k.requests) = 0 \/ Len(k.requests) = 1
  <2>1. \A n \in Nat : n =< 1 => n = 0 \/ n = 1
    OBVIOUS
  <2>2. Len(k.requests) =< 1
    OBVIOUS
  <2> QED
    BY <1>1, <2>1, <2>2
<1> QED
  BY <1>6, <1>7, <1>8

LEMMA KeptClosing ==
    ASSUME NEW k, NEW s, Kept(k, s), Settled(k, s), Len(k.requests) =< 1,
           NEW l, Closing(k, l), Told(k, l, s)
    PROVE  Kept(l, s)
<1>1. k \in ConnType /\ s \in SrvType /\ l \in ConnType
  BY DEF Kept, Closing
<1>2. ~LoggingIn(l) /\ ~Before(l)
  BY DEF Closing, LoggingIn, Before
<1>3. ASSUME l.requests = k.requests /\ l.rid = k.rid
      PROVE  InOrder(l) /\ Queued(l) /\ Bodies(l, s) /\ Open(l, s)
  <2>1. InOrder(l)
    BY <1>3 DEF Kept, InOrder
  <2>2. LoggingIn(k) => Len(k.requests) = 0 /\ ToSet(k.data) = {}
    BY DEF Settled, ToSet
  <2>3. Queued(l)
    BY <1>1, <1>2, <1>3, <2>2 DEF Kept, Queued, Closing
  <2>4. Bodies(l, s)
    BY <1>2, <1>3, <2>2 DEF Kept, Bodies, Closing
  <2>5. Open(l, s)
    BY <1>3 DEF Kept, Open
  <2> QED
    BY <2>1, <2>3, <2>4, <2>5
<1>4. ASSUME l.rid = k.rid + 1,
             \E body \in {{"unavailable", "terminate"}, {"terminate"}} :
                Longer(l.requests, k, body, "data")
      PROVE  InOrder(l) /\ Queued(l) /\ Bodies(l, s) /\ Open(l, s)
  <2>1. PICK body \in {{"unavailable", "terminate"}, {"terminate"}} :
                Longer(l.requests, k, body, "data")
    BY <1>4
  <2>2. InOrder(l)
    BY <1>1, <1>4, <2>1, LongerInOrder DEF Kept
  <2>3. Len(k.requests) \in Nat
    BY <1>1, QueueLength
  <2>4. LoggingIn(k) => Len(k.requests) = 0 /\ ToSet(k.data) = {}
    BY DEF Settled, ToSet
  <2>5. "presence" \notin body /\ body \cap LoginStanzas = {} /\ "terminate" \in body
    BY DEF LoginStanzas
  <2>6. ASSUME NEW i \in 1 .. Len(l.requests)
        PROVE  /\ l.requests[i].func # "connect" 
               /\ l.requests[i].rid >= s.next => l.requests[i].body \cap LoginStanzas = {}
               /\ ~s.offered => "terminate" \in l.requests[i].body
    <3>1. CASE i = Len(k.requests) + 1
      BY <2>1, <2>5, <3>1 DEF Longer
    <3>2. CASE i \in 1 .. Len(k.requests)
      <4>1. ~LoggingIn(k)
        BY <2>3, <2>4, <3>2
      <4> QED
        BY <2>1, <3>2, <4>1 DEF Longer, Kept, Queued, Bodies
    <3> QED
      BY <2>1, <2>3, <3>1, <3>2 DEF Longer
  <2>7. Queued(l)
    BY <1>2, <2>4, <2>6 DEF Queued, Kept, Closing
  <2>8. Bodies(l, s)
    BY <1>2, <2>6 DEF Bodies, Kept, Closing
  <2>9. Open(l, s)
    <3>1. k.rid \in Nat /\ s.next \in Nat /\ s.next =< k.rid
      BY <1>1 DEF ConnType, SrvType, Kept, Open
    <3>2. s.next =< l.rid
      BY <1>4, <3>1
    <3> QED
      BY <3>2 DEF Kept, Open
  <2> QED
    BY <2>2, <2>7, <2>8, <2>9
<1>5. InOrder(l) /\ Queued(l) /\ Bodies(l, s) /\ Open(l, s)
  BY <1>3, <1>4 DEF Closing
<1>6. OneAtATime(l) /\ Standing(l) /\ Online(l, s)
  BY <1>2 DEF OneAtATime, Closing, Standing, Kept, Online
<1>7. LoginOnItsWay(l, s)
  <2>1. LoggingIn(k) => Len(s.out) = 0 /\ \A r \in DOMAIN s.cache : Len(s.cache[r].items) = 0
    BY DEF Settled, NoItems
  <2> QED
    BY <1>2, <2>1 DEF Kept, LoginOnItsWay
<1>8. OnePlace(l, s) /\ Terminated(l, s)
  BY DEF Kept, OnePlace, Closing, Terminated, Told
<1> QED
  BY <1>1, <1>5, <1>6, <1>7, <1>8 DEF Kept

------------------------------------------------------------------------------
(* A step of the login, by a client whose queue is empty: it goes on, with *)
(* a stanza to send or without, it failed, or the connection is open.      *)
Decided(k, l) ==
    /\ l \in ConnType /\ l.requests = <<>> /\ l.rid = k.rid /\ l.sid
    /\ l.fails = k.fails /\ l.received = k.received /\ l.gaveUp = k.gaveUp
    /\ l.disconnecting = k.disconnecting /\ l.timer = k.timer
    /\ "confirm" \notin l.removing
    /\ \/ LoggingIn(l) /\ ~l.authenticated /\ l.data = <<>>
       \/ LoggingIn(l) /\ ~l.authenticated /\ \E st \in LoginStanzas : l.data = <<st>>
       \/ l.status = "AUTHFAIL" /\ ~l.authenticated /\ l.data = <<>>
       \/ l.status = "CONNECTED" /\ l.authenticated /\ l.data = <<"presence">>
          /\ "confirm" \in l.adding

(* A login that waits for an answer.                                       *)
Pending(k, l) ==
    /\ l \in ConnType /\ l.requests = <<>> /\ l.rid = k.rid /\ l.sid
    /\ l.fails = k.fails /\ l.received = k.received /\ l.gaveUp = k.gaveUp
    /\ l.disconnecting = k.disconnecting /\ l.timer = k.timer
    /\ "confirm" \notin l.removing
    /\ LoggingIn(l) /\ ~l.authenticated /\ l.data = <<>>

LEMMA PendingDecided == ASSUME NEW k, NEW l, Pending(k, l) PROVE Decided(k, l)
  BY DEF Pending, Decided

LEMMA ThrottledNone ==
    ASSUME NEW k \in ConnType, k.requests = <<>>
    PROVE  Throttled(k) = k
<1>1. Len(k.requests) = 0
  OBVIOUS
<1> QED
  BY <1>1 DEF Throttled

LEMMA SendIs ==
    ASSUME NEW k \in ConnType, k.requests = <<>>, k.data = <<>>, NEW st \in Stanzas
    PROVE  Send(k, st) = [k EXCEPT !.data = <<st>>, !.idle = TRUE] /\ Send(k, st) \in ConnType
<1> DEFINE l == [k EXCEPT !.data = <<st>>]
<1>1. l \in ConnType /\ l.requests = <<>>
  <2>1. <<st>> \in Seq(Stanzas)
    OBVIOUS
  <2> QED
    BY <2>1 DEF ConnType
<1>2. Append(k.data, st) = <<st>>
  OBVIOUS
<1>3. Throttled(l) = l
  BY <1>1, ThrottledNone
<1>4. Send(k, st) = [l EXCEPT !.idle = TRUE]
  <2>1. [k EXCEPT !.data = Append(@, st)] = l
    BY <1>2 DEF ConnType
  <2> QED
    BY <1>3, <2>1 DEF Send
<1>5. [l EXCEPT !.idle = TRUE] = [k EXCEPT !.data = <<st>>, !.idle = TRUE]
  BY DEF ConnType
<1>6. [l EXCEPT !.idle = TRUE] \in ConnType
  BY <1>1 DEF ConnType
<1> QED
  BY <1>4, <1>5, <1>6

LEMMA PendingAdd ==
    ASSUME NEW k, NEW l, Pending(k, l), NEW h \in Handlers
    PROVE  Pending(k, AddHandler(l, h))
<1>1. AddHandler(l, h) \in ConnType
  BY DEF AddHandler, ConnType, Pending
<1> QED
  BY <1>1 DEF AddHandler, ConnType, Pending, LoggingIn

LEMMA PendingDelete ==
    ASSUME NEW k, NEW l, Pending(k, l), NEW hs \in SUBSET (Handlers \ {"confirm"})
    PROVE  Pending(k, DeleteHandlers(l, hs))
<1>1. DeleteHandlers(l, hs) \in ConnType
  BY DEF DeleteHandlers, ConnType, Pending
<1> QED
  BY <1>1 DEF DeleteHandlers, ConnType, Pending, LoggingIn

LEMMA LoginSends ==
    ASSUME NEW k, NEW l, Pending(k, l), NEW st \in LoginStanzas
    PROVE  Decided(k, Send(l, st))
<1>1. Send(l, st) = [l EXCEPT !.data = <<st>>, !.idle = TRUE] /\ Send(l, st) \in ConnType
  BY SendIs DEF Pending, Stanzas
<1> QED
  BY <1>1 DEF ConnType, Pending, Decided, LoggingIn

LEMMA LoginFails ==
    ASSUME NEW k, NEW l, Pending(k, l)
    PROVE  Decided(k, Tell(l, "AUTHFAIL"))
<1>1. Tell(l, "AUTHFAIL") = [l EXCEPT !.status = "AUTHFAIL", !.fails = l.fails]
  BY DEF Tell
<1>2. Tell(l, "AUTHFAIL") \in ConnType
  BY <1>1 DEF ConnType, Pending, Statuses
<1> QED
  BY <1>1, <1>2 DEF ConnType, Pending, Decided

LEMMA LoginOpens ==
    ASSUME NEW k, NEW l, Pending(k, l)
    PROVE  Decided(k, Authenticated(l))
<1> DEFINE told == [l EXCEPT !.authenticated = TRUE, !.status = "CONNECTED", !.fails = l.fails]
<1>1. told \in ConnType /\ told.requests = <<>> /\ told.data = <<>>
  BY DEF ConnType, Pending, Statuses
<1>2. Authenticated(l) = AddHandler(Send(told, "presence"), "confirm")
  BY DEF Authenticated, Tell, Pending, ConnType
<1>3. Send(told, "presence") = [told EXCEPT !.data = <<"presence">>, !.idle = TRUE]
      /\ Send(told, "presence") \in ConnType
  <2> HIDE DEF told
  <2> QED
    BY <1>1, SendIs DEF Stanzas
<1> DEFINE m == Send(told, "presence")
<1>4. m = [l EXCEPT !.authenticated = TRUE, !.status = "CONNECTED", !.fails = l.fails,
                    !.data = <<"presence">>, !.idle = TRUE]
  BY <1>3 DEF ConnType, Pending
<1>5. m \in ConnType
  BY <1>3
<1> HIDE DEF m
<1>6. AddHandler(m, "confirm") = [m EXCEPT !.adding = m.adding \cup {"confirm"}]
  BY DEF AddHandler
<1>7. AddHandler(m, "confirm") \in ConnType
  <2>1. "confirm" \in Handlers
    BY DEF Handlers
  <2> QED
    BY <1>5, <1>6, <2>1 DEF ConnType
<1>8. Decided(k, AddHandler(m, "confirm"))
  <2> DEFINE n == AddHandler(m, "confirm")
  <2>1. /\ n.requests = l.requests /\ n.rid = l.rid /\ n.sid = l.sid
        /\ n.fails = l.fails /\ n.received = l.received /\ n.gaveUp = l.gaveUp
        /\ n.disconnecting = l.disconnecting /\ n.timer = l.timer /\ n.removing = l.removing
        /\ n.status = "CONNECTED" /\ n.authenticated /\ n.data = <<"presence">>
    BY <1>4, <1>5, <1>6 DEF ConnType, Pending
  <2>2. "confirm" \in n.adding
    BY <1>5, <1>6 DEF ConnType
  <2> HIDE DEF n
  <2>3. n \in ConnType
    BY <1>7 DEF n
  <2>4. Decided(k, n)
    BY <2>1, <2>2, <2>3 DEF Decided, Pending
  <2> QED
    BY <2>4 DEF n
<1> QED
  BY <1>2, <1>8 DEF m

LEMMA SaslFails ==
    ASSUME NEW k, NEW l, Pending(k, l)
    PROVE  Decided(k, SaslFailureCb(l))
<1>1. Pending(k, DeleteHandlers(l, {"success", "challenge"}))
  BY PendingDelete DEF Handlers
<1> QED
  BY <1>1, LoginFails DEF SaslFailureCb

(* The outcome of a login's callback.                                      *)
Outcome(k, l) == Decided(k, l) \/ (Closing(k, l) /\ l.fails = k.fails)

LEMMA CallbackDecides ==
    ASSUME NEW k, Pending(k, k), NEW h \in Handlers \ {"confirm"}, NEW item, h = HandlerOf(item)
    PROVE  Outcome(k, Run(k, h, item))
<1>1. CASE h = "challenge"
  <2>1. Decided(k, SaslFailureCb(k)) /\ Decided(k, Send(k, "response"))
    BY SaslFails, LoginSends DEF LoginStanzas
  <2>2. Run(k, h, item) = SaslChallengeCb(k, item)
    BY <1>1 DEF Run
  <2> QED
    BY <2>1, <2>2 DEF SaslChallengeCb, OnChallengeSHA1, OnChallengeMD5, Outcome
<1>2. CASE h = "success"
  <2>1. Decided(k, SaslSuccessCb(k))
    <3>1. Pending(k, DeleteHandlers(k, {"failure", "challenge"}))
      BY PendingDelete DEF Handlers
    <3>2. Pending(k, AddHandler(DeleteHandlers(k, {"failure", "challenge"}), "features"))
      BY <3>1, PendingAdd DEF Handlers
    <3> QED
      BY <3>2, LoginSends DEF SaslSuccessCb, LoginStanzas
  <2>2. Decided(k, BadSignature(k))
    <3>1. Pending(k, DeleteHandlers(k, {"failure", "challenge"}))
      BY PendingDelete DEF Handlers
    <3> QED
      BY <3>1, SaslFails DEF BadSignature
  <2>3. Run(k, h, item) = IF item = "success" THEN SaslSuccessCb(k) ELSE BadSignature(k)
    BY <1>2 DEF Run
  <2> QED
    BY <2>1, <2>2, <2>3 DEF Outcome
<1>3. CASE h = "failure"
  BY <1>3, SaslFails DEF Run, Outcome
<1>4. CASE h = "features"
  <2>1. Decided(k, Send(AddHandler(k, "bind"), "bind"))
    <3>1. Pending(k, AddHandler(k, "bind"))
      BY PendingAdd DEF Handlers
    <3> QED
      BY <3>1, LoginSends DEF LoginStanzas
  <2>2. Run(k, h, item) = SaslAuth1Cb(k, item)
    BY <1>4 DEF Run
  <2> QED
    BY <2>1, <2>2, LoginFails DEF SaslAuth1Cb, Outcome
<1>5. CASE h = "bind"
  <2>1. Decided(k, Send(AddHandler(k, "session"), "session"))
    <3>1. Pending(k, AddHandler(k, "session"))
      BY PendingAdd DEF Handlers
    <3> QED
      BY <3>1, LoginSends DEF LoginStanzas
  <2>2. Run(k, h, item) = SaslBindCb(k, item)
    BY <1>5 DEF Run
  <2>3. item = "bind result" \/ item = "bind error"
    BY <1>5 DEF HandlerOf
  <2> QED
    BY <2>1, <2>2, <2>3, LoginFails, LoginOpens DEF SaslBindCb, Outcome
<1>6. CASE h = "session"
  <2>1. Run(k, h, item) = SaslSessionCb(k, item)
    BY <1>6 DEF Run
  <2> QED
    BY <2>1, LoginFails, LoginOpens DEF SaslSessionCb, Outcome
<1>7. CASE h = "auth1"
  <2>1. Pending(k, AddHandler(k, "auth2"))
    BY PendingAdd DEF Handlers
  <2>2. Decided(k, Auth1Cb(k))
    BY <2>1, LoginSends DEF Auth1Cb, LoginStanzas
  <2> QED
    BY <1>7, <2>2 DEF Run, Outcome
<1>8. CASE h = "auth2"
  <2> DEFINE told == Tell(k, "AUTHFAIL")
  <2>1. told = [k EXCEPT !.status = "AUTHFAIL", !.fails = k.fails]
    BY DEF Tell
  <2>2. k \in ConnType /\ "confirm" \notin k.removing
    BY DEF Pending
  <2>3. told \in ConnType
    BY <2>1, <2>2 DEF ConnType, Statuses
  <2>4. /\ "confirm" \notin told.removing /\ told.requests = k.requests /\ told.rid = k.rid
        /\ told.sid = k.sid /\ told.data = k.data /\ told.authenticated = k.authenticated
        /\ told.received = k.received /\ told.fails = k.fails
    BY <2>1, <2>2 DEF ConnType
  <2> HIDE DEF told
  <2>5. Closing(k, Disconnect(told)) /\ Disconnect(told).fails = k.fails
    BY <2>2, <2>3, <2>4, DisconnectIs
  <2>6. Run(k, h, item) = Auth2Cb(k, item)
    BY <1>8 DEF Run
  <2> QED
    BY <2>5, <2>6, LoginOpens DEF Auth2Cb, Outcome, told
<1> QED
  BY <1>1, <1>2, <1>3, <1>4, <1>5, <1>6, <1>7, <1>8 DEF Handlers

LEMMA OutcomeHandlers ==
    ASSUME NEW k, NEW l, Outcome(k, l), NEW hs \in SUBSET Handlers
    PROVE  Outcome(k, [l EXCEPT !.handlers = hs])
<1> DEFINE m == [l EXCEPT !.handlers = hs]
<1>1. l \in ConnType
  BY DEF Outcome, Decided, Closing
<1>2. m \in ConnType
  BY <1>1 DEF ConnType
<1>3. /\ m.requests = l.requests /\ m.rid = l.rid /\ m.sid = l.sid /\ m.fails = l.fails
      /\ m.received = l.received /\ m.gaveUp = l.gaveUp /\ m.disconnecting = l.disconnecting
      /\ m.timer = l.timer /\ m.removing = l.removing /\ m.status = l.status
      /\ m.authenticated = l.authenticated /\ m.data = l.data /\ m.adding = l.adding
  BY <1>1 DEF ConnType
<1> HIDE DEF m
<1>4. Decided(k, l) => Decided(k, m)
  BY <1>2, <1>3 DEF Decided, LoggingIn
<1>5. Closing(k, l) => Closing(k, m)
  BY <1>2, <1>3 DEF Closing
<1>6. Outcome(k, m)
  BY <1>3, <1>4, <1>5 DEF Outcome
<1> QED
  BY <1>6 DEF m

(* An item of the login's answer.                                          *)
LEMMA HandleDecides ==
    ASSUME NEW k, Pending(k, k), NEW item
    PROVE  Outcome(k, Handle(k, item))
<1> DEFINE h == HandlerOf(item)
<1>1. k \in ConnType /\ k.handlers \in SUBSET Handlers /\ ~k.authenticated
  BY DEF Pending, ConnType
<1>2. CASE h \notin k.handlers \/ h = "confirm"
  <2>1. Handle(k, item) = k
    BY <1>1, <1>2 DEF Handle
  <2> QED
    BY <2>1, PendingDecided DEF Outcome
<1>3. CASE h \in k.handlers /\ h # "confirm"
  <2> DEFINE ran == Run(k, h, item)
  <2>1. Outcome(k, ran)
    BY <1>1, <1>3, CallbackDecides
  <2>2. \/ Handle(k, item) = ran
        \/ Handle(k, item) = [ran EXCEPT !.handlers = ran.handlers \ {h}]
    BY <1>3 DEF Handle
  <2>3. ran.handlers \ {h} \in SUBSET Handlers
    <3> HIDE DEF ran
    <3>1. ran \in ConnType
      BY <2>1 DEF Outcome, Decided, Closing
    <3> QED
      BY <3>1 DEF ConnType
  <2> HIDE DEF ran, h
  <2> QED
    BY <2>1, <2>2, <2>3, OutcomeHandlers
<1> QED
  BY <1>2, <1>3

LEMMA ServerParts ==
    ASSUME NEW s \in SrvType
    PROVE  /\ s.out \in Seq(Items) /\ s.next \in Nat
           /\ \A r \in DOMAIN s.cache :
                 /\ r \in Nat /\ s.cache[r] \in AnswerType /\ s.cache[r].items \in Seq(Items)
                 /\ s.cache[r].kind \in {"data", "terminate", "parsererror", "null"}
<1>1. s.cache \in UNION {[D -> AnswerType] : D \in SUBSET Nat}
  BY DEF SrvType
<1>2. PICK D \in SUBSET Nat : s.cache \in [D -> AnswerType]
  BY <1>1
<1>3. \A r \in DOMAIN s.cache : r \in Nat /\ s.cache[r] \in AnswerType
  BY <1>2
<1> QED
  BY <1>3 DEF SrvType, AnswerType

(* Before the connection is open all that is on its way is of the login.   *)
LEMMA OnlyLogin ==
    ASSUME NEW k, NEW s, Kept(k, s), Before(k)
    PROVE  /\ s.sent = {}
           /\ \A i \in 1 .. Len(s.out) : s.out[i] \in LoginItems
           /\ \A r \in DOMAIN s.cache : \A i \in 1 .. Len(s.cache[r].items) :
                 s.cache[r].items[i] \in LoginItems
<1>1. s.sent = {}
  BY DEF Kept, Online
<1>2. s.out \in Seq(Items) /\ \A r \in DOMAIN s.cache : s.cache[r].items \in Seq(Items)
  BY ServerParts DEF Kept
<1>3. DOMAIN s.out = 1 .. Len(s.out)
      /\ \A r \in DOMAIN s.cache : DOMAIN s.cache[r].items = 1 .. Len(s.cache[r].items)
  BY <1>2
<1> QED
  BY <1>1, <1>3 DEF Kept, OnePlace, ToSet

LEMMA NothingOnItsWay ==
    ASSUME NEW k, NEW s, Kept(k, s), Before(k), k.requests = <<>>,
           \/ ~LoggingIn(k) \/ k.data # <<>>
           \/ \A i \in 1 .. Len(s.out) : s.out[i] \notin LoginItems
    PROVE  NoItems(s)
<1>1. s.out \in Seq(Items) /\ \A r \in DOMAIN s.cache : s.cache[r].items \in Seq(Items)
  BY ServerParts DEF Kept
<1>2. \A i \in 1 .. Len(s.out) : FALSE
  BY OnlyLogin DEF Kept, LoginOnItsWay
<1>3. Rids(k) = {}
  BY DEF Rids
<1>4. \A r \in DOMAIN s.cache : \A i \in 1 .. Len(s.cache[r].items) : FALSE
  BY <1>3, OnlyLogin DEF Kept, LoginOnItsWay
<1>5. ASSUME NEW q \in Seq(Items), \A i \in 1 .. Len(q) : FALSE PROVE q = <<>>
  <2>1. Len(q) \in Nat /\ (Len(q) = 0 => q = <<>>)
    BY EmptySeq, LenProperties
  <2>2. ~(Len(q) >= 1)
    <3>1. Len(q) >= 1 => 1 \in 1 .. Len(q)
      BY <2>1
    <3> QED
      BY <3>1, <1>5
  <2> QED
    BY <2>1, <2>2
<1> QED
  BY <1>1, <1>2, <1>4, <1>5 DEF NoItems

LEMMA KeptDecided ==
    ASSUME NEW k, NEW s, Kept(k, s), LoggingIn(k), k.requests = <<>>, NoItems(s),
           s.offered, NEW l, Decided(k, l)
    PROVE  Kept(l, s)
<1>1. k \in ConnType /\ s \in SrvType /\ l \in ConnType
  BY DEF Kept, Decided
<1>2. ~s.online /\ s.sent = {} /\ Before(k)
  BY DEF Kept, Online, Before
<1>3. Len(l.requests) = 0 /\ l.sid /\ l.rid = k.rid
  BY DEF Decided
<1>4. InOrder(l) /\ Open(l, s)
  BY <1>3 DEF InOrder, Kept, Open
<1>5. k.status \notin {"none", "CONNECTED", "DISCONNECTING"} /\ k.fails = l.fails
      /\ ~k.disconnecting /\ ~k.timer /\ ~l.disconnecting /\ ~l.timer
  BY DEF LoggingIn, Kept, Standing, Decided
<1>6. l.status \in {"CONNECTING", "AUTHENTICATING", "AUTHFAIL", "CONNECTED"}
      /\ (l.status = "CONNECTED" => l.authenticated /\ "confirm" \in l.adding)
      /\ (l.status # "CONNECTED" => ~l.authenticated) /\ "confirm" \notin l.removing
  BY DEF Decided, LoggingIn
<1>7. Standing(l)
  BY <1>5, <1>6 DEF Standing
<1>8. \/ l.data = <<>>
      \/ LoggingIn(l) /\ \E st \in LoginStanzas : l.data = <<st>>
      \/ ~Before(l) /\ l.data = <<"presence">>
  BY DEF Decided, Before, LoggingIn
<1>9. OneAtATime(l)
  <2>1. Len(l.requests) + Len(l.data) =< 1 \/ ~LoggingIn(l)
    <3>1. CASE l.data = <<>>
      <4>1. Len(l.data) = 0
        BY <3>1
      <4> QED
        BY <1>3, <4>1
    <3>2. CASE \E st \in LoginStanzas : l.data = <<st>>
      <4>1. PICK st \in LoginStanzas : l.data = <<st>>
        BY <3>2
      <4>2. Len(l.data) = 1
        BY <4>1
      <4> QED
        BY <1>3, <4>2
    <3> QED
      BY <1>8, <3>1, <3>2 DEF Before
  <2>2. l.data # <<>> => LoggingIn(l) \/ ~Before(l)
    BY <1>8
  <2>3. l.requests = <<>>
    BY DEF Decided
  <2> QED
    BY <1>3, <2>1, <2>2, <2>3 DEF OneAtATime
<1>10. Queued(l)
  <2>1. CASE l.data = <<>>
    BY <1>3, <2>1 DEF Queued, ToSet
  <2>2. CASE LoggingIn(l) /\ \E st \in LoginStanzas : l.data = <<st>>
    <3>1. PICK st \in LoginStanzas : l.data = <<st>>
      BY <2>2
    <3>2. ToSet(l.data) = {st}
      BY <3>1 DEF ToSet
    <3>3. st \notin {"presence", "terminate"}
      BY DEF LoginStanzas
    <3> QED
      BY <1>3, <2>2, <3>2, <3>3 DEF Queued
  <2>3. CASE ~Before(l) /\ l.data = <<"presence">>
    <3>1. ToSet(l.data) = {"presence"}
      BY <2>3 DEF ToSet
    <3> QED
      BY <1>3, <2>3, <3>1 DEF Queued, LoginStanzas
  <2> QED
    BY <1>8, <2>1, <2>2, <2>3
<1>11. Bodies(l, s) /\ Online(l, s)
  BY <1>2, <1>3 DEF Bodies, Online
<1>12. LoginOnItsWay(l, s)
  <2>1. Len(s.out) = 0 /\ \A r \in DOMAIN s.cache : Len(s.cache[r].items) = 0
    BY DEF NoItems
  <2> QED
    BY <2>1 DEF LoginOnItsWay
<1>13. OnePlace(l, s) /\ Terminated(l, s)
  BY <1>5 DEF Kept, OnePlace, Decided, Terminated
<1> QED
  BY <1>1, <1>4, <1>7, <1>9, <1>10, <1>11, <1>12, <1>13 DEF Kept

------------------------------------------------------------------------------
(* A client that asks for more: with the first request of the login, with  *)
(* another one when it was not offered anything, or with what it was told  *)
(* to send.                                                                *)
Asking(k, l, body, func) ==
    /\ l \in ConnType /\ l.rid = k.rid + 1 /\ l.data = <<>>
    /\ Longer(l.requests, [k EXCEPT !.sid = l.sid], body, func)
    /\ l.fails = k.fails /\ l.received = k.received /\ l.authenticated = k.authenticated
    /\ l.disconnecting = k.disconnecting /\ l.timer = k.timer
    /\ k.gaveUp => l.gaveUp
    /\ "confirm" \notin l.removing
    /\ "confirm" \in k.handlers \cup k.adding => "confirm" \in l.handlers \cup l.adding
    /\ "terminate" \notin body

LEMMA KeptAskingLogin ==
    ASSUME NEW k, NEW s, Kept(k, s), Before(k), k.requests = <<>>, NoItems(s),
           NEW l, NEW body \in SUBSET Stanzas, NEW func \in {"connect", "data"},
           Asking(k, l, body, func), LoggingIn(l), "presence" \notin body,
           func = "connect" => body \subseteq {"connect"},
           ~s.offered => func = "connect",
           l.sid \/ (k.rid = 1 /\ func = "connect")
    PROVE  Kept(l, s)
<1>1. k \in ConnType /\ s \in SrvType /\ l \in ConnType
  BY DEF Kept, Asking
<1>2. Len(k.requests) = 0 /\ k.rid \in Nat /\ s.next \in Nat /\ s.next =< k.rid /\ l.rid = k.rid + 1
  BY <1>1 DEF ConnType, SrvType, Kept, Open, Asking
<1>3. /\ Len(l.requests) = 1 /\ l.requests[1].rid = k.rid
      /\ l.requests[1].body = body /\ l.requests[1].func = func
  <2> DEFINE j == [k EXCEPT !.sid = l.sid]
  <2>1. j.requests = k.requests /\ j.rid = k.rid
    BY <1>1 DEF ConnType
  <2>2. Longer(l.requests, j, body, func)
    BY DEF Asking
  <2> HIDE DEF j
  <2>3. Len(l.requests) = Len(k.requests) + 1
        /\ l.requests[Len(k.requests) + 1].rid = k.rid
        /\ l.requests[Len(k.requests) + 1].body = body
        /\ l.requests[Len(k.requests) + 1].func = func
    BY <2>1, <2>2 DEF Longer
  <2> QED
    BY <1>2, <2>3
<1>4. l.requests[1].sid = l.sid
  <2> DEFINE j == [k EXCEPT !.sid = l.sid]
  <2>1. j.requests = k.requests /\ j.sid = l.sid
    BY <1>1 DEF ConnType
  <2>2. Longer(l.requests, j, body, func)
    BY DEF Asking
  <2> HIDE DEF j
  <2>3. l.requests[Len(k.requests) + 1].sid = l.sid
    BY <2>1, <2>2 DEF Longer
  <2> QED
    BY <1>2, <2>3
<1>5. InOrder(l) /\ Open(l, s)
  BY <1>2, <1>3 DEF InOrder, Open, Kept
<1>6. /\ l.data = <<>> /\ ~l.authenticated /\ ~l.disconnecting /\ ~l.timer
      /\ "confirm" \notin l.removing /\ l.received = k.received /\ l.fails = k.fails
  BY DEF Asking, Kept, Standing, Before, LoggingIn
<1>7. OneAtATime(l)
  <2>1. Len(l.requests) + Len(l.data) =< 1
    <3>1. Len(l.data) = 0
      BY <1>6
    <3> QED
      BY <1>3, <3>1
  <2>2. (l.requests[1].sid /\ l.sid) \/ (l.requests[1].rid = 1 /\ l.requests[1].func = "connect")
    BY <1>3, <1>4
  <2> QED
    BY <1>3, <1>6, <2>1, <2>2 DEF OneAtATime, Before
<1>8. Standing(l)
  BY <1>6 DEF Standing, LoggingIn
<1>9. Queued(l)
  BY <1>3, <1>6 DEF Queued, ToSet
<1>10. Bodies(l, s) /\ Online(l, s)
  <2>1. ~s.online /\ s.sent = {}
    BY DEF Kept, Online
  <2> QED
    BY <1>3, <1>6, <2>1 DEF Bodies, Online, NoItems
<1>11. LoginOnItsWay(l, s)
  <2>1. Len(s.out) = 0 /\ \A r \in DOMAIN s.cache : Len(s.cache[r].items) = 0
    BY DEF NoItems
  <2> QED
    BY <2>1 DEF LoginOnItsWay
<1>12. OnePlace(l, s) /\ Terminated(l, s)
  BY <1>6 DEF Kept, OnePlace, Terminated
<1> QED
  BY <1>1, <1>5, <1>7, <1>8, <1>9, <1>10, <1>11, <1>12 DEF Kept

LEMMA KeptAskingMore ==
    ASSUME NEW k, NEW s, Kept(k, s), ~Before(k), Len(k.requests) =< 1, s.offered,
           NEW l, NEW body \in SUBSET Stanzas, Asking(k, l, body, "data"),
           l.status = k.status, l.sid = k.sid, body \cap LoginStanzas = {}
    PROVE  Kept(l, s)
<1>1. k \in ConnType /\ s \in SrvType /\ l \in ConnType
  BY DEF Kept, Asking
<1>2. ~LoggingIn(l) /\ ~Before(l) /\ ~LoggingIn(k)
  BY DEF LoggingIn, Before
<1>3. Longer(l.requests, k, body, "data")
  <2>1. [k EXCEPT !.sid = l.sid] = k
    BY <1>1 DEF ConnType
  <2> QED
    BY <2>1 DEF Asking
<1>4. InOrder(l)
  BY <1>1, <1>3, LongerInOrder DEF Kept, Asking
<1>5. /\ l.data = <<>> /\ l.authenticated = k.authenticated
      /\ l.disconnecting = k.disconnecting /\ l.timer = k.timer
      /\ "confirm" \notin l.removing /\ l.received = k.received /\ l.fails = k.fails
      /\ "confirm" \in k.handlers \cup k.adding => "confirm" \in l.handlers \cup l.adding
  BY DEF Asking
<1>6. OneAtATime(l) /\ Standing(l)
  BY <1>2, <1>5 DEF OneAtATime, Standing, Kept, Before
<1>7. ASSUME NEW i \in 1 .. Len(l.requests)
      PROVE  /\ l.requests[i].func # "connect"
             /\ l.requests[i].rid >= s.next => l.requests[i].body \cap LoginStanzas = {}
  <2>1. Len(k.requests) \in Nat
    BY <1>1, QueueLength
  <2>2. CASE i = Len(k.requests) + 1
    BY <1>3, <2>2 DEF Longer
  <2>3. CASE i \in 1 .. Len(k.requests)
    BY <1>2, <1>3, <2>3 DEF Longer, Kept, Queued, Bodies
  <2> QED
    BY <1>3, <2>1, <2>2, <2>3 DEF Longer
<1>8. Queued(l)
  BY <1>2, <1>5, <1>7 DEF Queued, ToSet
<1>9. Bodies(l, s) /\ Online(l, s)
  BY <1>2, <1>7 DEF Bodies, Online, Kept
<1>10. Open(l, s)
  <2>1. k.rid \in Nat /\ s.next \in Nat /\ s.next =< k.rid /\ l.rid = k.rid + 1
    BY <1>1 DEF ConnType, SrvType, Kept, Open, Asking
  <2>2. s.next =< l.rid
    BY <2>1
  <2> QED
    BY <2>2 DEF Kept, Open
<1>11. LoginOnItsWay(l, s)
  BY <1>2 DEF Kept, LoginOnItsWay
<1>12. OnePlace(l, s) /\ Terminated(l, s)
  BY <1>5 DEF Kept, OnePlace, Terminated
<1> QED
  BY <1>1, <1>4, <1>6, <1>8, <1>9, <1>10, <1>11, <1>12 DEF Kept

------------------------------------------------------------------------------
(* The children of an answer.                                              *)
LEMMA HandledNone ==
    ASSUME NEW k PROVE Handled(k, <<>>) = k
<1> DEFINE n == Len(<<>>)
           after[i \in 0 .. n] == IF i = 0 THEN k ELSE Handle(after[i - 1], <<>>[i])
           g == [i \in 0 .. n |-> k]
<1>1. n = 0 /\ Handled(k, <<>>) = after[n]
  BY DEF Handled
<1>2. g = [i \in 0 .. n |-> IF i = 0 THEN k ELSE Handle(g[i - 1], <<>>[i])]
  BY <1>1
<1>3. after = [i \in 0 .. n |-> IF i = 0 THEN k ELSE Handle(after[i - 1], <<>>[i])]
  BY <1>2
<1>4. after[0] = k
  BY <1>1, <1>3
<1> QED
  BY <1>1, <1>4

LEMMA HandledOne ==
    ASSUME NEW k, NEW q, Len(q) = 1
    PROVE  Handled(k, q) = Handle(k, q[1])
<1> DEFINE after[i \in 0 .. Len(q)] == IF i = 0 THEN k ELSE Handle(after[i - 1], q[i])
           g == [i \in 0 .. Len(q) |-> IF i = 0 THEN k ELSE Handle(k, q[1])]
<1>1. Handled(k, q) = after[Len(q)]
  BY DEF Handled
<1>2. g = [i \in 0 .. Len(q) |-> IF i = 0 THEN k ELSE Handle(g[i - 1], q[i])]
  OBVIOUS
<1>3. after = [i \in 0 .. Len(q) |-> IF i = 0 THEN k ELSE Handle(after[i - 1], q[i])]
  BY <1>2
<1> HIDE DEF after
<1>4. after[0] = k
  BY <1>3
<1>5. after[1] = Handle(after[0], q[1])
  BY <1>3
<1> QED
  BY <1>1, <1>4, <1>5

LEMMA LeastElement ==
    ASSUME NEW T \in SUBSET Nat, T # {}
    PROVE  \E m \in T : \A n \in T : m =< n
<1>1. PICK m \in T : \A n \in T : <<n, m>> \notin OpToRel(<, Nat)
  BY NatLessThanWellFounded, WFMin
<1>2. \A n \in T : ~(n < m)
  BY <1>1 DEF OpToRel
<1> QED
  BY <1>2

(* Confirmations go to onConfirm one after the other.                      *)
LEMMA HandleConfirms ==
    ASSUME NEW k, NEW m \in Messages
    PROVE  Handle(k, m) = IF "confirm" \in k.handlers /\ k.authenticated
                          THEN [k EXCEPT !.received = Append(k.received, m)] ELSE k
<1>1. m \notin LoginItems
  BY MessagesAssumption
<1>2. HandlerOf(m) = "confirm"
  BY <1>1 DEF HandlerOf, LoginItems
<1> QED
  BY <1>2 DEF Handle, Run, OnConfirm

LEMMA HandledConfirms ==
    ASSUME NEW k \in ConnType, NEW q \in Seq(Messages)
    PROVE  Handled(k, q) = IF "confirm" \in k.handlers /\ k.authenticated
                           THEN [k EXCEPT !.received = k.received \o q] ELSE k
<1> DEFINE n == Len(q)
           takes == "confirm" \in k.handlers /\ k.authenticated
           after[i \in 0 .. n] == IF i = 0 THEN k ELSE Handle(after[i - 1], q[i])
           so(i) == k.received \o SubSeq(q, 1, i)
           g == [i \in 0 .. n |-> IF takes THEN [k EXCEPT !.received = so(i)] ELSE k]
<1>1. n \in Nat /\ k.received \in Seq(Items) /\ q \in Seq(Items)
  <2>1. Messages \subseteq Items
    BY DEF Items
  <2> QED
    BY <2>1, LenProperties, SeqMonotonic DEF ConnType
<1>2. SubSeq(q, 1, 0) = <<>> /\ SubSeq(q, 1, n) = q
  BY SubSeqEmpty, SubSeqFull
<1>3. so(0) = k.received /\ so(n) = k.received \o q
  BY <1>1, <1>2, ConcatEmptySeq
<1>4. ASSUME NEW i \in 1 .. n PROVE so(i) = Append(so(i - 1), q[i]) /\ so(i - 1) \in Seq(Items)
  <2>1. q[i] \in Items
    BY <1>1, ElementOfSeq
  <2>2. SubSeq(q, 1, i) = SubSeq(q, 1, i - 1) \o <<q[i]>>
    <3>1. 1 \in 1 .. Len(q) /\ i \in 1 .. Len(q)
      BY <1>1
    <3> QED
      BY <3>1, <1>1, SubSeqRecursiveSecond
  <2>3. SubSeq(q, 1, i - 1) \in Seq(Items)
    <3>1. \A j \in 1 .. i - 1 : q[j] \in Items
      BY <1>1, ElementOfSeq
    <3> QED
      BY <3>1, SubSeqProperties
  <2>4. so(i - 1) \in Seq(Items)
    BY <1>1, <2>3, ConcatProperties
  <2>5. <<q[i]>> \in Seq(Items)
    BY <2>1
  <2>6. so(i) = so(i - 1) \o <<q[i]>>
    <3> DEFINE a == k.received
               b == SubSeq(q, 1, i - 1)
               c == <<q[i]>>
    <3>1. a \in Seq(Items) /\ b \in Seq(Items) /\ c \in Seq(Items)
      BY <1>1, <2>3, <2>5
    <3> HIDE DEF a, b, c
    <3>2. (a \o b) \o c = a \o (b \o c)
      BY <3>1, ConcatAssociative
    <3> QED
      BY <2>2, <3>2 DEF a, b, c
  <2>7. Append(so(i - 1), q[i]) = so(i - 1) \o <<q[i]>>
    BY <2>1, <2>4, AppendIsConcat
  <2> QED
    BY <2>4, <2>6, <2>7
<1>5. g[0] = k
  <2>1. [k EXCEPT !.received = k.received] = k
    BY DEF ConnType
  <2>2. g[0] = IF takes THEN [k EXCEPT !.received = so(0)] ELSE k
    BY <1>1
  <2> QED
    BY <1>3, <2>1, <2>2
<1>6. ASSUME NEW i \in 1 .. n PROVE g[i] = Handle(g[i - 1], q[i])
  <2> DEFINE h == g[i - 1]
  <2>1. h = (IF takes THEN [k EXCEPT !.received = so(i - 1)] ELSE k)
        /\ g[i] = (IF takes THEN [k EXCEPT !.received = so(i)] ELSE k)
    BY <1>1
  <2>2. q[i] \in Messages
    BY ElementOfSeq
  <2> HIDE DEF h, g, so
  <2>3. Handle(h, q[i]) = IF "confirm" \in h.handlers /\ h.authenticated
                          THEN [h EXCEPT !.received = Append(h.received, q[i])] ELSE h
    BY <2>2, HandleConfirms
  <2>4. CASE takes
    <3>1. h.handlers = k.handlers /\ h.authenticated = k.authenticated /\ h.received = so(i - 1)
      BY <2>1, <2>4, <1>4 DEF ConnType
    <3>2. [h EXCEPT !.received = so(i)] = [k EXCEPT !.received = so(i)]
      BY <2>1, <2>4 DEF ConnType
    <3> QED
      BY <1>4, <2>1, <2>3, <2>4, <3>1, <3>2 DEF h
  <2>5. CASE ~takes
    BY <2>1, <2>3, <2>5 DEF h
  <2> QED
    BY <2>4, <2>5
<1>7. g = [i \in 0 .. n |-> IF i = 0 THEN k ELSE Handle(g[i - 1], q[i])]
  <2>1. \A i \in 0 .. n : i = 0 \/ i \in 1 .. n
    BY <1>1
  <2>2. g = [i \in 0 .. n |-> g[i]]
    OBVIOUS
  <2> HIDE DEF g
  <2>3. \A i \in 0 .. n : g[i] = IF i = 0 THEN k ELSE Handle(g[i - 1], q[i])
    BY <1>1, <1>5, <1>6, <2>1
  <2> QED
    BY <2>2, <2>3
<1>8. after = [i \in 0 .. n |-> IF i = 0 THEN k ELSE Handle(after[i - 1], q[i])]
  <2> HIDE DEF g
  <2> QED
    BY <1>7
<1>9. Handled(k, q) = after[n]
  BY DEF Handled
<1> HIDE DEF after, g
<1>10. \A i \in 0 .. n : after[i] = g[i]
  <2> DEFINE T == {i \in 0 .. n : after[i] # g[i]}
  <2>1. CASE T = {}
    BY <2>1
  <2>2. CASE T # {}
    <3>1. T \in SUBSET Nat
      BY <1>1
    <3>2. PICK m \in T : \A i \in T : m =< i
      <4> HIDE DEF T
      <4> QED
        BY <2>2, <3>1, LeastElement
    <3>3. m \in 0 .. n /\ after[m] # g[m]
      OBVIOUS
    <3>4. m # 0
      BY <1>1, <1>5, <1>8, <3>3
    <3>5. m \in 1 .. n /\ m - 1 \in 0 .. n /\ m - 1 \notin T
      BY <1>1, <3>2, <3>3, <3>4
    <3>6. after[m - 1] = g[m - 1]
      BY <3>5
    <3>7. after[m] = Handle(after[m - 1], q[m])
      BY <1>8, <3>3, <3>4
    <3>8. g[m] = Handle(g[m - 1], q[m])
      BY <1>6, <3>5
    <3> QED
      BY <3>3, <3>6, <3>7, <3>8
  <2> QED
    BY <2>1, <2>2
<1>11. Handled(k, q) = g[n]
  BY <1>1, <1>9, <1>10
<1>12. g[n] = IF takes THEN [k EXCEPT !.received = so(n)] ELSE k
  BY <1>1 DEF g
<1> QED
  BY <1>3, <1>11, <1>12

------------------------------------------------------------------------------
(* What pos.js is told by one callback of the client.                      *)
Moves(k, l) ==
    /\ l.received = k.received
    /\ \/ PhaseOf(l.status) = PhaseOf(k.status) /\ l.fails = k.fails
       \/ PhaseOf(l.status) \in Abstract!Follows(PhaseOf(k.status)) /\ l.fails = k.fails
       \/ /\ k.fails = 0 /\ l.fails = 1
          /\ \/ PhaseOf(l.status) = "closing"
             \/ /\ PhaseOf(l.status) = "closed"
                /\ PhaseOf(l.status) \in Abstract!Follows(PhaseOf(k.status))

(* No answer is left behind, and none that was dropped is asked for again. *)
Follow(k, l, s) ==
    /\ Live(l) => Live(k) /\ Rids(k) \subseteq Rids(l)
    /\ \A n \in Rids(l) : n \in Rids(k) \/ n >= s.next

Passes(k, l, s) == Kept(l, s) /\ Follow(k, l, s) /\ Moves(k, l)

LEMMA RidsAre ==
    ASSUME NEW k \in ConnType
    PROVE  Rids(k) = {k.requests[i].rid : i \in 1 .. Len(k.requests)} /\ Rids(k) \subseteq Nat
<1>1. DOMAIN k.requests = 1 .. Len(k.requests)
  BY QueueLength, LenProperties
<1>2. \A i \in 1 .. Len(k.requests) : k.requests[i].rid \in Nat
  BY ElementType
<1> QED
  BY <1>1, <1>2 DEF Rids

LEMMA LongerRids ==
    ASSUME NEW k \in ConnType, NEW j, j.requests = k.requests, j.rid = k.rid,
           NEW l \in ConnType, NEW body, NEW func, Longer(l.requests, j, body, func)
    PROVE  Rids(l) = Rids(k) \cup {k.rid}
<1>1. Len(k.requests) \in Nat
  BY QueueLength
<1>2. /\ Len(l.requests) = Len(k.requests) + 1
      /\ \A i \in 1 .. Len(k.requests) : l.requests[i].rid = k.requests[i].rid
      /\ l.requests[Len(k.requests) + 1].rid = k.rid
  BY DEF Longer
<1>3. \A i \in 1 .. Len(l.requests) : i \in 1 .. Len(k.requests) \/ i = Len(k.requests) + 1
  BY <1>1, <1>2
<1>4. (1 .. Len(k.requests)) \cup {Len(k.requests) + 1} \subseteq 1 .. Len(l.requests)
  BY <1>1, <1>2
<1> QED
  BY <1>2, <1>3, <1>4, RidsAre

LEMMA PassesFewer ==
    ASSUME NEW k, NEW s, Kept(k, s), NEW l, Fewer(k, l), Rids(l) = Rids(k)
    PROVE  Passes(k, l, s)
<1>1. Kept(l, s)
  BY KeptFewer
<1> QED
  BY <1>1 DEF Passes, Follow, Moves, Fewer, Alike, Live

LEMMA NextRid ==
    ASSUME NEW k, NEW s, Kept(k, s) PROVE k.rid >= s.next /\ k \in ConnType /\ s \in SrvType
  BY DEF Kept, Open, ConnType, SrvType

LEMMA PassesClosing ==
    ASSUME NEW k, NEW s, Kept(k, s), Settled(k, s), Len(k.requests) =< 1, k.status # "none",
           NEW l, Closing(k, l), Told(k, l, s)
    PROVE  Passes(k, l, s)
<1>1. Kept(l, s)
  BY KeptClosing
<1>2. k \in ConnType /\ l \in ConnType /\ l.status = "DISCONNECTING"
  BY DEF Kept, Closing
<1>3. Rids(l) = Rids(k) \/ Rids(l) = Rids(k) \cup {k.rid}
  <2>1. CASE l.requests = k.requests
    BY <2>1 DEF Rids
  <2>2. CASE \E body \in {{"unavailable", "terminate"}, {"terminate"}} :
                Longer(l.requests, k, body, "data")
    BY <1>2, <2>2, LongerRids
  <2> QED
    BY <2>1, <2>2 DEF Closing
<1>4. Follow(k, l, s)
  BY <1>2, <1>3, NextRid DEF Follow, Live
<1>5. Moves(k, l)
  <2>1. k.status \in Statuses \ {"none", "CONNFAIL"}
    BY DEF Kept, Standing, ConnType
  <2>2. PhaseOf(l.status) = "closing"
    BY <1>2 DEF PhaseOf
  <2>3. PhaseOf(k.status) = "closing" \/ "closing" \in Abstract!Follows(PhaseOf(k.status))
    BY <2>1 DEF PhaseOf, Statuses, Abstract!Follows
  <2>4. l.received = k.received
    BY DEF Closing
  <2> QED
    BY <2>2, <2>3, <2>4 DEF Moves, Told
<1> QED
  BY <1>1, <1>4, <1>5 DEF Passes

LEMMA PassesEnded ==
    ASSUME NEW k, NEW s, Kept(k, s), Settled(k, s), k.status # "none",
           NEW l, Ended(k, l), Told(k, l, s),
           l.fails = k.fails \/ LoggingIn(k)
    PROVE  Passes(k, l, s)
<1>1. Kept(l, s)
  BY KeptEnded
<1>2. l.status = "DISCONNECTED" /\ Rids(l) = Rids(k)
  BY DEF Ended, Rids
<1>3. Follow(k, l, s)
  BY <1>2 DEF Follow, Live
<1>4. Moves(k, l)
  <2>1. k.status \in Statuses \ {"none", "CONNFAIL"}
    BY DEF Kept, Standing, ConnType
  <2>2. PhaseOf(l.status) = "closed"
    BY <1>2 DEF PhaseOf
  <2>3. PhaseOf(k.status) = "closed" \/ "closed" \in Abstract!Follows(PhaseOf(k.status))
    BY <2>1 DEF PhaseOf, Statuses, Abstract!Follows
  <2>4. l.received = k.received
    BY DEF Ended
  <2>5. LoggingIn(k) => "closed" \in Abstract!Follows(PhaseOf(k.status))
    BY DEF LoggingIn, PhaseOf, Abstract!Follows
  <2> QED
    BY <2>2, <2>3, <2>4, <2>5 DEF Moves, Told
<1> QED
  BY <1>1, <1>3, <1>4 DEF Passes

LEMMA PassesDecided ==
    ASSUME NEW k, NEW s, Kept(k, s), LoggingIn(k), k.requests = <<>>, NoItems(s),
           s.offered, NEW l, Decided(k, l)
    PROVE  Passes(k, l, s)
<1>1. Kept(l, s)
  BY KeptDecided
<1>2. Rids(l) = {} /\ Rids(k) = {} /\ l.gaveUp = k.gaveUp /\ l.received = k.received /\ l.fails = k.fails
  BY DEF Decided, Rids
<1>3. Follow(k, l, s)
  BY <1>2 DEF Follow, Live, LoggingIn
<1>4. l.status \in {"CONNECTING", "AUTHENTICATING", "AUTHFAIL", "CONNECTED"}
  BY DEF Decided, LoggingIn
<1>5. PhaseOf(k.status) = "connecting"
      /\ PhaseOf(l.status) \in {"connecting"} \cup Abstract!Follows("connecting")
  BY <1>4 DEF LoggingIn, PhaseOf, Abstract!Follows
<1> QED
  BY <1>1, <1>2, <1>3, <1>5 DEF Passes, Moves

LEMMA AskingRids ==
    ASSUME NEW k \in ConnType, NEW l, NEW body, NEW func, Asking(k, l, body, func)
    PROVE  Rids(l) = Rids(k) \cup {k.rid}
<1> DEFINE j == [k EXCEPT !.sid = l.sid]
<1>1. j.requests = k.requests /\ j.rid = k.rid
  BY DEF ConnType
<1>2. l \in ConnType /\ Longer(l.requests, j, body, func)
  BY DEF Asking
<1> HIDE DEF j
<1> QED
  BY <1>1, <1>2, LongerRids

LEMMA PassesAsking ==
    ASSUME NEW k, NEW s, Kept(k, s), NEW l, Kept(l, s), NEW body, NEW func,
           Asking(k, l, body, func),
           l.status = k.status \/ (k.status = "none" /\ l.status = "CONNECTING")
    PROVE  Passes(k, l, s)
<1>1. Rids(l) = Rids(k) \cup {k.rid} /\ k.rid >= s.next
  BY AskingRids, NextRid
<1>2. l.received = k.received /\ l.fails = k.fails /\ (k.gaveUp => l.gaveUp)
  BY DEF Asking
<1>3. Follow(k, l, s)
  BY <1>1, <1>2 DEF Follow, Live
<1>4. Moves(k, l)
  BY <1>2 DEF Moves, PhaseOf, Abstract!Follows
<1> QED
  BY <1>3, <1>4 DEF Passes

------------------------------------------------------------------------------
(* A client that reads an answer it has taken from the network: what else  *)
(* there can be, for it and in the answer.                                 *)
Fits(k, s, a) ==
    /\ Len(k.requests) =< 1 /\ k.status # "none"
    /\ a \in AnswerType /\ (a.kind # "data" => a.items = <<>>)
    /\ LoggingIn(k) =>
          /\ k.requests = <<>> /\ k.data = <<>> /\ NoItems(s)
          /\ a.items # <<>> => Len(a.items) = 1 /\ s.offered
    /\ ~LoggingIn(k) =>
          /\ a.items \in Seq(s.sent) /\ IsInjective(a.items)
          /\ \A m \in ToSet(a.items) :
                /\ m \notin ToSet(k.received) \cup ToSet(s.out)
                /\ \A r \in DOMAIN s.cache : m \notin ToSet(s.cache[r].items)
    /\ a.kind = "terminate" =>
          /\ ~s.alive /\ k.fails = 0
          /\ \A r \in DOMAIN s.cache : s.cache[r].kind # "terminate"

Reads(k, s, a) == Kept(k, s) /\ Fits(k, s, a)

(* What pos.js is handed.                                                  *)
HandsOver(k, l, s, a) ==
    /\ Kept(l, s) /\ Follow(k, l, s) /\ ~LoggingIn(k) /\ a.kind = "data"
    /\ l.status = k.status /\ l.fails = k.fails
    /\ \/ l.received = k.received /\ k.status # "CONNECTED"
       \/ l.received = k.received \o a.items /\ k.status \in {"CONNECTED", "DISCONNECTING"}

(* An answer that is read leaves the connection open only when it is read  *)
(* to the end.                                                             *)
Reacts(k, l, s, a) ==
    \/ HandsOver(k, l, s, a)
    \/ /\ Passes(k, l, s)
       /\ l.status = "CONNECTED" /\ k.status = "CONNECTED" => l.gaveUp

LEMMA FailTold ==
    ASSUME NEW k, NEW s, NEW a, Reads(k, s, a), a.kind = "terminate",
           NEW j \in ConnType, j.fails = k.fails
    PROVE  /\ Tell(j, "CONNFAIL") = [j EXCEPT !.status = "CONNFAIL", !.fails = 1]
           /\ Tell(j, "CONNFAIL") \in ConnType
           /\ \A l : l.fails = 1 => Told(k, l, s)
<1>1. k.fails = 0 /\ ~s.alive /\ \A r \in DOMAIN s.cache : s.cache[r].kind # "terminate"
  BY DEF Reads, Fits
<1>2. Tell(j, "CONNFAIL") = [j EXCEPT !.status = "CONNFAIL", !.fails = j.fails + 1]
  BY DEF Tell
<1>3. j.fails + 1 = 1
  BY <1>1
<1>4. Tell(j, "CONNFAIL") = [j EXCEPT !.status = "CONNFAIL", !.fails = 1]
  BY <1>2, <1>3
<1>5. Tell(j, "CONNFAIL") \in ConnType
  <2>1. "CONNFAIL" \in Statuses /\ 1 \in Nat
    BY DEF Statuses
  <2> QED
    BY <1>4, <2>1 DEF ConnType
<1> QED
  BY <1>1, <1>4, <1>5 DEF Told

LEMMA AuthenticateDecides ==
    ASSUME NEW k, NEW j, Pending(k, j), NEW offers
    PROVE  Decided(k, Authenticate(j, offers))
<1> DEFINE usable == offers \cap Usable
           best == CHOOSE m \in usable : \A n \in usable : Priority(n) =< Priority(m)
<1>1. CASE usable # {}
  <2>1. usable \subseteq {"SCRAM-SHA-1", "DIGEST-MD5", "PLAIN"}
    BY DEF Usable, Mechanisms
  <2>2. \E m \in usable : \A n \in usable : Priority(n) =< Priority(m)
    <3> HIDE DEF usable
    <3>1. Priority("SCRAM-SHA-1") = 40 /\ Priority("DIGEST-MD5") = 30 /\ Priority("PLAIN") = 20
      BY DEF Priority
    <3>2. CASE "SCRAM-SHA-1" \in usable
      <4>1. \A n \in usable : Priority(n) =< Priority("SCRAM-SHA-1")
        BY <2>1, <3>1
      <4> QED
        BY <3>2, <4>1
    <3>3. CASE "SCRAM-SHA-1" \notin usable /\ "DIGEST-MD5" \in usable
      <4>1. \A n \in usable : Priority(n) =< Priority("DIGEST-MD5")
        BY <2>1, <3>1, <3>3
      <4> QED
        BY <3>3, <4>1
    <3>4. CASE "SCRAM-SHA-1" \notin usable /\ "DIGEST-MD5" \notin usable
      <4>1. usable = {"PLAIN"}
        BY <1>1, <2>1, <3>4
      <4>2. \A n \in usable : Priority(n) =< Priority("PLAIN")
        BY <3>1, <4>1
      <4> QED
        BY <4>1, <4>2
    <3> QED
      BY <3>2, <3>3, <3>4
  <2>3. best \in Mechanisms
    <3>1. best \in usable
      <4> HIDE DEF usable
      <4> QED
        BY <2>2
    <3> QED
      BY <3>1 DEF Usable
  <2>4. Authenticate(j, offers) =
          Send([j EXCEPT !.adding = j.adding \cup {"success", "failure", "challenge"},
                         !.mech = best], "auth")
    BY <1>1 DEF Authenticate
  <2> HIDE DEF best
  <2> DEFINE m == [j EXCEPT !.adding = j.adding \cup {"success", "failure", "challenge"},
                            !.mech = best]
  <2>5. j.adding \cup {"success", "failure", "challenge"} \in SUBSET Handlers
    BY DEF Pending, ConnType, Handlers
  <2>6. m \in ConnType
    BY <2>3, <2>5 DEF Pending, ConnType
  <2>7. Pending(k, m)
    BY <2>6 DEF Pending, ConnType, LoggingIn
  <2> HIDE DEF m
  <2>8. Decided(k, Send(m, "auth"))
    BY <2>7, LoginSends DEF LoginStanzas
  <2> QED
    BY <2>4, <2>8 DEF m
<1>2. CASE usable = {}
  <2> DEFINE m == Tell(j, "AUTHENTICATING")
  <2>1. m = [j EXCEPT !.status = "AUTHENTICATING", !.fails = j.fails]
    BY DEF Tell
  <2>2. m \in ConnType
    BY <2>1 DEF Pending, ConnType, Statuses
  <2>3. Pending(k, m)
    BY <2>1, <2>2 DEF Pending, ConnType, LoggingIn
  <2> HIDE DEF m
  <2>4. Pending(k, AddHandler(m, "auth1"))
    BY <2>3, PendingAdd DEF Handlers
  <2>5. Decided(k, Send(AddHandler(m, "auth1"), "auth1"))
    BY <2>4, LoginSends DEF LoginStanzas
  <2>6. Authenticate(j, offers) = Send(AddHandler(m, "auth1"), "auth1")
    BY <1>2 DEF Authenticate, m
  <2> QED
    BY <2>5, <2>6
<1> QED
  BY <1>1, <1>2

(* The answer to the first request of a login.                             *)
LEMMA ConnectCbPasses ==
    ASSUME NEW k, NEW s, NEW a, Reads(k, s, a), LoggingIn(k)
    PROVE  Passes(k, ConnectCb(k, a), s)
<1> DEFINE up == [k EXCEPT !.connected = TRUE]
<1>1. k \in ConnType /\ Kept(k, s)
  BY DEF Reads, Kept
<1>2. /\ k.requests = <<>> /\ k.data = <<>> /\ NoItems(s) /\ Len(k.requests) =< 1
      /\ k.status # "none" /\ Before(k) /\ ~k.authenticated /\ "confirm" \notin k.removing
  BY DEF Reads, Fits, LoggingIn, Kept, Standing, Before
<1>3. Settled(k, s)
  BY <1>2 DEF Settled
<1>4. up \in ConnType
  BY <1>1 DEF ConnType
<1>5. /\ up.requests = k.requests /\ up.rid = k.rid /\ up.sid = k.sid /\ up.data = k.data
      /\ up.authenticated = k.authenticated /\ up.received = k.received
      /\ up.fails = k.fails /\ up.removing = k.removing /\ up.gaveUp = k.gaveUp
      /\ up.disconnecting = k.disconnecting /\ up.timer = k.timer /\ up.status = k.status
      /\ up.handlers = k.handlers /\ up.adding = k.adding
  BY <1>1 DEF ConnType
<1>6. a.kind \in {"data", "terminate", "parsererror", "null"}
  BY DEF Reads, Fits, AnswerType
<1>7. CASE a.kind = "parsererror"
  <2>1. ConnectCb(k, a) = Disconnect(up)
    BY <1>7 DEF ConnectCb
  <2> HIDE DEF up
  <2>2. Closing(k, Disconnect(up)) /\ Disconnect(up).fails = k.fails
    BY <1>1, <1>2, <1>4, <1>5, DisconnectIs
  <2>3. Told(k, Disconnect(up), s)
    BY <2>2 DEF Told
  <2> QED
    BY <1>1, <1>2, <1>3, <2>1, <2>2, <2>3, PassesClosing
<1>8. CASE a.kind = "null"
  <2> DEFINE l == [up EXCEPT !.gaveUp = TRUE]
  <2>1. ConnectCb(k, a) = l
    BY <1>8 DEF ConnectCb
  <2>2. l \in ConnType
    BY <1>4 DEF ConnType
  <2>3. Alike(k, l) /\ l.requests = k.requests
    BY <1>4, <1>5, <2>2 DEF Alike, ConnType
  <2> HIDE DEF l
  <2>4. Fewer(k, l) /\ Rids(l) = Rids(k)
    <3>1. Len(l.requests) = 0 /\ Len(k.requests) = 0
      BY <1>2, <2>3
    <3> QED
      BY <2>3, <3>1 DEF Fewer, Rids
  <2> QED
    BY <1>1, <2>1, <2>4, PassesFewer
<1>9. CASE a.kind = "terminate"
  <2> DEFINE told == Tell(up, "CONNFAIL")
  <2>1. ConnectCb(k, a) = DoDisconnect(told)
    BY <1>9 DEF ConnectCb
  <2>2. /\ told = [up EXCEPT !.status = "CONNFAIL", !.fails = 1] /\ told \in ConnType
        /\ \A l : l.fails = 1 => Told(k, l, s)
    BY <1>4, <1>5, <1>9, FailTold
  <2>3. /\ told.requests = k.requests /\ told.data = k.data /\ told.rid = k.rid
        /\ told.received = k.received /\ told.gaveUp = k.gaveUp /\ told.fails = 1
    BY <1>4, <1>5, <2>2 DEF ConnType
  <2> HIDE DEF told, up
  <2>4. Ended(told, DoDisconnect(told)) /\ DoDisconnect(told).fails = 1
    BY <2>2, <2>3, DoDisconnectIs
  <2>5. Ended(k, DoDisconnect(told))
    BY <2>3, <2>4 DEF Ended
  <2> QED
    BY <1>1, <1>2, <1>3, <2>1, <2>2, <2>4, <2>5, PassesEnded
<1>10. CASE a.kind = "data" /\ a.items # <<"offers">>
  <2> DEFINE j == [up EXCEPT !.sid = TRUE]
             l == Throttled(Push(j, {}, "connect"))
  <2>1. ConnectCb(k, a) = l
    BY <1>10 DEF ConnectCb, NoAuthReceived
  <2>2. j \in ConnType /\ j = [k EXCEPT !.connected = TRUE, !.sid = TRUE]
    BY <1>1, <1>4 DEF ConnType
  <2> HIDE DEF j
  <2>3. PICK q : l = [j EXCEPT !.requests = q, !.rid = j.rid + 1] /\ Longer(q, j, {}, "connect")
    BY <2>2, ThrottledPush
  <2> HIDE DEF l
  <2>4. /\ j.rid = k.rid /\ j.sid = TRUE /\ j.requests = k.requests /\ j.data = k.data
    BY <1>1, <2>2 DEF ConnType
  <2>5. q \in Seq(RequestType) /\ k.rid + 1 \in Nat
    BY <1>1, <2>3 DEF Longer, ConnType
  <2>6. l = [k EXCEPT !.connected = TRUE, !.sid = TRUE, !.requests = q, !.rid = k.rid + 1]
    BY <1>1, <2>2, <2>3, <2>4 DEF ConnType
  <2>7. l \in ConnType /\ l.sid = TRUE /\ l.requests = q
    BY <1>1, <2>5, <2>6 DEF ConnType
  <2>8. Longer(l.requests, [k EXCEPT !.sid = l.sid], {}, "connect")
    <3> DEFINE i == [k EXCEPT !.sid = l.sid]
    <3>1. i.requests = j.requests /\ i.rid = j.rid /\ i.sid = j.sid
      BY <1>1, <2>4, <2>7 DEF ConnType
    <3> HIDE DEF i
    <3>2. Longer(l.requests, i, {}, "connect")
      BY <2>3, <2>7, <3>1 DEF Longer
    <3> QED
      BY <3>2 DEF i
  <2>9. /\ l.rid = k.rid + 1 /\ l.data = <<>> /\ l.fails = k.fails /\ l.received = k.received
        /\ l.authenticated = k.authenticated /\ l.disconnecting = k.disconnecting
        /\ l.timer = k.timer /\ l.gaveUp = k.gaveUp /\ l.removing = k.removing
        /\ l.handlers = k.handlers /\ l.adding = k.adding /\ l.status = k.status
    BY <1>1, <1>2, <2>6 DEF ConnType
  <2>10. Asking(k, l, {}, "connect")
    BY <1>2, <2>7, <2>8, <2>9 DEF Asking
  <2>11. Kept(l, s)
    <3>1. LoggingIn(l) /\ l.sid
      BY <2>7, <2>9 DEF LoggingIn
    <3> QED
      BY <1>1, <1>2, <2>10, <3>1, KeptAskingLogin
  <2> QED
    BY <1>1, <2>1, <2>9, <2>10, <2>11, PassesAsking
<1>11. CASE a.kind = "data" /\ a.items = <<"offers">>
  <2> DEFINE j == [up EXCEPT !.sid = TRUE]
  <2>1. ConnectCb(k, a) = Authenticate(j, srv.profile.offers)
    BY <1>11 DEF ConnectCb
  <2>2. j \in ConnType
    BY <1>4 DEF ConnType
  <2>3. Pending(k, j)
    BY <1>2, <1>4, <1>5, <2>2 DEF Pending, ConnType, LoggingIn
  <2>4. s.offered
    BY <1>11 DEF Reads, Fits
  <2> HIDE DEF j
  <2>5. Decided(k, Authenticate(j, srv.profile.offers))
    BY <2>3, AuthenticateDecides
  <2> QED
    BY <1>1, <1>2, <2>1, <2>4, <2>5, PassesDecided
<1> QED
  BY <1>6, <1>7, <1>8, <1>9, <1>10, <1>11

LEMMA SameQueue ==
    ASSUME NEW k \in ConnType, InOrder(k), NEW l, Alike(k, l), l.requests = k.requests
    PROVE  Fewer(k, l) /\ Rids(l) = Rids(k)
<1>1. Len(k.requests) \in Nat
  BY QueueLength
<1>2. \A i \in 1 .. Len(k.requests) : i \in i .. Len(k.requests)
  BY <1>1
<1> QED
  BY <1>1, <1>2 DEF Fewer, Rids, InOrder

LEMMA MergedIs ==
    ASSUME NEW k \in ConnType
    PROVE  /\ Merged(k) \in ConnType /\ Merged(k).removing = {} /\ Merged(k).adding = {}
           /\ Merged(k) = [k EXCEPT !.handlers = Merged(k).handlers, !.removing = {}, !.adding = {}]
           /\ Alike(k, Merged(k)) /\ Merged(k).requests = k.requests
           /\ Merged(k).gaveUp = k.gaveUp
<1> DEFINE hs == (k.handlers \ k.removing) \cup k.adding
<1>1. Merged(k) = [k EXCEPT !.handlers = hs, !.removing = {}, !.adding = {}]
  BY DEF Merged
<1>2. hs \in SUBSET Handlers /\ ("confirm" \notin k.removing /\ "confirm" \in k.handlers \cup k.adding
                                   => "confirm" \in hs)
  BY DEF ConnType
<1> HIDE DEF hs
<1>3. Merged(k) \in ConnType
  BY <1>1, <1>2 DEF ConnType
<1>4. Merged(k).handlers = hs /\ Merged(k).removing = {} /\ Merged(k).adding = {}
  BY <1>1 DEF ConnType
<1>5. /\ Merged(k).status = k.status /\ Merged(k).fails = k.fails /\ Merged(k).rid = k.rid
      /\ Merged(k).sid = k.sid /\ Merged(k).data = k.data
      /\ Merged(k).authenticated = k.authenticated /\ Merged(k).received = k.received
      /\ Merged(k).disconnecting = k.disconnecting /\ Merged(k).timer = k.timer
      /\ Merged(k).requests = k.requests /\ Merged(k).gaveUp = k.gaveUp
  BY <1>1 DEF ConnType
<1>6. Alike(k, Merged(k))
  BY <1>2, <1>3, <1>4, <1>5 DEF Alike
<1> QED
  BY <1>1, <1>3, <1>4, <1>5, <1>6

LEMMA PassesAfter ==
    ASSUME NEW k, NEW s, NEW m, Fewer(k, m), Rids(m) = Rids(k), NEW l, Passes(m, l, s)
    PROVE  Passes(k, l, s)
  BY DEF Passes, Follow, Moves, Fewer, Alike, Live

LEMMA ConcatInjective ==
    ASSUME NEW S, NEW p \in Seq(S), NEW q \in Seq(S), IsInjective(p), IsInjective(q),
           \A m \in ToSet(q) : m \notin ToSet(p)
    PROVE  /\ p \o q \in Seq(S) /\ IsInjective(p \o q)
           /\ ToSet(p \o q) = ToSet(p) \cup ToSet(q)
<1>1. /\ Len(p) \in Nat /\ Len(q) \in Nat
      /\ DOMAIN p = 1 .. Len(p) /\ DOMAIN q = 1 .. Len(q)
  BY LenProperties
<1> DEFINE c == p \o q
<1>2. /\ c \in Seq(S) /\ Len(c) = Len(p) + Len(q)
      /\ \A i \in 1 .. Len(p) + Len(q) : c[i] = IF i =< Len(p) THEN p[i] ELSE q[i - Len(p)]
  BY ConcatProperties
<1>3. DOMAIN c = 1 .. Len(p) + Len(q)
  BY <1>2, LenProperties
<1> HIDE DEF c
<1>4. \A i \in 1 .. Len(p) : c[i] = p[i] /\ i \in DOMAIN c
  BY <1>1, <1>2, <1>3
<1>5. \A i \in 1 .. Len(q) : c[Len(p) + i] = q[i] /\ Len(p) + i \in DOMAIN c
  <2>1. ASSUME NEW i \in 1 .. Len(q) PROVE c[Len(p) + i] = q[i] /\ Len(p) + i \in DOMAIN c
    <3>1. Len(p) + i \in 1 .. Len(p) + Len(q) /\ ~(Len(p) + i =< Len(p)) /\ (Len(p) + i) - Len(p) = i
      BY <1>1
    <3> QED
      BY <1>2, <1>3, <3>1
  <2> QED
    BY <2>1
<1>6. \A i \in DOMAIN c : i \in 1 .. Len(p) \/ \E j \in 1 .. Len(q) : i = Len(p) + j
  <2>1. ASSUME NEW i \in DOMAIN c, ~(i \in 1 .. Len(p)) PROVE \E j \in 1 .. Len(q) : i = Len(p) + j
    <3>1. i - Len(p) \in 1 .. Len(q) /\ i = Len(p) + (i - Len(p))
      BY <1>1, <1>3, <2>1
    <3> QED
      BY <3>1
  <2> QED
    BY <2>1
<1>7. ToSet(c) = ToSet(p) \cup ToSet(q)
  BY <1>1, <1>4, <1>5, <1>6 DEF ToSet
<1>8. IsInjective(c)
  <2>1. ASSUME NEW i \in DOMAIN c, NEW j \in DOMAIN c, c[i] = c[j] PROVE i = j
    <3>1. CASE i \in 1 .. Len(p) /\ j \in 1 .. Len(p)
      BY <1>1, <1>4, <2>1, <3>1 DEF IsInjective
    <3>2. CASE i \in 1 .. Len(p) /\ \E b \in 1 .. Len(q) : j = Len(p) + b
      BY <1>1, <1>4, <1>5, <2>1, <3>2 DEF ToSet
    <3>3. CASE (\E b \in 1 .. Len(q) : i = Len(p) + b) /\ j \in 1 .. Len(p)
      BY <1>1, <1>4, <1>5, <2>1, <3>3 DEF ToSet
    <3>4. CASE (\E b \in 1 .. Len(q) : i = Len(p) + b) /\ \E b \in 1 .. Len(q) : j = Len(p) + b
      <4>1. PICK b \in 1 .. Len(q) : i = Len(p) + b
        BY <3>4
      <4>2. PICK d \in 1 .. Len(q) : j = Len(p) + d
        BY <3>4
      <4>3. q[b] = q[d]
        BY <1>5, <2>1, <4>1, <4>2
      <4>4. b = d
        BY <1>1, <4>3 DEF IsInjective
      <4> QED
        BY <4>1, <4>2, <4>4
    <3> QED
      BY <1>6, <3>1, <3>2, <3>3, <3>4
  <2> QED
    BY <2>1 DEF IsInjective
<1> QED
  BY <1>2, <1>7, <1>8 DEF c

LEMMA KeptHandedOver ==
    ASSUME NEW k, NEW s, Kept(k, s), NEW q \in Seq(s.sent), IsInjective(q),
           \A m \in ToSet(q) :
              /\ m \notin ToSet(k.received) \cup ToSet(s.out)
              /\ \A r \in DOMAIN s.cache : m \notin ToSet(s.cache[r].items),
           NEW l, l = [k EXCEPT !.received = k.received \o q]
    PROVE  Kept(l, s)
<1>1. k \in ConnType /\ s \in SrvType
  BY DEF Kept
<1>2. /\ l.received \in Seq(s.sent) /\ IsInjective(l.received)
      /\ ToSet(l.received) = ToSet(k.received) \cup ToSet(q)
  <2>1. l.received = k.received \o q
    BY <1>1 DEF ConnType
  <2>2. k.received \in Seq(s.sent) /\ IsInjective(k.received)
    BY DEF Kept, OnePlace
  <2>3. \A m \in ToSet(q) : m \notin ToSet(k.received)
    OBVIOUS
  <2> DEFINE p == k.received
  <2>4. p \in Seq(s.sent) /\ IsInjective(p) /\ \A m \in ToSet(q) : m \notin ToSet(p)
    BY <2>2, <2>3
  <2> HIDE DEF p
  <2>5. /\ p \o q \in Seq(s.sent) /\ IsInjective(p \o q)
        /\ ToSet(p \o q) = ToSet(p) \cup ToSet(q)
    BY <2>4, ConcatInjective
  <2> QED
    BY <2>1, <2>5 DEF p
<1>3. l \in ConnType
  <2>1. s.sent \subseteq Items
    BY <1>1 DEF SrvType, Items
  <2>2. l.received \in Seq(Items)
    BY <1>2, <2>1, SeqMonotonic
  <2>3. l = [k EXCEPT !.received = l.received]
    BY <1>1 DEF ConnType
  <2> QED
    BY <1>1, <2>2, <2>3 DEF ConnType
<1>4. /\ l.status = k.status /\ l.fails = k.fails /\ l.rid = k.rid /\ l.sid = k.sid
      /\ l.data = k.data /\ l.authenticated = k.authenticated /\ l.requests = k.requests
      /\ l.disconnecting = k.disconnecting /\ l.timer = k.timer
      /\ l.handlers = k.handlers /\ l.adding = k.adding /\ l.removing = k.removing
  BY <1>1 DEF ConnType
<1>5. LoggingIn(l) <=> LoggingIn(k)
  BY <1>4 DEF LoggingIn
<1>6. (Before(l) <=> Before(k)) /\ Rids(l) = Rids(k)
  BY <1>4, <1>5 DEF Before, Rids
<1>7. InOrder(l) /\ OneAtATime(l) /\ Standing(l) /\ Queued(l)
  BY <1>4, <1>5, <1>6 DEF Kept, InOrder, OneAtATime, Standing, Queued
<1>8. Bodies(l, s) /\ Online(l, s) /\ Open(l, s) /\ LoginOnItsWay(l, s) /\ Terminated(l, s)
  BY <1>4, <1>5, <1>6 DEF Kept, Bodies, Online, Open, LoginOnItsWay, Terminated
<1>9. OnePlace(l, s)
  <2>1. ASSUME NEW m \in s.sent
        PROVE  /\ m \in ToSet(s.out) => m \notin ToSet(l.received)
               /\ \A r \in DOMAIN s.cache : m \in ToSet(s.cache[r].items) => m \notin ToSet(l.received)
    BY <1>2 DEF Kept, OnePlace
  <2> QED
    BY <1>2, <2>1 DEF Kept, OnePlace
<1> QED
  BY <1>1, <1>3, <1>7, <1>8, <1>9 DEF Kept

(* An answer to any other request.                                         *)
LEMMA DataRecvReacts ==
    ASSUME NEW k, NEW s, NEW a, Reads(k, s, a), LoggingIn(k) => k.sid
    PROVE  Reacts(k, DataRecv(k, a), s, a)
<1>1. /\ k \in ConnType /\ s \in SrvType /\ Kept(k, s) /\ InOrder(k) /\ Standing(k)
      /\ "confirm" \notin k.removing
  BY DEF Reads, Kept, Standing
<1>2. Settled(k, s) /\ k.status # "none" /\ Len(k.requests) =< 1
  BY DEF Reads, Fits, Settled
<1>3. a.kind \in {"data", "terminate", "parsererror", "null"}
  BY DEF Reads, Fits, AnswerType
<1>4. CASE a.kind = "null"
  <2> DEFINE l == [k EXCEPT !.gaveUp = TRUE]
  <2>1. DataRecv(k, a) = l
    BY <1>4 DEF DataRecv
  <2>2. l \in ConnType
    BY <1>1 DEF ConnType
  <2>3. Alike(k, l) /\ l.requests = k.requests /\ l.gaveUp
    BY <1>1, <2>2 DEF Alike, ConnType
  <2> HIDE DEF l
  <2> QED
    BY <1>1, <2>1, <2>3, SameQueue, PassesFewer DEF Reacts
<1>5. CASE a.kind = "parsererror"
  <2> DEFINE d == Disconnect(k)
             m == Merged(d)
  <2>1. Closing(k, d) /\ d.fails = k.fails
    BY <1>1, DisconnectIs
  <2> HIDE DEF d
  <2>2. d \in ConnType
    BY <2>1 DEF Closing
  <2>3. /\ m \in ConnType /\ m.removing = {} /\ Alike(d, m) /\ m.requests = d.requests
    BY <2>2, MergedIs
  <2> HIDE DEF m
  <2>4. Closing(k, m) /\ m.fails = k.fails
    BY <2>1, <2>3 DEF Closing, Alike
  <2>5. CASE m.disconnecting /\ m.requests = <<>>
    <3>1. DataRecv(k, a) = DoDisconnect(m)
      BY <1>5, <2>5 DEF DataRecv, m, d
    <3>2. Ended(m, DoDisconnect(m)) /\ DoDisconnect(m).fails = k.fails
      BY <2>3, <2>4, DoDisconnectIs
    <3>3. m.requests = k.requests /\ m.rid = k.rid
      <4>1. Len(m.requests) = 0 /\ Len(k.requests) \in Nat
        BY <1>1, <2>5, QueueLength
      <4>2. ASSUME NEW body, Longer(m.requests, k, body, "data") PROVE FALSE
        <5>1. Len(m.requests) = Len(k.requests) + 1
          BY <4>2 DEF Longer
        <5> QED
          BY <4>1, <5>1
      <4> QED
        BY <2>4, <4>2 DEF Closing
    <3>4. Ended(k, DoDisconnect(m))
      BY <2>4, <3>2, <3>3 DEF Ended, Closing
    <3>5. Passes(k, DoDisconnect(m), s)
      BY <1>1, <1>2, <3>2, <3>4, PassesEnded DEF Told
    <3> QED
      BY <3>1, <3>4, <3>5 DEF Reacts, Ended
  <2>6. CASE ~(m.disconnecting /\ m.requests = <<>>)
    <3>1. DataRecv(k, a) = m
      BY <1>5, <2>6 DEF DataRecv, m, d
    <3>2. Passes(k, m, s)
      BY <1>1, <1>2, <2>4, PassesClosing DEF Told
    <3> QED
      BY <2>4, <3>1, <3>2 DEF Reacts, Closing
  <2> QED
    BY <2>5, <2>6
<1>6. CASE a.kind = "data" \/ a.kind = "terminate"
  <2> DEFINE m == Merged(k)
  <2>1. /\ m \in ConnType /\ m.removing = {} /\ m.adding = {}
        /\ Alike(k, m) /\ m.requests = k.requests /\ m.gaveUp = k.gaveUp
    BY <1>1, MergedIs
  <2>2. Fewer(k, m) /\ Rids(m) = Rids(k)
    BY <1>1, <2>1, SameQueue
  <2>3. Passes(k, m, s)
    BY <1>1, <2>2, PassesFewer
  <2>4. DataRecv(k, a) =
          IF m.disconnecting /\ m.requests = <<>> THEN DoDisconnect(m)
          ELSE IF a.kind = "terminate"
               THEN IF m.disconnecting THEN m ELSE Disconnect(Tell(m, "CONNFAIL"))
               ELSE Handled(m, a.items)
    BY <1>6 DEF DataRecv
  <2> HIDE DEF m
  <2>5. CASE m.disconnecting /\ m.requests = <<>>
    <3>1. DataRecv(k, a) = DoDisconnect(m)
      BY <2>4, <2>5
    <3>2. Ended(m, DoDisconnect(m)) /\ DoDisconnect(m).fails = m.fails
      BY <2>1, DoDisconnectIs
    <3>3. Ended(k, DoDisconnect(m)) /\ DoDisconnect(m).fails = k.fails
      BY <2>1, <3>2 DEF Ended, Alike
    <3>4. Passes(k, DoDisconnect(m), s)
      BY <1>1, <1>2, <3>3, PassesEnded DEF Told
    <3> QED
      BY <3>1, <3>3, <3>4 DEF Reacts, Ended
  <2>6. CASE ~(m.disconnecting /\ m.requests = <<>>) /\ a.kind = "terminate" /\ m.disconnecting
    <3>1. DataRecv(k, a) = m
      BY <2>4, <2>6
    <3>2. m.status # "CONNECTED"
      BY <1>1, <2>1, <2>6 DEF Standing, Alike
    <3> QED
      BY <2>3, <3>1, <3>2 DEF Reacts
  <2>7. CASE ~(m.disconnecting /\ m.requests = <<>>) /\ a.kind = "terminate" /\ ~m.disconnecting
    <3> DEFINE j == Tell(m, "CONNFAIL")
    <3>1. DataRecv(k, a) = Disconnect(j)
      BY <2>4, <2>7
    <3>2. /\ j = [m EXCEPT !.status = "CONNFAIL", !.fails = 1] /\ j \in ConnType
          /\ \A l : l.fails = 1 => Told(k, l, s)
      <4>1. m.fails = k.fails
        BY <2>1 DEF Alike
      <4> QED
        BY <2>1, <2>7, <4>1, FailTold
    <3>3. /\ j.requests = m.requests /\ j.rid = m.rid /\ j.sid = m.sid /\ j.data = m.data
          /\ j.authenticated = m.authenticated /\ j.received = m.received
          /\ j.removing = m.removing /\ j.fails = 1
      BY <2>1, <3>2 DEF ConnType
    <3> HIDE DEF j
    <3>4. Closing(k, Disconnect(j)) /\ Disconnect(j).fails = 1
      BY <1>1, <2>1, <3>2, <3>3, DisconnectIs DEF Alike
    <3>5. Passes(k, Disconnect(j), s)
      BY <1>1, <1>2, <3>2, <3>4, PassesClosing
    <3> QED
      BY <3>1, <3>4, <3>5 DEF Reacts, Closing
  <2>8. CASE ~(m.disconnecting /\ m.requests = <<>>) /\ a.kind = "data"
    <3>1. DataRecv(k, a) = Handled(m, a.items)
      BY <2>4, <2>8
    <3>2. CASE LoggingIn(k) /\ a.items = <<>>
      <4>1. DataRecv(k, a) = m /\ k.status # "CONNECTED"
        BY <3>1, <3>2, HandledNone DEF LoggingIn
      <4> QED
        BY <2>3, <4>1 DEF Reacts
    <3>3. CASE LoggingIn(k) /\ a.items # <<>>
      <4> DEFINE l == Handle(m, a.items[1])
      <4>1. DataRecv(k, a) = l /\ s.offered
        BY <3>1, <3>3, HandledOne DEF Reads, Fits
      <4>2. Kept(m, s) /\ LoggingIn(m) /\ NoItems(s) /\ m.requests = <<>> /\ m.data = <<>>
        BY <2>1, <2>3, <3>3 DEF Passes, Alike, LoggingIn, Reads, Fits
      <4>3. Pending(m, m)
        BY <2>1, <3>3, <4>2 DEF Pending, Kept, Standing, Alike, LoggingIn
      <4>4. Outcome(m, l)
        BY <4>3, HandleDecides
      <4> HIDE DEF l
      <4>5. Passes(m, l, s)
        <5>1. CASE Decided(m, l)
          BY <4>1, <4>2, <5>1, PassesDecided
        <5>2. CASE Closing(m, l) /\ l.fails = m.fails
          <6>1. Settled(m, s) /\ Len(m.requests) =< 1 /\ m.status # "none" /\ Told(m, l, s)
            BY <4>2, <5>2 DEF Settled, Told, LoggingIn
          <6> QED
            BY <4>2, <5>2, <6>1, PassesClosing
        <5> QED
          BY <4>4, <5>1, <5>2 DEF Outcome
      <4>6. Passes(k, l, s)
        BY <2>2, <4>5, PassesAfter
      <4> QED
        BY <3>3, <4>1, <4>6 DEF Reacts, LoggingIn
    <3>4. CASE ~LoggingIn(k)
      <4> DEFINE q == a.items
      <4>1. /\ q \in Seq(s.sent) /\ IsInjective(q)
            /\ \A x \in ToSet(q) :
                  /\ x \notin ToSet(m.received) \cup ToSet(s.out)
                  /\ \A r \in DOMAIN s.cache : x \notin ToSet(s.cache[r].items)
        <5>1. m.received = k.received
          BY <2>1 DEF Alike
        <5> QED
          BY <3>4, <5>1 DEF Reads, Fits
      <4>2. q \in Seq(Messages)
        <5>1. s.sent \subseteq Messages
          BY <1>1 DEF SrvType
        <5> QED
          BY <4>1, <5>1, SeqMonotonic
      <4> HIDE DEF q
      <4>3. Handled(m, q) = IF "confirm" \in m.handlers /\ m.authenticated
                            THEN [m EXCEPT !.received = m.received \o q] ELSE m
        BY <2>1, <4>2, HandledConfirms
      <4>4. Kept(m, s) /\ Standing(m) /\ m.status = k.status /\ m.fails = k.fails
            /\ m.received = k.received /\ m.authenticated = k.authenticated
        BY <2>1, <2>3 DEF Passes, Kept, Alike
      <4>5. CASE "confirm" \in m.handlers /\ m.authenticated
        <5> DEFINE l == [m EXCEPT !.received = m.received \o q]
        <5>1. DataRecv(k, a) = l
          BY <3>1, <4>3, <4>5 DEF q
        <5>2. Kept(l, s)
          BY <4>1, <4>4, KeptHandedOver
        <5>3. /\ l.status = m.status /\ l.fails = m.fails /\ l.received = m.received \o q
              /\ l.requests = m.requests /\ l.gaveUp = m.gaveUp
          BY <2>1 DEF ConnType
        <5> HIDE DEF l
        <5>4. Follow(k, l, s)
          BY <2>3, <5>3 DEF Passes, Follow, Rids, Live
        <5>5. k.status \in {"CONNECTED", "DISCONNECTING"}
          BY <1>1, <4>4, <4>5 DEF Standing
        <5> QED
          BY <2>8, <3>4, <4>4, <5>1, <5>2, <5>3, <5>4, <5>5 DEF Reacts, HandsOver, q
      <4>6. CASE ~("confirm" \in m.handlers /\ m.authenticated)
        <5>1. DataRecv(k, a) = m
          BY <3>1, <4>3, <4>6 DEF q
        <5>2. k.status # "CONNECTED"
          BY <2>1, <4>4, <4>6 DEF Standing
        <5> QED
          BY <2>3, <5>1, <5>2 DEF Reacts
      <4> QED
        BY <4>5, <4>6
    <3> QED
      BY <3>2, <3>3, <3>4
  <2> QED
    BY <1>6, <2>5, <2>6, <2>7, <2>8
<1> QED
  BY <1>3, <1>4, <1>5, <1>6

------------------------------------------------------------------------------
(* One request of the queue is changed.                                    *)
LEMMA TouchedKeeps ==
    ASSUME NEW k \in ConnType, NEW i \in 1 .. Len(k.requests), NEW r \in RequestType,
           r.rid = k.requests[i].rid, r.sid = k.requests[i].sid,
           r.body = k.requests[i].body, r.func = k.requests[i].func
    PROVE  Resent(k, [k EXCEPT !.requests = [k.requests EXCEPT ![i] = r]])
<1> DEFINE q == [k.requests EXCEPT ![i] = r]
<1>1. k.requests \in Seq(RequestType)
  BY QueueLength
<1>2. /\ q \in Seq(RequestType) /\ Len(q) = Len(k.requests)
      /\ \A j \in 1 .. Len(k.requests) : q[j] = IF j = i THEN r ELSE k.requests[j]
  BY <1>1, ExceptSeq
<1> HIDE DEF q
<1>3. Same(q, k.requests)
  BY <1>2 DEF Same
<1> QED
  BY <1>3 DEF Resent, q

LEMMA ResentRids ==
    ASSUME NEW k \in ConnType, InOrder(k), NEW l, Resent(k, l)
    PROVE  Fewer(k, l) /\ Rids(l) = Rids(k) /\ Len(l.requests) = Len(k.requests)
           /\ l = [k EXCEPT !.requests = l.requests] /\ l \in ConnType
<1>1. l \in ConnType /\ l = [k EXCEPT !.requests = l.requests] /\ Same(l.requests, k.requests)
  BY ResentType
<1>2. Len(l.requests) = Len(k.requests)
      /\ \A i \in 1 .. Len(k.requests) : l.requests[i].rid = k.requests[i].rid
  BY <1>1 DEF Same
<1>3. Rids(l) = Rids(k)
  <2>1. /\ Rids(k) = {k.requests[i].rid : i \in 1 .. Len(k.requests)}
        /\ Rids(l) = {l.requests[i].rid : i \in 1 .. Len(l.requests)}
    BY <1>1, RidsAre
  <2>2. {l.requests[i].rid : i \in 1 .. Len(l.requests)} = {k.requests[i].rid : i \in 1 .. Len(k.requests)}
    BY <1>2
  <2> QED
    BY <2>1, <2>2
<1>4. Fewer(k, l)
  BY ResentFewer
<1> QED
  BY <1>1, <1>2, <1>3, <1>4

LEMMA RestartKeeps ==
    ASSUME NEW k \in ConnType, InOrder(k), k.requests # <<>>
    PROVE  Resent(k, RestartRequest(k))
<1>1. 1 \in 1 .. Len(k.requests)
  BY QueueLength, EmptySeq
<1> DEFINE r == [k.requests[1] EXCEPT !.dead = IF @ = "none" THEN "fresh" ELSE @]
           l == [k EXCEPT !.requests = [k.requests EXCEPT ![1] = r]]
<1>2. k.requests[1] \in RequestType
  BY <1>1, ElementType
<1>3. /\ r \in RequestType /\ r.rid = k.requests[1].rid /\ r.sid = k.requests[1].sid
      /\ r.body = k.requests[1].body /\ r.func = k.requests[1].func
  BY <1>2 DEF RequestType
<1> HIDE DEF r
<1>4. Resent(k, l)
  BY <1>1, <1>3, TouchedKeeps
<1>5. RestartRequest(k) = ProcessRequest(l, 1)
  BY DEF RestartRequest, r, ConnType
<1> HIDE DEF l
<1>6. l \in ConnType /\ Len(l.requests) = Len(k.requests)
  BY <1>4, ResentRids
<1>7. Resent(l, ProcessRequest(l, 1))
  BY <1>1, <1>6, ProcessKeeps
<1> QED
  BY <1>4, <1>5, <1>7, ResentTwice

LEMMA WithoutTwice ==
    ASSUME NEW s \in SrvType, NEW D, NEW E, \A r \in DOMAIN s.cache \cap E : r \in D
    PROVE  Without(Without(s, D), E) = Without(s, E)
<1> DEFINE c == [r \in DOMAIN s.cache \cap D |-> s.cache[r]]
           d == [r \in DOMAIN c \cap E |-> c[r]]
           e == [r \in DOMAIN s.cache \cap E |-> s.cache[r]]
<1>1. d = e
  OBVIOUS
<1>2. Without(s, D) = [s EXCEPT !.cache = c] /\ Without(s, E) = [s EXCEPT !.cache = e]
  BY DEF Without
<1>3. Without(s, D).cache = c
  BY <1>2 DEF SrvType
<1>4. Without(Without(s, D), E) = [Without(s, D) EXCEPT !.cache = d]
  BY <1>3 DEF Without
<1> HIDE DEF c, d, e
<1> QED
  BY <1>1, <1>2, <1>4 DEF SrvType

(* What is removed from the queue and from the network.                    *)
LEMMA KeptRemoved ==
    ASSUME NEW k, NEW s, Kept(k, s), NEW i \in 1 .. Len(k.requests)
    PROVE  LET m == RemoveRequest(k, i)
               t == Without(s, Rids(m))
           IN  /\ Fewer(k, m) /\ Len(m.requests) = Len(k.requests) - 1
               /\ Rids(m) = Rids(k) \ {k.requests[i].rid}
               /\ Kept(k, t) /\ Kept(m, t)
<1> DEFINE m == RemoveRequest(k, i)
           t == Without(s, Rids(m))
<1>1. k \in ConnType /\ InOrder(k) /\ s \in SrvType
  BY DEF Kept
<1>2. Fewer(k, m) /\ Len(m.requests) = Len(k.requests) - 1 /\ Rids(m) = Rids(k) \ {k.requests[i].rid}
  BY <1>1, RemoveRequestKeeps
<1>3. Kept(k, t) /\ DOMAIN t.cache \subseteq Rids(m)
  BY <1>1, KeptWithout, WithoutIs
<1> HIDE DEF m, t
<1>4. Kept(m, t)
  BY <1>2, <1>3, KeptFewer
<1> QED
  BY <1>2, <1>3, <1>4 DEF m, t

LEMMA LoginAlone ==
    ASSUME NEW k, NEW s, Kept(k, s), LoggingIn(k), NEW i \in 1 .. Len(k.requests)
    PROVE  /\ Len(k.requests) = 1 /\ k.data = <<>>
           /\ RemoveRequest(k, i).requests = <<>> /\ Rids(k) = {k.requests[i].rid}
<1>1. k \in ConnType /\ Len(k.requests) \in Nat /\ Len(k.data) \in Nat
  <2>1. k \in ConnType /\ k.data \in Seq(Stanzas)
    BY DEF Kept, ConnType
  <2> QED
    BY <2>1, QueueLength, LenProperties
<1>2. Len(k.requests) + Len(k.data) =< 1
  BY DEF Kept, OneAtATime
<1>3. Len(k.requests) = 1 /\ Len(k.data) = 0
  <2>1. \A a, b \in Nat : \A n \in 1 .. a : a + b =< 1 => a = 1 /\ b = 0
    OBVIOUS
  <2> QED
    BY <1>1, <1>2, <2>1
<1>4. k.data = <<>>
  BY <1>1, <1>3, EmptySeq DEF ConnType
<1>5. RemoveRequest(k, i).requests = <<>>
  <2> DEFINE m == RemoveRequest(k, i)
  <2>1. m \in ConnType /\ Len(m.requests) = Len(k.requests) - 1
    BY KeptRemoved DEF Fewer, Alike
  <2> HIDE DEF m
  <2>2. Len(m.requests) = 0 /\ m.requests \in Seq(RequestType)
    BY <1>3, <2>1, QueueLength
  <2>3. m.requests = <<>>
    BY <2>2, EmptySeq
  <2> QED
    BY <2>3 DEF m
<1>6. Rids(k) = {k.requests[i].rid}
  BY <1>1, <1>3, RidsAre
<1> QED
  BY <1>3, <1>4, <1>5, <1>6

LEMMA ReadsRemoved ==
    ASSUME NEW k, NEW s, Kept(k, s), NEW i \in 1 .. Len(k.requests),
           k.requests[i].rid \in DOMAIN s.cache,
           NEW a, a = s.cache[k.requests[i].rid]
                  \/ \E kind \in {"parsererror", "null"} : a = Broken(kind)
    PROVE  Reads(RemoveRequest(k, i), Without(s, Rids(RemoveRequest(k, i))), a)
<1> DEFINE m == RemoveRequest(k, i)
           t == Without(s, Rids(m))
           rid == k.requests[i].rid
<1>1. /\ Fewer(k, m) /\ Len(m.requests) = Len(k.requests) - 1 /\ Rids(m) = Rids(k) \ {rid}
      /\ Kept(k, t) /\ Kept(m, t)
  BY KeptRemoved
<1>2. k \in ConnType /\ s \in SrvType
  BY DEF Kept
<1>3. /\ DOMAIN t.cache = DOMAIN s.cache \cap Rids(m)
      /\ \A r \in DOMAIN t.cache : t.cache[r] = s.cache[r]
      /\ t.alive = s.alive /\ t.out = s.out /\ t.sent = s.sent /\ t.offered = s.offered
  BY <1>2, WithoutIs
<1>4. rid \notin DOMAIN t.cache /\ rid \in DOMAIN s.cache
  BY <1>1, <1>3
<1>5. /\ s.cache[rid] \in AnswerType /\ s.cache[rid].items \in Seq(Items)
      /\ s.cache[rid].kind \in {"data", "terminate"}
      /\ (s.cache[rid].kind # "data" => s.cache[rid].items = <<>>)
  BY <1>2, <1>4, ServerParts DEF Kept, Terminated
<1>6. ASSUME a # s.cache[rid]
      PROVE  a \in AnswerType /\ a.items = <<>> /\ a.kind \in {"parsererror", "null"}
  <2>1. PICK kind \in {"parsererror", "null"} : a = Broken(kind)
    BY <1>6
  <2>2. a = [kind |-> kind, items |-> <<>>] /\ <<>> \in Seq(Items)
    BY <2>1, EmptySeq DEF Broken
  <2> QED
    BY <2>2 DEF AnswerType
<1>7. a \in AnswerType /\ (a.kind # "data" => a.items = <<>>)
  BY <1>5, <1>6
<1>8. Len(m.requests) =< 1 /\ m.status # "none"
  <2>1. Len(k.requests) \in Nat /\ Len(k.requests) =< 2
    BY <1>2, QueueLength DEF Kept, InOrder
  <2>2. k.requests # <<>>
    BY <2>1
  <2>3. k.status # "none"
    BY <2>2 DEF Kept, OneAtATime, Before, LoggingIn
  <2>4. \A n \in Nat : n =< 2 => n - 1 =< 1
    OBVIOUS
  <2>5. m.status = k.status
    BY <1>1 DEF Fewer, Alike
  <2> QED
    BY <1>1, <2>1, <2>3, <2>4, <2>5
<1>9. m.status = k.status /\ m.data = k.data /\ m.received = k.received /\ m.fails = k.fails
  BY <1>1 DEF Fewer, Alike
<1> HIDE DEF m, t
<1>10. ASSUME LoggingIn(m)
       PROVE  /\ m.requests = <<>> /\ m.data = <<>> /\ NoItems(t)
              /\ a.items # <<>> => Len(a.items) = 1 /\ t.offered
  <2>1. LoggingIn(k)
    BY <1>9, <1>10 DEF LoggingIn
  <2>2. m.requests = <<>> /\ m.data = <<>>
    BY <1>9, <2>1, LoginAlone DEF m
  <2>3. \A j \in 1 .. Len(t.out) : t.out[j] \notin LoginItems
    BY <1>3, <1>4 DEF Kept, LoginOnItsWay
  <2>4. NoItems(t)
    <3>1. Before(m)
      BY <1>10 DEF Before
    <3> QED
      BY <1>1, <2>2, <2>3, <3>1, NothingOnItsWay
  <2>5. ASSUME a.items # <<>> PROVE Len(a.items) = 1 /\ t.offered
    <3>1. a = s.cache[rid] /\ Len(a.items) \in Nat \ {0}
      BY <1>5, <1>6, <2>5, EmptySeq
    <3>2. a.items[1] \in LoginItems /\ 1 \in 1 .. Len(a.items)
      BY <1>4, <2>1, <3>1, OnlyLogin DEF Before
    <3>3. Len(a.items) = 1
      BY <1>4, <3>1, <3>2 DEF Kept, LoginOnItsWay
    <3>4. s.offered
      BY <1>4, <2>5, <3>1 DEF Kept, Bodies
    <3> QED
      BY <1>3, <3>3, <3>4
  <2> QED
    BY <2>2, <2>4, <2>5
<1>11. ASSUME ~LoggingIn(m)
       PROVE  /\ a.items \in Seq(t.sent) /\ IsInjective(a.items)
              /\ \A x \in ToSet(a.items) :
                    /\ x \notin ToSet(m.received) \cup ToSet(t.out)
                    /\ \A r \in DOMAIN t.cache : x \notin ToSet(t.cache[r].items)
  <2>1. CASE a = s.cache[rid]
    <3>1. DOMAIN a.items = 1 .. Len(a.items) /\ a.items \in Seq(Items)
      BY <1>5, <2>1, LenProperties
    <3>2. ~LoggingIn(k)
      BY <1>9, <1>11 DEF LoggingIn
    <3>3. ToSet(a.items) \subseteq s.sent
      BY <1>4, <2>1, <3>1, <3>2 DEF Kept, LoginOnItsWay, OnePlace, ToSet
    <3>4. a.items \in Seq(s.sent)
      <4> DEFINE q == a.items
      <4>1. q \in [1 .. Len(q) -> Items] /\ Len(q) \in Nat /\ \A j \in 1 .. Len(q) : q[j] \in s.sent
        BY <3>1, <3>3, LenProperties DEF ToSet
      <4> HIDE DEF q
      <4>2. q \in [1 .. Len(q) -> s.sent]
        BY <4>1
      <4>3. q \in Seq(s.sent)
        BY <4>1, <4>2, SeqDef
      <4> QED
        BY <4>3 DEF q
    <3>5. IsInjective(a.items)
      BY <1>4, <2>1 DEF Kept, OnePlace
    <3>6. ASSUME NEW x \in ToSet(a.items)
          PROVE  /\ x \notin ToSet(k.received) \cup ToSet(s.out)
                 /\ \A r \in DOMAIN t.cache : x \notin ToSet(t.cache[r].items)
      BY <1>3, <1>4, <2>1, <3>3 DEF Kept, OnePlace
    <3> QED
      BY <1>3, <1>9, <3>4, <3>5, <3>6
  <2>2. CASE a # s.cache[rid]
    <3>1. a.items = <<>>
      BY <1>6, <2>2
    <3>2. <<>> \in Seq(t.sent)
      BY EmptySeq
    <3> QED
      BY <3>1, <3>2 DEF IsInjective, ToSet
  <2> QED
    BY <2>1, <2>2
<1>12. ASSUME a.kind = "terminate"
       PROVE  ~t.alive /\ m.fails = 0 /\ \A r \in DOMAIN t.cache : t.cache[r].kind # "terminate"
  <2>1. a = s.cache[rid]
    BY <1>6, <1>12
  <2> QED
    BY <1>3, <1>4, <1>9, <1>12, <2>1 DEF Kept, Terminated
<1>13. Fits(m, t, a)
  BY <1>7, <1>8, <1>10, <1>11, <1>12 DEF Fits
<1> QED
  BY <1>1, <1>13 DEF Reads, m, t

LEMMA FitsFewer ==
    ASSUME NEW k, NEW s, NEW a, Reads(k, s, a), NEW l, Resent(k, l)
    PROVE  Reads(l, s, a) /\ Fewer(k, l) /\ Rids(l) = Rids(k) /\ l.gaveUp = k.gaveUp
<1>1. k \in ConnType /\ InOrder(k) /\ Kept(k, s)
  BY DEF Reads, Kept
<1>2. /\ Fewer(k, l) /\ Rids(l) = Rids(k) /\ Len(l.requests) = Len(k.requests)
      /\ l = [k EXCEPT !.requests = l.requests] /\ l \in ConnType
  BY <1>1, ResentRids
<1>3. Kept(l, s)
  BY <1>1, <1>2, KeptFewer
<1>4. l.gaveUp = k.gaveUp
  BY <1>1, <1>2 DEF ConnType
<1>5. k.requests = <<>> => l.requests = <<>>
  BY <1>2, QueueLength, EmptySeq
<1>6. /\ l.status = k.status /\ l.data = k.data /\ l.received = k.received /\ l.fails = k.fails
  BY <1>2 DEF Fewer, Alike
<1>7. Fits(l, s, a)
  BY <1>2, <1>5, <1>6 DEF Reads, Fits, LoggingIn
<1> QED
  BY <1>2, <1>3, <1>4, <1>7 DEF Reads

LEMMA ReactsErrors ==
    ASSUME NEW k, NEW s, NEW a, NEW l, Reacts(k, l, s, a)
    PROVE  Reacts(k, [l EXCEPT !.errors = 0], s, a)
<1> DEFINE m == [l EXCEPT !.errors = 0]
<1>1. Kept(l, s) /\ l \in ConnType /\ InOrder(l)
  BY DEF Reacts, HandsOver, Passes, Kept
<1>2. m \in ConnType
  <2>1. 0 \in NaN .. 5
    BY DEF NaN
  <2> QED
    BY <1>1, <2>1 DEF ConnType
<1>3. Alike(l, m) /\ m.requests = l.requests /\ m.gaveUp = l.gaveUp
  BY <1>1, <1>2 DEF Alike, ConnType
<1> HIDE DEF m
<1>4. Fewer(l, m) /\ Rids(m) = Rids(l)
  BY <1>1, <1>3, SameQueue
<1>5. Kept(m, s)
  BY <1>1, <1>4, KeptFewer
<1>6. m.status = l.status /\ m.fails = l.fails /\ m.received = l.received
  BY <1>3 DEF Alike
<1>7. HandsOver(k, l, s, a) => HandsOver(k, m, s, a)
  BY <1>3, <1>4, <1>5, <1>6 DEF HandsOver, Follow, Live
<1>8. Passes(k, l, s) => Passes(k, m, s)
  BY <1>3, <1>4, <1>5, <1>6 DEF Passes, Follow, Live, Moves
<1>9. Reacts(k, m, s, a)
  BY <1>3, <1>6, <1>7, <1>8 DEF Reacts
<1> QED
  BY <1>9 DEF m

LEMMA AnsweredReacts ==
    ASSUME NEW k, NEW s, NEW a, Reads(k, s, a), NEW func \in {"connect", "data"},
           func = "connect" => LoggingIn(k), func = "data" /\ LoggingIn(k) => k.sid
    PROVE  Reacts(k, Answered(k, func, a), s, a)
<1> DEFINE done == IF func = "connect" THEN ConnectCb(k, a) ELSE DataRecv(k, a)
<1>1. Reacts(k, done, s, a)
  <2>1. CASE func = "connect"
    BY <2>1, ConnectCbPasses DEF Reacts, LoggingIn
  <2>2. CASE func = "data"
    BY <2>2, DataRecvReacts
  <2> QED
    BY <2>1, <2>2
<1>2. Answered(k, func, a) = done \/ Answered(k, func, a) = [done EXCEPT !.errors = 0]
  BY DEF Answered
<1> HIDE DEF done
<1> QED
  BY <1>1, <1>2, ReactsErrors

(* What one callback tells pos.js, or hands to it.                         *)
Handed(k, l, s) ==
    /\ l.status = k.status /\ l.fails = k.fails /\ PhaseOf(k.status) \in {"open", "closing"}
    /\ \E q \in Seq(s.sent) :
          /\ IsInjective(q) /\ \A m \in ToSet(q) : m \notin ToSet(k.received)
          /\ l.received = k.received \o q

Tells(k, l, s) == Moves(k, l) \/ Handed(k, l, s)

Done(k, l, s) == Holds(l, Without(s, Rids(l))) /\ Tells(k, l, s)

LEMMA Status200Done ==
    ASSUME NEW k, NEW s, Holds(k, s), NEW i \in 1 .. Len(k.requests),
           k.requests[i].rid \in DOMAIN s.cache,
           NEW a, a = s.cache[k.requests[i].rid]
                  \/ \E kind \in {"parsererror", "null"} : a = Broken(kind)
    PROVE  Done(k, Status200(k, i, a), s)
<1> DEFINE rid == k.requests[i].rid
           m == RemoveRequest(k, i)
           t == Without(s, Rids(m))
           n == IF m.requests # <<>>
                   /\ (i = 2 \/ (i = 1 /\ m.requests[1].age \in {"aged", "old"}))
                THEN RestartRequest(m) ELSE m
           l == Status200(k, i, a)
<1>1. Kept(k, s) /\ k \in ConnType /\ s \in SrvType
  BY DEF Holds, Kept
<1>2. Reads(m, t, a)
  BY <1>1, ReadsRemoved
<1>3. Fewer(k, m) /\ Rids(m) = Rids(k) \ {rid}
  BY <1>1, KeptRemoved
<1>4. l = Answered(n, k.requests[i].func, a)
  BY DEF Status200
<1>5. /\ DOMAIN t.cache = DOMAIN s.cache \cap Rids(m)
      /\ \A r \in DOMAIN t.cache : t.cache[r] = s.cache[r]
      /\ t.alive = s.alive /\ t.out = s.out /\ t.sent = s.sent /\ t.next = s.next
  BY <1>1, WithoutIs
<1> HIDE DEF m, t, l
<1>6. Resent(m, n)
  <2>1. m \in ConnType /\ InOrder(m)
    BY <1>2 DEF Reads, Kept
  <2> QED
    BY <2>1, RestartKeeps, ResentItself
<1> HIDE DEF n
<1>7. Reads(n, t, a) /\ Fewer(m, n) /\ Rids(n) = Rids(m) /\ n.gaveUp = m.gaveUp
  BY <1>2, <1>6, FitsFewer
<1>8. /\ n.status = k.status /\ n.fails = k.fails /\ n.received = k.received
      /\ n.sid = k.sid /\ (Live(n) => Live(k))
  BY <1>3, <1>7 DEF Fewer, Alike, Live
<1>9. Reacts(n, l, t, a)
  <2> DEFINE func == k.requests[i].func
  <2>1. func \in {"connect", "data"}
    BY <1>1, ElementType
  <2>2. func = "connect" => LoggingIn(k)
    BY <1>1 DEF Kept, Queued
  <2>3. func = "data" /\ LoggingIn(k) => k.sid
    BY <1>1 DEF Kept, OneAtATime
  <2>4. LoggingIn(n) <=> LoggingIn(k)
    BY <1>8 DEF LoggingIn
  <2> HIDE DEF func
  <2>5. Reacts(n, Answered(n, func, a), t, a)
    BY <1>7, <1>8, <2>1, <2>2, <2>3, <2>4, AnsweredReacts
  <2> QED
    BY <1>4, <2>5 DEF func
<1>10. Kept(l, t) /\ Follow(n, l, t)
  BY <1>9 DEF Reacts, HandsOver, Passes
<1>11. Without(t, Rids(l)) = Without(s, Rids(l))
  <2>1. \A r \in DOMAIN s.cache \cap Rids(l) : r \in Rids(m)
    <3>1. \A r \in DOMAIN s.cache : r < s.next /\ r \in Nat /\ s.next \in Nat
      BY <1>1, ServerParts DEF Kept, Open
    <3>2. \A r \in Rids(l) : r \in Rids(m) \/ r >= s.next
      BY <1>5, <1>7, <1>10 DEF Follow
    <3> QED
      BY <3>1, <3>2
  <2> QED
    BY <1>1, <2>1, WithoutTwice DEF t
<1> DEFINE u == Without(s, Rids(l))
<1>12. Kept(l, u)
  BY <1>10, <1>11, KeptWithout
<1>13. /\ DOMAIN u.cache = DOMAIN s.cache \cap Rids(l)
       /\ \A r \in DOMAIN u.cache : u.cache[r] = s.cache[r]
       /\ u.alive = s.alive /\ u.out = s.out /\ u.sent = s.sent /\ u.open = s.open
  BY <1>1, WithoutIs
<1> HIDE DEF u
<1>14. Awaited(l, u)
  <2>1. ASSUME Live(l) PROVE s.open \subseteq Rids(l)
    <3>1. s.open \subseteq Rids(k) /\ Rids(n) \subseteq Rids(l)
      BY <1>8, <1>10, <2>1 DEF Follow, Holds, Awaited
    <3>2. rid \notin s.open
      BY <1>1 DEF Kept, Open
    <3> QED
      BY <1>3, <1>7, <3>1, <3>2
  <2> QED
    BY <1>13, <2>1 DEF Awaited
<1>15. Arrives(l, u)
  <2>1. ASSUME l.status = "CONNECTED", s.alive, ~l.gaveUp, NEW x \in s.sent
        PROVE  \/ x \in ToSet(l.received) \/ x \in ToSet(s.out)
               \/ \E r \in DOMAIN s.cache \cap Rids(l) : x \in ToSet(s.cache[r].items)
    <3>1. Live(l)
      BY <2>1 DEF Live
    <3>2. Live(k) /\ Rids(k) \ {rid} \subseteq Rids(l)
      BY <1>3, <1>7, <1>8, <1>10, <3>1 DEF Follow
    <3>3. CASE HandsOver(n, l, t, a)
      <4>1. k.status = "CONNECTED" /\ l.received = k.received \o a.items /\ a.kind = "data"
        BY <1>8, <2>1, <3>3 DEF HandsOver
      <4>2. a.items \in Seq(s.sent) /\ k.received \in Seq(s.sent)
        <5>1. ~LoggingIn(n)
          BY <3>3 DEF HandsOver
        <5> QED
          BY <1>1, <1>5, <1>7, <5>1 DEF Reads, Fits, Kept, OnePlace
      <4>3. ToSet(l.received) = ToSet(k.received) \cup ToSet(a.items)
        <5>1. IsInjective(a.items) /\ IsInjective(k.received)
              /\ \A y \in ToSet(a.items) : y \notin ToSet(k.received)
          <6>1. ~LoggingIn(n)
            BY <3>3 DEF HandsOver
          <6> QED
            BY <1>1, <1>7, <1>8, <6>1 DEF Reads, Fits, Kept, OnePlace
        <5> DEFINE p == k.received
                   q == a.items
        <5>2. /\ p \in Seq(s.sent) /\ q \in Seq(s.sent) /\ IsInjective(p) /\ IsInjective(q)
              /\ \A y \in ToSet(q) : y \notin ToSet(p)
          BY <4>2, <5>1
        <5> HIDE DEF p, q
        <5>3. ToSet(p \o q) = ToSet(p) \cup ToSet(q)
          BY <5>2, ConcatInjective
        <5> QED
          BY <4>1, <5>3 DEF p, q
      <4>4. a = s.cache[rid]
        BY <4>1 DEF Broken
      <4>5. \/ x \in ToSet(k.received) \/ x \in ToSet(s.out)
            \/ \E r \in DOMAIN s.cache \cap Rids(k) : x \in ToSet(s.cache[r].items)
        BY <2>1, <3>2, <4>1 DEF Holds, Arrives, Live
      <4> QED
        BY <3>2, <4>3, <4>4, <4>5
    <3>4. CASE Passes(n, l, t) /\ n.status # "CONNECTED"
      <4>1. PhaseOf(l.status) = "open"
        BY <2>1 DEF PhaseOf
      <4>3. n.status \in Statuses \ {"CONNFAIL"}
        BY <1>7 DEF Reads, Kept, Standing, ConnType
      <4>6. PhaseOf(n.status) \in {"new", "connecting", "open", "failed", "closing", "closed"}
        BY <4>3 DEF PhaseOf, Statuses
      <4>2. PhaseOf(n.status) \in {"open", "connecting"}
        BY <3>4, <4>1, <4>6 DEF Passes, Moves, Abstract!Follows
      <4>4. LoggingIn(k)
        BY <1>8, <3>4, <4>2, <4>3 DEF PhaseOf, Statuses, LoggingIn
      <4>5. s.sent = {}
        BY <1>1, <4>4, OnlyLogin DEF Before
      <4> QED
        BY <4>5
    <3>5. CASE Passes(n, l, t) /\ n.status = "CONNECTED" /\ (l.status = "CONNECTED" => l.gaveUp)
      BY <2>1, <3>5
    <3> QED
      BY <1>9, <3>3, <3>4, <3>5 DEF Reacts
  <2> QED
    BY <1>13, <2>1 DEF Arrives
<1>16. Tells(k, l, s)
  <2>1. CASE Passes(n, l, t)
    BY <1>8, <2>1 DEF Passes, Moves, Tells
  <2>2. CASE HandsOver(n, l, t, a)
    <3>1. CASE l.received = n.received
      BY <1>8, <2>2, <3>1 DEF HandsOver, Moves, Tells
    <3>2. CASE l.received = n.received \o a.items /\ n.status \in {"CONNECTED", "DISCONNECTING"}
      <4>1. ~LoggingIn(n)
        BY <2>2 DEF HandsOver
      <4>2. a.items \in Seq(s.sent) /\ IsInjective(a.items)
            /\ \A y \in ToSet(a.items) : y \notin ToSet(k.received)
        BY <1>5, <1>7, <1>8, <4>1 DEF Reads, Fits
      <4>3. PhaseOf(k.status) \in {"open", "closing"}
        BY <1>8, <3>2 DEF PhaseOf
      <4>4. l.status = k.status /\ l.fails = k.fails /\ l.received = k.received \o a.items
        BY <1>8, <2>2, <3>2 DEF HandsOver
      <4> QED
        BY <4>2, <4>3, <4>4 DEF Handed, Tells
    <3> QED
      BY <2>2, <3>1, <3>2 DEF HandsOver
  <2> QED
    BY <1>9, <2>1, <2>2 DEF Reacts
<1> QED
  BY <1>12, <1>14, <1>15, <1>16 DEF Done, Holds, u, l

------------------------------------------------------------------------------
(* The callbacks that read no answer.                                      *)
LEMMA FewerInOrder ==
    ASSUME NEW k \in ConnType, InOrder(k), NEW l, Fewer(k, l)
    PROVE  InOrder(l) /\ l \in ConnType /\ Rids(l) \subseteq Rids(k)
<1>1. l \in ConnType /\ l.rid = k.rid
  BY DEF Fewer, Alike
<1>2. /\ Len(k.requests) \in Nat /\ Len(l.requests) \in Nat
      /\ \A i \in 1 .. Len(k.requests) : k.requests[i].rid \in Nat
  BY <1>1, QueueLength, ElementType
<1>3. /\ Len(l.requests) =< Len(k.requests)
      /\ \A i \in 1 .. Len(l.requests) : \E j \in 1 .. Len(k.requests) : l.requests[i].rid = k.requests[j].rid
      /\ \A i, j \in 1 .. Len(l.requests) : j < i => l.requests[j].rid < l.requests[i].rid
  BY <1>2 DEF Fewer
<1>4. InOrder(l)
  BY <1>1, <1>2, <1>3 DEF InOrder
<1>5. Rids(l) \subseteq Rids(k)
  BY <1>1, <1>3, RidsAre
<1> QED
  BY <1>1, <1>4, <1>5

LEMMA FewerTwice ==
    ASSUME NEW k \in ConnType, InOrder(k), NEW l, Fewer(k, l), NEW m, Fewer(l, m)
    PROVE  Fewer(k, m)
<1>1. l \in ConnType /\ m \in ConnType /\ InOrder(l)
  BY FewerInOrder DEF Fewer, Alike
<1>2. Len(k.requests) \in Nat /\ Len(l.requests) \in Nat /\ Len(m.requests) \in Nat
  BY <1>1, QueueLength
<1>3. Alike(k, m)
  BY <1>1 DEF Fewer, Alike
<1>4. ASSUME NEW i \in 1 .. Len(m.requests)
      PROVE  \E j \in i .. Len(k.requests) :
          /\ m.requests[i].rid = k.requests[j].rid /\ m.requests[i].sid = k.requests[j].sid
          /\ m.requests[i].body = k.requests[j].body /\ m.requests[i].func = k.requests[j].func
  <2>1. PICK j \in i .. Len(l.requests) :
          /\ m.requests[i].rid = l.requests[j].rid /\ m.requests[i].sid = l.requests[j].sid
          /\ m.requests[i].body = l.requests[j].body /\ m.requests[i].func = l.requests[j].func
    BY DEF Fewer
  <2>2. j \in 1 .. Len(l.requests)
    BY <1>2, <2>1
  <2>3. PICK n \in j .. Len(k.requests) :
          /\ l.requests[j].rid = k.requests[n].rid /\ l.requests[j].sid = k.requests[n].sid
          /\ l.requests[j].body = k.requests[n].body /\ l.requests[j].func = k.requests[n].func
    BY <2>2 DEF Fewer
  <2>4. n \in i .. Len(k.requests)
    BY <1>2, <2>1, <2>3
  <2> QED
    BY <2>1, <2>3, <2>4
<1>5. Len(m.requests) =< Len(k.requests)
  <2>1. Len(m.requests) =< Len(l.requests) /\ Len(l.requests) =< Len(k.requests)
    BY DEF Fewer
  <2>2. \A x, y, z \in Nat : x =< y /\ y =< z => x =< z
    OBVIOUS
  <2> QED
    BY <1>2, <2>1, <2>2
<1>6. \A i, j \in 1 .. Len(m.requests) : j < i => m.requests[j].rid < m.requests[i].rid
  BY DEF Fewer
<1> QED
  BY <1>3, <1>4, <1>5, <1>6 DEF Fewer

LEMMA AbortedFewer ==
    ASSUME NEW k \in ConnType, NEW l, Alike(k, l), l.requests = <<>>
    PROVE  Fewer(k, l) /\ Rids(l) = {}
<1>1. Len(l.requests) = 0 /\ Len(k.requests) \in Nat
  BY QueueLength
<1>2. \A i \in 1 .. Len(l.requests) : FALSE
  BY <1>1
<1> QED
  BY <1>1, <1>2 DEF Fewer, Rids

LEMMA HitErrorFewer ==
    ASSUME NEW k \in ConnType, InOrder(k)
    PROVE  /\ Fewer(k, HitError(k))
           /\ HitError(k).gaveUp \/ HitError(k).requests = k.requests
<1> DEFINE n == IF k.errors = NaN THEN NaN ELSE IF k.errors < 5 THEN k.errors + 1 ELSE 5
           l == [k EXCEPT !.errors = n]
           m == [k EXCEPT !.errors = n, !.gaveUp = TRUE, !.requests = <<>>]
<1>1. n \in NaN .. 5
  BY DEF ConnType, NaN
<1>2. HitError(k) = l \/ HitError(k) = m
  <2>1. AbortAll([k EXCEPT !.errors = n, !.gaveUp = TRUE]) = m
    BY DEF AbortAll, ConnType
  <2> QED
    BY <2>1 DEF HitError
<1> HIDE DEF n
<1>3. l \in ConnType /\ Alike(k, l) /\ l.requests = k.requests
  BY <1>1 DEF ConnType, Alike
<1>4. m \in ConnType /\ Alike(k, m) /\ m.requests = <<>> /\ m.gaveUp
  BY <1>1, EmptySeq DEF ConnType, Alike
<1> HIDE DEF l, m
<1> QED
  BY <1>2, <1>3, <1>4, SameQueue, AbortedFewer

(* A callback whose last word is l, after it threw requests away for m.    *)
LEMMA DoneAfter ==
    ASSUME NEW k, NEW s, Holds(k, s), NEW m, NEW l,
           Kept(l, Without(s, Rids(m))), Follow(m, l, Without(s, Rids(m))),
           Live(l) => Live(k) /\ Rids(k) \subseteq Rids(m),
           Moves(k, l), l.status = "CONNECTED" => k.status = "CONNECTED"
    PROVE  Done(k, l, s)
<1> DEFINE t == Without(s, Rids(m))
           u == Without(s, Rids(l))
<1>1. k \in ConnType /\ s \in SrvType /\ Kept(k, s)
  BY DEF Holds, Kept
<1>2. t.next = s.next
  BY <1>1, WithoutIs
<1>3. Kept(l, t) /\ Follow(m, l, t)
  OBVIOUS
<1>4. Without(t, Rids(l)) = u
  <2>1. \A r \in DOMAIN s.cache : r < s.next /\ r \in Nat /\ s.next \in Nat
    BY <1>1, ServerParts DEF Kept, Open
  <2>2. \A r \in Rids(l) : r \in Rids(m) \/ r >= s.next
    BY <1>2, <1>3 DEF Follow
  <2>3. \A r \in DOMAIN s.cache \cap Rids(l) : r \in Rids(m)
    BY <2>1, <2>2
  <2> QED
    BY <1>1, <2>3, WithoutTwice
<1>5. /\ DOMAIN u.cache = DOMAIN s.cache \cap Rids(l)
      /\ \A r \in DOMAIN u.cache : u.cache[r] = s.cache[r]
      /\ u.alive = s.alive /\ u.out = s.out /\ u.sent = s.sent /\ u.open = s.open
  BY <1>1, WithoutIs
<1> HIDE DEF t
<1>6. Kept(l, Without(t, Rids(l)))
  BY <1>3, KeptWithout
<1>7. Kept(l, u)
  BY <1>4, <1>6
<1> HIDE DEF u
<1>8. ASSUME Live(l) PROVE Live(k) /\ Rids(k) \subseteq Rids(l)
  BY <1>3, <1>8 DEF Follow
<1>9. Awaited(l, u)
  BY <1>5, <1>8 DEF Awaited, Holds
<1>10. Arrives(l, u)
  <2>1. ASSUME l.status = "CONNECTED", s.alive, ~l.gaveUp, NEW x \in s.sent
        PROVE  \/ x \in ToSet(l.received) \/ x \in ToSet(s.out)
               \/ \E r \in DOMAIN s.cache \cap Rids(l) : x \in ToSet(s.cache[r].items)
    <3>1. Live(k) /\ Rids(k) \subseteq Rids(l) /\ k.status = "CONNECTED"
      BY <1>8, <2>1 DEF Live
    <3>2. \/ x \in ToSet(k.received) \/ x \in ToSet(s.out)
          \/ \E r \in DOMAIN s.cache \cap Rids(k) : x \in ToSet(s.cache[r].items)
      BY <2>1, <3>1 DEF Holds, Arrives, Live
    <3>3. l.received = k.received
      BY DEF Moves
    <3> QED
      BY <3>1, <3>2, <3>3
  <2> QED
    BY <1>5, <2>1 DEF Arrives
<1> QED
  BY <1>7, <1>9, <1>10 DEF Done, Holds, Tells, u

LEMMA DoneFewer ==
    ASSUME NEW k, NEW s, Holds(k, s), NEW l, Fewer(k, l), l.gaveUp \/ Rids(l) = Rids(k)
    PROVE  Done(k, l, s)
<1> DEFINE t == Without(s, Rids(l))
<1>1. Kept(k, t) /\ DOMAIN t.cache \subseteq Rids(l)
  BY KeptWithout, WithoutIs DEF Holds, Kept
<1> HIDE DEF t
<1>2. Kept(l, t)
  BY <1>1, KeptFewer
<1>3. Follow(l, l, t)
  BY DEF Follow
<1>4. /\ l.status = k.status /\ l.fails = k.fails /\ l.received = k.received
      /\ k.gaveUp => l.gaveUp
  BY DEF Fewer, Alike
<1>5. Live(l) => Live(k) /\ Rids(k) \subseteq Rids(l)
  BY <1>4 DEF Live
<1>6. Moves(k, l)
  BY <1>4 DEF Moves
<1> QED
  BY <1>2, <1>3, <1>4, <1>5, <1>6, DoneAfter DEF t

LEMMA Status0Done ==
    ASSUME NEW k, NEW s, Holds(k, s), NEW i \in 1 .. Len(k.requests)
    PROVE  Done(k, Status0(k, i), s)
<1>1. Kept(k, s) /\ k \in ConnType /\ InOrder(k)
  BY DEF Holds, Kept
<1>2. CASE k.requests[i].sends > 5
  <2> DEFINE m == RemoveRequest(k, i)
             n == [m EXCEPT !.gaveUp = TRUE]
             l == HitError(n)
  <2>1. Status0(k, i) = l
    BY <1>2 DEF Status0
  <2>2. Fewer(k, m)
    BY <1>1, RemoveRequestKeeps
  <2> HIDE DEF m
  <2>3. InOrder(m) /\ m \in ConnType
    BY <1>1, <2>2, FewerInOrder
  <2>4. n \in ConnType /\ Alike(m, n) /\ n.requests = m.requests /\ n.gaveUp
    BY <2>3 DEF ConnType, Alike
  <2> HIDE DEF n
  <2>5. Fewer(m, n)
    BY <2>3, <2>4, SameQueue
  <2>6. Fewer(k, n) /\ InOrder(n)
    BY <1>1, <2>2, <2>3, <2>5, FewerTwice, FewerInOrder
  <2>7. Fewer(n, l)
    BY <2>4, <2>6, HitErrorFewer
  <2>8. Fewer(k, l) /\ l.gaveUp
    BY <1>1, <2>4, <2>6, <2>7, FewerTwice DEF Fewer, Alike
  <2> QED
    BY <2>1, <2>8, DoneFewer
<1>3. CASE ~(k.requests[i].sends > 5)
  <2> DEFINE r == [k.requests[i] EXCEPT !.xhr = "failed"]
             m == [k EXCEPT !.requests = [k.requests EXCEPT ![i] = r]]
             n == HitError(m)
             l == Throttled(n)
  <2>1. Status0(k, i) = l
    BY <1>3 DEF Status0, ConnType
  <2>2. k.requests[i] \in RequestType
    BY <1>1, ElementType
  <2>3. /\ r \in RequestType /\ r.rid = k.requests[i].rid /\ r.sid = k.requests[i].sid
        /\ r.body = k.requests[i].body /\ r.func = k.requests[i].func
    BY <2>2 DEF RequestType
  <2> HIDE DEF r
  <2>4. Resent(k, m)
    BY <1>1, <2>3, TouchedKeeps
  <2> HIDE DEF m
  <2>5. Fewer(k, m) /\ Rids(m) = Rids(k) /\ m \in ConnType
    BY <1>1, <2>4, ResentRids
  <2>6. InOrder(m)
    BY <1>1, <2>5, FewerInOrder
  <2>7. Fewer(m, n) /\ (n.gaveUp \/ Rids(n) = Rids(m))
    BY <2>5, <2>6, HitErrorFewer DEF Rids
  <2> HIDE DEF n
  <2>8. n \in ConnType /\ InOrder(n)
    BY <2>5, <2>6, <2>7, FewerInOrder
  <2>9. Fewer(n, l) /\ Rids(l) = Rids(n)
    BY <2>8, ThrottledKeeps, ResentRids
  <2> HIDE DEF l
  <2>10. Fewer(k, l) /\ (l.gaveUp \/ Rids(l) = Rids(k))
    <3>1. Fewer(k, n)
      BY <1>1, <2>5, <2>7, FewerTwice
    <3>2. n.gaveUp => l.gaveUp
      BY <2>9 DEF Fewer, Alike
    <3> QED
      BY <1>1, <2>5, <2>7, <2>9, <3>1, <3>2, FewerTwice
  <2> QED
    BY <2>1, <2>10, DoneFewer
<1> QED
  BY <1>2, <1>3

LEMMA RequestsStarted ==
    ASSUME NEW k, NEW s, Kept(k, s), k.requests # <<>> \/ k.data # <<>>
    PROVE  k.status # "none"
  BY DEF Kept, OneAtATime, Before, LoggingIn

LEMMA Status404Done ==
    ASSUME NEW k, NEW s, Holds(k, s), NEW i \in 1 .. Len(k.requests),
           ~s.alive \/ (~k.requests[i].sid /\ k.requests[i].rid > 1)
    PROVE  Done(k, Status404(k, i), s)
<1> DEFINE m == RemoveRequest(k, i)
           h == HitError(m)
           d == Tell(h, "DISCONNECTING")
           l == DoDisconnect(d)
           t == Without(s, Rids(h))
<1>1. Kept(k, s) /\ k \in ConnType /\ InOrder(k) /\ s \in SrvType
  BY DEF Holds, Kept
<1>2. Fewer(k, m)
  BY <1>1, RemoveRequestKeeps
<1>3. LoggingIn(k) => m.requests = <<>> /\ k.data = <<>>
  BY <1>1, LoginAlone
<1>4. Status404(k, i) = l
  BY DEF Status404
<1> HIDE DEF m
<1>5. m \in ConnType /\ InOrder(m)
  BY <1>1, <1>2, FewerInOrder
<1>6. Fewer(m, h)
  BY <1>5, HitErrorFewer
<1> HIDE DEF h
<1>7. Fewer(k, h) /\ h \in ConnType
  BY <1>1, <1>2, <1>5, <1>6, FewerTwice, FewerInOrder
<1>8. Kept(k, t) /\ DOMAIN t.cache \subseteq Rids(h) /\ t.out = s.out /\ t.alive = s.alive
  BY <1>1, KeptWithout, WithoutIs
<1>9. Kept(h, t)
  <2> HIDE DEF t
  <2> QED
    BY <1>7, <1>8, KeptFewer
<1>10. h.status = k.status /\ h.fails = k.fails /\ h.received = k.received /\ h.data = k.data
  BY <1>7 DEF Fewer, Alike
<1>11. k.status # "none"
  <2>1. k.requests # <<>>
    OBVIOUS
  <2> QED
    BY <1>1, <2>1, RequestsStarted
<1>12. ASSUME LoggingIn(k) PROVE h.requests = <<>> /\ ~s.alive
  <2>1. Len(h.requests) =< 0
    BY <1>3, <1>6, <1>12 DEF Fewer
  <2>2. h.requests = <<>>
    BY <1>7, <2>1, QueueLength, EmptySeq
  <2>3. k.requests[i].sid \/ ~(k.requests[i].rid > 1)
    <3>1. k.requests[i].sid \/ k.requests[i].rid = 1
      BY <1>1, <1>12 DEF Kept, OneAtATime
    <3> QED
      BY <3>1
  <2> QED
    BY <2>2, <2>3
<1>13. Settled(h, t)
  <2>1. ASSUME LoggingIn(h) PROVE h.requests = <<>> /\ h.data = <<>> /\ NoItems(t)
    <3>1. LoggingIn(k)
      BY <1>10, <2>1 DEF LoggingIn
    <3>2. h.requests = <<>> /\ ~s.alive /\ h.data = <<>>
      BY <1>3, <1>10, <1>12, <3>1
    <3>3. Rids(h) = {}
      BY <3>2 DEF Rids
    <3>4. s.out = <<>>
      BY <1>1, <3>2 DEF Kept, Open
    <3> QED
      BY <1>8, <3>2, <3>3, <3>4 DEF NoItems
  <2> QED
    BY <2>1 DEF Settled
<1>14. Ended(h, l) /\ l.fails = h.fails
  <2>1. d = [h EXCEPT !.status = "DISCONNECTING", !.fails = h.fails]
    BY <1>7 DEF Tell, ConnType
  <2>2. /\ d \in ConnType /\ d.requests = h.requests /\ d.data = h.data
        /\ d.rid = h.rid /\ d.received = h.received /\ d.fails = h.fails
    BY <1>7, <2>1 DEF ConnType, Statuses
  <2> HIDE DEF d
  <2>3. Ended(d, l) /\ l.fails = d.fails
    BY <2>2, DoDisconnectIs
  <2> HIDE DEF l
  <2> QED
    BY <2>2, <2>3 DEF Ended
<1> HIDE DEF d, l, t
<1>15. Passes(h, l, t)
  BY <1>9, <1>10, <1>11, <1>13, <1>14, PassesEnded DEF Told
<1>16. l.status = "DISCONNECTED" /\ ~Live(l)
  BY <1>14 DEF Ended, Live
<1>17. Moves(k, l)
  BY <1>10, <1>15 DEF Passes, Moves
<1> QED
  BY <1>4, <1>15, <1>16, <1>17, DoneAfter DEF Passes, t

------------------------------------------------------------------------------
(* The idle timer.                                                         *)
Quiet(k, l, s) ==
    /\ Kept(l, s) /\ Follow(k, l, s)
    /\ l.status = k.status /\ l.fails = k.fails /\ l.received = k.received

LEMMA QuietTwice ==
    ASSUME NEW k, NEW l, NEW m, NEW s, Quiet(k, l, s), Quiet(l, m, s)
    PROVE  Quiet(k, m, s)
  BY DEF Quiet, Follow

LEMMA QuietItself ==
    ASSUME NEW k, NEW s, Kept(k, s) PROVE Quiet(k, k, s)
  BY DEF Quiet, Follow

LEMMA QuietFewer ==
    ASSUME NEW k, NEW s, Kept(k, s), NEW l, Fewer(k, l), Rids(l) = Rids(k)
    PROVE  Quiet(k, l, s)
  BY PassesFewer DEF Passes, Quiet, Fewer, Alike

LEMMA PolledQuiet ==
    ASSUME NEW k, NEW s, Kept(k, s)
    PROVE  Quiet(k, Polled(k), s)
<1> DEFINE l == [k EXCEPT !.data = <<"blank">>]
<1>1. k \in ConnType /\ s \in SrvType
  BY DEF Kept
<1>2. CASE ~(k.authenticated /\ k.requests = <<>> /\ k.data = <<>> /\ ~k.disconnecting)
  BY <1>2, QuietItself DEF Polled
<1>3. CASE k.authenticated /\ k.requests = <<>> /\ k.data = <<>> /\ ~k.disconnecting
  <2>1. Polled(k) = l
    BY <1>3 DEF Polled
  <2>2. <<"blank">> \in Seq(Stanzas) /\ ToSet(<<"blank">>) = {"blank"}
    BY DEF Stanzas, ToSet
  <2>3. /\ l \in ConnType /\ l.data = <<"blank">> /\ l.requests = <<>>
        /\ l.status = k.status /\ l.fails = k.fails /\ l.received = k.received
        /\ l.rid = k.rid /\ l.sid = k.sid /\ l.authenticated /\ l.disconnecting = k.disconnecting
        /\ l.timer = k.timer /\ l.handlers = k.handlers /\ l.adding = k.adding
        /\ l.removing = k.removing /\ l.gaveUp = k.gaveUp
    BY <1>1, <1>3, <2>2 DEF ConnType
  <2> HIDE DEF l
  <2>4. s.offered /\ l.status \in {"CONNECTED", "DISCONNECTING"}
    BY <1>3, <2>3 DEF Kept, Bodies, Standing
  <2>5. ~LoggingIn(l) /\ ~Before(l) /\ ~LoggingIn(k) /\ ~Before(k)
    BY <2>3, <2>4 DEF LoggingIn, Before
  <2>6. InOrder(l) /\ OneAtATime(l)
    BY <1>3, <2>3, <2>5 DEF InOrder, OneAtATime, Kept
  <2>7. Standing(l)
    BY <1>3, <2>3 DEF Standing, Kept
  <2>8. Queued(l)
    BY <2>2, <2>3, <2>5 DEF Queued, LoginStanzas
  <2>9. Bodies(l, s)
    BY <2>3, <2>4 DEF Bodies
  <2>10. Online(l, s) /\ Open(l, s)
    BY <2>3, <2>5 DEF Kept, Online, Open
  <2>11. LoginOnItsWay(l, s)
    BY <2>5 DEF Kept, LoginOnItsWay
  <2>12. OnePlace(l, s) /\ Terminated(l, s)
    BY <2>3 DEF Kept, OnePlace, Terminated
  <2>13. Kept(l, s)
    BY <1>1, <2>3, <2>6, <2>7, <2>8, <2>9, <2>10, <2>11, <2>12 DEF Kept
  <2>14. Follow(k, l, s)
    BY <1>3, <2>3 DEF Follow, Live, Rids
  <2> QED
    BY <2>1, <2>3, <2>13, <2>14 DEF Quiet
<1> QED
  BY <1>2, <1>3

LEMMA FlushedQuiet ==
    ASSUME NEW k, NEW s, Kept(k, s)
    PROVE  Quiet(k, Flushed(k), s)
<1> DEFINE n == Len(k.requests)
           body == ToSet(k.data) \ {"blank"}
           j == [k EXCEPT !.data = <<>>]
           p == Push(j, body, "data")
           l == ProcessRequest(p, n + 1)
<1>1. k \in ConnType /\ s \in SrvType
  BY DEF Kept
<1>2. CASE ~(n < 2 /\ k.data # <<>>)
  BY <1>2, QuietItself DEF Flushed
<1>3. CASE n < 2 /\ k.data # <<>>
  <2>1. Flushed(k) = l
    BY <1>3 DEF Flushed
  <2>2. n \in Nat /\ k.data \in Seq(Stanzas) /\ Len(k.data) \in Nat /\ Len(k.data) > 0
    <3>1. k.data \in Seq(Stanzas)
      BY <1>1 DEF ConnType
    <3> QED
      BY <1>1, <1>3, <3>1, QueueLength, LenProperties, EmptySeq
  <2>3. body \in SUBSET Stanzas
    <3>1. \A i \in DOMAIN k.data : k.data[i] \in Stanzas
      BY <2>2
    <3> QED
      BY <3>1 DEF ToSet
  <2>4. "terminate" \notin body /\ (body \cap LoginStanzas # {} => LoggingIn(k))
        /\ ("presence" \in body => ~Before(k))
    BY DEF Kept, Queued
  <2> HIDE DEF body
  <2>5. /\ j \in ConnType /\ j.data = <<>> /\ j.requests = k.requests
        /\ j.rid = k.rid /\ j.sid = k.sid
    BY <1>1, EmptySeq DEF ConnType
  <2>6. /\ p \in ConnType /\ p = [j EXCEPT !.requests = p.requests, !.rid = j.rid + 1]
        /\ Longer(p.requests, j, body, "data")
    BY <2>3, <2>5, PushIs
  <2> HIDE DEF p
  <2>7. n + 1 \in 1 .. Len(p.requests) /\ Len(p.requests) = n + 1
    BY <2>2, <2>5, <2>6 DEF Longer
  <2>8. l \in ConnType /\ l = [p EXCEPT !.requests = l.requests] /\ Same(l.requests, p.requests)
    BY <2>6, <2>7, ProcessKeeps, ResentType
  <2> HIDE DEF l
  <2>9. Longer(l.requests, j, body, "data")
    BY <2>2, <2>5, <2>6, <2>8 DEF Longer, Same
  <2>10. l = [j EXCEPT !.requests = l.requests, !.rid = j.rid + 1]
    BY <2>5, <2>6, <2>8 DEF ConnType
  <2>11. l = [k EXCEPT !.data = <<>>, !.requests = l.requests, !.rid = k.rid + 1]
    BY <1>1, <2>5, <2>10 DEF ConnType
  <2>12. /\ l.data = <<>> /\ l.rid = k.rid + 1 /\ l.status = k.status /\ l.sid = k.sid
         /\ l.fails = k.fails /\ l.received = k.received /\ l.authenticated = k.authenticated
         /\ l.disconnecting = k.disconnecting /\ l.timer = k.timer /\ l.gaveUp = k.gaveUp
         /\ l.removing = k.removing /\ l.handlers = k.handlers /\ l.adding = k.adding
    BY <1>1, <2>11 DEF ConnType
  <2>13. Longer(l.requests, [k EXCEPT !.sid = l.sid], body, "data")
    <3> DEFINE g == [k EXCEPT !.sid = l.sid]
    <3>1. g.requests = k.requests /\ g.rid = k.rid /\ g.sid = k.sid
      BY <1>1, <2>12 DEF ConnType
    <3> HIDE DEF g
    <3>2. Longer(l.requests, g, body, "data")
      BY <2>5, <2>9, <3>1 DEF Longer
    <3> QED
      BY <3>2 DEF g
  <2>14. Asking(k, l, body, "data")
    BY <2>4, <2>8, <2>12, <2>13 DEF Asking, Kept, Standing
  <2>15. s.offered
    BY <1>3 DEF Kept, Bodies
  <2>16. CASE LoggingIn(k)
    <3>1. n = 0
      <4>1. n + Len(k.data) =< 1
        BY <2>16 DEF Kept, OneAtATime
      <4>2. \A a, b \in Nat : a + b =< 1 /\ b > 0 => a = 0
        OBVIOUS
      <4> QED
        BY <2>2, <4>1, <4>2
    <3>2. k.requests = <<>> /\ Before(k)
      BY <1>1, <2>16, <3>1, QueueLength, EmptySeq DEF Before
    <3>3. NoItems(s)
      BY <1>3, <2>16, <3>2, NothingOnItsWay
    <3>4. LoggingIn(l) /\ l.sid
      BY <1>3, <2>12, <2>16 DEF LoggingIn, Kept, OneAtATime
    <3> QED
      BY <2>3, <2>4, <2>14, <2>15, <3>2, <3>3, <3>4, KeptAskingLogin, PassesAsking,
         <2>12, <2>1 DEF Passes, Quiet
  <2>17. CASE ~LoggingIn(k)
    <3>1. ~Before(k)
      BY <1>3, <2>17 DEF Kept, OneAtATime
    <3>2. Kept(l, s)
      BY <1>3, <2>2, <2>3, <2>4, <2>12, <2>14, <2>15, <2>17, <3>1, KeptAskingMore
    <3> QED
      BY <2>1, <2>12, <2>14, <3>2, PassesAsking DEF Passes, Quiet
  <2> QED
    BY <2>16, <2>17
<1> QED
  BY <1>2, <1>3

LEMMA RecheckedQuiet ==
    ASSUME NEW k, NEW s, Kept(k, s)
    PROVE  Quiet(k, Rechecked(k), s)
<1>1. k \in ConnType /\ InOrder(k)
  BY DEF Kept
<1>2. Fewer(k, Throttled(k)) /\ Rids(Throttled(k)) = Rids(k)
  BY <1>1, ThrottledKeeps, ResentRids
<1> QED
  BY <1>2, QuietFewer, QuietItself DEF Rechecked

LEMMA IdleDone ==
    ASSUME NEW k, NEW s, Holds(k, s), NEW due \in BOOLEAN
    PROVE  Done(k, OnIdle(k, due), s)
<1> DEFINE k1 == TimedHandlers(k, due)
           k2 == Polled(k1)
           k3 == Flushed(k2)
           k4 == Rechecked(k3)
           l == [k4 EXCEPT !.idle = k4.connected]
<1>1. Kept(k, s) /\ k \in ConnType /\ s \in SrvType /\ InOrder(k)
  BY DEF Holds, Kept
<1>2. OnIdle(k, due) = l
  BY DEF OnIdle
<1>3. ASSUME NEW t, Kept(k1, t) PROVE Quiet(k1, l, t)
  <2> HIDE DEF k1
  <2>1. Quiet(k1, k2, t)
    BY <1>3, PolledQuiet
  <2> HIDE DEF k2
  <2>2. Quiet(k2, k3, t)
    BY <2>1, FlushedQuiet DEF Quiet
  <2> HIDE DEF k3
  <2>3. Quiet(k3, k4, t)
    BY <2>2, RecheckedQuiet DEF Quiet
  <2> HIDE DEF k4
  <2>4. Kept(k4, t) /\ k4 \in ConnType /\ InOrder(k4)
    BY <2>3 DEF Quiet, Kept
  <2>5. Alike(k4, l) /\ l.requests = k4.requests
    BY <2>4 DEF ConnType, Alike
  <2>6. Quiet(k4, l, t)
    BY <2>4, <2>5, SameQueue, QuietFewer
  <2> QED
    BY <2>1, <2>2, <2>3, <2>6, QuietTwice
<1> HIDE DEF l
<1>4. CASE ~(k.timer /\ due)
  <2> DEFINE t == Without(s, Rids(k))
  <2>1. k1 = k
    BY <1>4 DEF TimedHandlers
  <2>2. Kept(k, t)
    BY <1>1, KeptWithout
  <2>3. Quiet(k, l, t)
    BY <1>3, <2>1, <2>2
  <2>4. /\ Kept(l, t) /\ Follow(k, l, t)
        /\ l.status = k.status /\ l.fails = k.fails /\ l.received = k.received
    BY <2>3 DEF Quiet
  <2>5. Live(l) => Live(k) /\ Rids(k) \subseteq Rids(k)
    BY <2>4 DEF Follow
  <2>6. Moves(k, l)
    BY <2>4 DEF Moves
  <2> QED
    BY <1>2, <2>4, <2>5, <2>6, DoneAfter
<1>5. CASE k.timer /\ due
  <2> DEFINE m == AbortAll(k)
             t == Without(s, Rids(m))
  <2>1. k1 = DoDisconnect(m)
    BY <1>5 DEF TimedHandlers
  <2>2. m \in ConnType /\ Alike(k, m) /\ m.requests = <<>>
    BY <1>1, EmptySeq DEF AbortAll, ConnType, Alike
  <2> HIDE DEF m
  <2>3. Fewer(k, m)
    BY <1>1, <2>2, AbortedFewer
  <2>4. Kept(k, t) /\ DOMAIN t.cache \subseteq Rids(m)
    BY <1>1, KeptWithout, WithoutIs
  <2>5. Kept(m, t)
    <3> HIDE DEF t
    <3> QED
      BY <2>3, <2>4, KeptFewer
  <2>6. k.status = "DISCONNECTING" /\ m.status = k.status /\ m.fails = k.fails /\ m.received = k.received
    BY <1>1, <1>5, <2>2 DEF Kept, Standing, Alike
  <2>7. Ended(m, k1) /\ k1.fails = m.fails
    BY <2>1, <2>2, DoDisconnectIs
  <2> HIDE DEF k1, t
  <2>8. Settled(m, t)
    BY <2>6 DEF Settled, LoggingIn
  <2>9. Passes(m, k1, t)
    BY <2>5, <2>6, <2>7, <2>8, PassesEnded DEF Told
  <2>10. Quiet(k1, l, t)
    BY <1>3, <2>9 DEF Passes
  <2>11. l.status = "DISCONNECTED" /\ l.fails = k.fails /\ l.received = k.received
    BY <2>6, <2>7, <2>10 DEF Quiet, Ended
  <2>12. Kept(l, t) /\ Follow(m, l, t)
    BY <2>9, <2>10 DEF Passes, Quiet, Follow
  <2>13. Moves(k, l)
    BY <2>6, <2>11 DEF Moves, PhaseOf, Abstract!Follows
  <2>14. ~Live(l)
    BY <2>11 DEF Live
  <2> QED
    BY <1>2, <2>11, <2>12, <2>13, <2>14, DoneAfter DEF t
<1> QED
  BY <1>4, <1>5

------------------------------------------------------------------------------
(* The steps in which the client does nothing but send.                    *)
LEMMA HoldsResent ==
    ASSUME NEW k, NEW s, Holds(k, s), NEW l, Resent(k, l)
    PROVE  Holds(l, s) /\ l.status = k.status /\ l.fails = k.fails /\ l.received = k.received
<1>1. k \in ConnType /\ InOrder(k) /\ Kept(k, s)
  BY DEF Holds, Kept
<1>2. Fewer(k, l) /\ Rids(l) = Rids(k)
  BY <1>1, ResentRids
<1>3. Kept(l, s)
  BY <1>1, <1>2, KeptFewer
<1>4. l.status = k.status /\ l.fails = k.fails /\ l.received = k.received /\ (k.gaveUp => l.gaveUp)
  BY <1>2 DEF Fewer, Alike
<1> QED
  BY <1>2, <1>3, <1>4 DEF Holds, Awaited, Live, Arrives

LEMMA QueueDomain ==
    ASSUME NEW k \in ConnType
    PROVE  DOMAIN k.requests = 1 .. Len(k.requests)
  BY QueueLength, LenProperties

LEMMA LaterIs ==
    ASSUME NEW r \in RequestType, NEW age \in {"aged", "old"}
    PROVE  /\ Later(r, age) \in RequestType
           /\ Later(r, age).rid = r.rid /\ Later(r, age).sid = r.sid
           /\ Later(r, age).body = r.body /\ Later(r, age).func = r.func
<1> DEFINE a == IF r.age = "new" THEN "new" ELSE age
           d == IF r.dead = "none" THEN "none" ELSE "old"
<1>1. Later(r, age) = [r EXCEPT !.age = a, !.dead = d]
  BY DEF Later, RequestType
<1>2. a \in {"new", "fresh", "aged", "old"} /\ d \in {"none", "fresh", "old"}
  OBVIOUS
<1> HIDE DEF a, d
<1> QED
  BY <1>1, <1>2 DEF RequestType

LEMMA LaterKeeps ==
    ASSUME NEW k \in ConnType, NEW age \in [DOMAIN k.requests -> {"aged", "old"}],
           NEW l, l = [k EXCEPT !.requests = [i \in DOMAIN k.requests |-> Later(k.requests[i], age[i])]]
    PROVE  Resent(k, l)
<1> DEFINE q == [i \in DOMAIN k.requests |-> Later(k.requests[i], age[i])]
<1>1. DOMAIN k.requests = 1 .. Len(k.requests) /\ Len(k.requests) \in Nat
  BY QueueDomain, QueueLength
<1>2. ASSUME NEW i \in 1 .. Len(k.requests)
      PROVE  /\ q[i] \in RequestType
             /\ q[i].rid = k.requests[i].rid /\ q[i].sid = k.requests[i].sid
             /\ q[i].body = k.requests[i].body /\ q[i].func = k.requests[i].func
  <2>1. k.requests[i] \in RequestType
    BY ElementType
  <2>2. q[i] = Later(k.requests[i], age[i]) /\ age[i] \in {"aged", "old"}
    BY <1>1
  <2> QED
    BY <2>1, <2>2, LaterIs
<1>3. q \in [1 .. Len(k.requests) -> RequestType]
  BY <1>1, <1>2
<1>4. q \in Seq(RequestType) /\ Len(q) = Len(k.requests)
  BY <1>1, <1>3, SeqDef, LenProperties
<1>5. Same(q, k.requests)
  BY <1>2, <1>4 DEF Same
<1>6. l = [k EXCEPT !.requests = q]
  OBVIOUS
<1> QED
  BY <1>5, <1>6 DEF Resent

(* What a step of the system leaves true, and what pos.js notices of it.   *)
Stepped ==
    /\ Inv' /\ Tells(conn, conn', srv)
    /\ srv'.sent = srv.sent

LEMMA ResentSteps ==
    ASSUME Inv, Resent(conn, conn'), UNCHANGED srv
    PROVE  Stepped
<1>1. /\ Holds(conn', srv) /\ conn'.status = conn.status
      /\ conn'.fails = conn.fails /\ conn'.received = conn.received
  BY HoldsResent DEF Inv
<1>2. Holds(conn', srv')
  BY <1>1
<1>3. Moves(conn, conn')
  BY <1>1 DEF Moves
<1> QED
  BY <1>2, <1>3 DEF Stepped, Inv, Tells

LEMMA BackoffEndsSteps ==
    ASSUME Inv, NEW i \in 1 .. 2, BackoffEnds(i)
    PROVE  Stepped
<1> DEFINE r == [conn.requests[i] EXCEPT !.xhr = "sent", !.age = "fresh"]
<1>1. conn \in ConnType
  BY DEF Inv, Holds, Kept
<1>2. i \in 1 .. Len(conn.requests)
  BY <1>1, QueueDomain DEF BackoffEnds
<1>3. conn.requests[i] \in RequestType
  BY <1>1, <1>2, ElementType
<1>4. /\ r \in RequestType /\ r.rid = conn.requests[i].rid /\ r.sid = conn.requests[i].sid
      /\ r.body = conn.requests[i].body /\ r.func = conn.requests[i].func
  BY <1>3 DEF RequestType
<1>5. conn' = [conn EXCEPT !.requests = [conn.requests EXCEPT ![i] = r]]
  <2>1. conn' = [conn EXCEPT !.requests[i].xhr = "sent", !.requests[i].age = "fresh"]
    BY DEF BackoffEnds, Become
  <2>2. i \in DOMAIN conn.requests
    BY DEF BackoffEnds
  <2> QED
    BY <1>1, <1>3, <2>1, <2>2 DEF ConnType, RequestType
<1> HIDE DEF r
<1>6. Resent(conn, conn')
  BY <1>1, <1>2, <1>4, <1>5, TouchedKeeps
<1> QED
  BY <1>6, ResentSteps DEF BackoffEnds

LEMMA TimePassesSteps ==
    ASSUME Inv, TimePasses
    PROVE  Stepped
<1> DEFINE age == [i \in DOMAIN conn.requests |->
                      IF conn.requests[i].age = "old" THEN "old" ELSE "aged"]
<1>1. conn \in ConnType
  BY DEF Inv, Holds, Kept
<1>2. conn' = [conn EXCEPT !.requests =
                 [i \in DOMAIN conn.requests |-> Later(conn.requests[i], age[i])]]
  BY <1>1 DEF TimePasses, Become, ConnType
<1>3. age \in [DOMAIN conn.requests -> {"aged", "old"}]
  OBVIOUS
<1> HIDE DEF age
<1>4. Resent(conn, conn')
  BY <1>1, <1>2, <1>3, LaterKeeps
<1> QED
  BY <1>4, ResentSteps DEF TimePasses

LEMMA NoAnswerSteps ==
    ASSUME Inv, NoAnswer
    PROVE  Stepped
<1> DEFINE age == [i \in DOMAIN conn.requests |-> "old"]
<1>1. conn \in ConnType
  BY DEF Inv, Holds, Kept
<1>2. conn' = [conn EXCEPT !.requests =
                 [i \in DOMAIN conn.requests |-> Later(conn.requests[i], age[i])]]
  BY <1>1 DEF NoAnswer, Become, ConnType
<1>3. age \in [DOMAIN conn.requests -> {"aged", "old"}]
  OBVIOUS
<1> HIDE DEF age
<1>4. Resent(conn, conn')
  BY <1>1, <1>2, <1>3, LaterKeeps
<1> QED
  BY <1>4, ResentSteps DEF NoAnswer

LEMMA ConnectSteps ==
    ASSUME Inv, Connect
    PROVE  Stepped
<1> DEFINE j == Tell(conn, "CONNECTING")
           b == {"connect"}
<1>1. conn \in ConnType /\ srv \in SrvType /\ Kept(conn, srv) /\ conn.status = "none"
  BY DEF Inv, Holds, Kept, Connect
<1>2. ~LoggingIn(conn) /\ Before(conn)
  BY <1>1 DEF LoggingIn, Before
<1>3. conn.requests = <<>> /\ conn.data = <<>> /\ conn.rid = 1 /\ NoItems(srv)
  BY <1>1, <1>2, NothingOnItsWay DEF Kept, OneAtATime, Standing
<1>4. j = [conn EXCEPT !.status = "CONNECTING", !.fails = conn.fails]
  BY <1>1 DEF Tell, ConnType
<1>5. /\ j \in ConnType /\ j.status = "CONNECTING" /\ j.requests = conn.requests /\ j.rid = conn.rid
      /\ j.sid = conn.sid
  BY <1>1, <1>4 DEF ConnType, Statuses
<1> HIDE DEF j
<1>6. b \in SUBSET Stanzas /\ "terminate" \notin b /\ "presence" \notin b
  BY DEF Stanzas
<1> HIDE DEF b
<1>7. PICK q : /\ Throttled(Push(j, b, "connect")) = [j EXCEPT !.requests = q, !.rid = j.rid + 1]
               /\ Longer(q, j, b, "connect")
  BY <1>5, <1>6, ThrottledPush
<1>8. conn' = [conn EXCEPT !.status = "CONNECTING", !.fails = conn.fails,
                           !.requests = q, !.rid = conn.rid + 1]
  BY <1>1, <1>4, <1>7 DEF Connect, Become, j, b, ConnType
<1>9. conn' \in ConnType
  <2>1. q \in Seq(RequestType) /\ conn.rid + 1 \in Nat
    BY <1>1, <1>7 DEF Longer, ConnType
  <2>2. "CONNECTING" \in Statuses
    BY DEF Statuses
  <2> QED
    BY <1>1, <1>8, <2>1, <2>2 DEF ConnType
<1>10. /\ conn'.status = "CONNECTING" /\ conn'.fails = conn.fails /\ conn'.requests = q
       /\ conn'.rid = conn.rid + 1 /\ conn'.data = <<>> /\ conn'.sid = conn.sid
       /\ conn'.received = conn.received /\ conn'.authenticated = conn.authenticated
       /\ conn'.disconnecting = conn.disconnecting /\ conn'.timer = conn.timer
       /\ conn'.gaveUp = conn.gaveUp /\ conn'.removing = conn.removing
       /\ conn'.handlers = conn.handlers /\ conn'.adding = conn.adding
  BY <1>1, <1>3, <1>8 DEF ConnType
<1>11. Longer(conn'.requests, [conn EXCEPT !.sid = conn'.sid], b, "connect")
  <2> DEFINE g == [conn EXCEPT !.sid = conn'.sid]
  <2>1. g.requests = conn.requests /\ g.rid = conn.rid /\ g.sid = conn.sid
    BY <1>1, <1>10 DEF ConnType
  <2> HIDE DEF g
  <2>2. Longer(conn'.requests, g, b, "connect")
    BY <1>5, <1>7, <1>10, <2>1 DEF Longer
  <2> QED
    BY <2>2 DEF g
<1>12. Asking(conn, conn', b, "connect")
  BY <1>1, <1>6, <1>9, <1>10, <1>11 DEF Asking, Kept, Standing
<1>13. Kept(conn', srv)
  <2>1. LoggingIn(conn') /\ b \subseteq {"connect"}
    BY <1>10 DEF LoggingIn, b
  <2> QED
    BY <1>1, <1>2, <1>3, <1>6, <1>12, <2>1, KeptAskingLogin
<1>14. Passes(conn, conn', srv)
  BY <1>1, <1>10, <1>12, <1>13, PassesAsking
<1>15. Awaited(conn', srv) /\ Arrives(conn', srv)
  BY <1>10, <1>14 DEF Passes, Follow, Awaited, Arrives, Inv, Holds
<1>16. srv' = srv
  BY DEF Connect
<1> QED
  BY <1>13, <1>14, <1>15, <1>16 DEF Stepped, Inv, Holds, Passes, Tells

LEMMA CompletedSteps ==
    ASSUME Inv, NEW k, Done(conn, k, srv), Completed(k)
    PROVE  Stepped
<1>1. srv \in SrvType
  BY DEF Inv, Holds, Kept
<1>2. conn' = k /\ srv' = Without(srv, Rids(k))
  BY <1>1 DEF Completed, Become, Cached, Without, SrvType
<1>3. Without(srv, Rids(k)).sent = srv.sent
  BY <1>1, WithoutIs
<1> QED
  BY <1>2, <1>3 DEF Stepped, Done, Inv

LEMMA OutgoingIs ==
    ASSUME Inv, NEW i, Outgoing(i)
    PROVE  /\ i \in 1 .. Len(conn.requests) /\ conn \in ConnType /\ srv \in SrvType
           /\ Holds(conn, srv)
  BY QueueDomain DEF Inv, Holds, Kept, Outgoing

LEMMA DeliverSteps ==
    ASSUME Inv, NEW i \in 1 .. 2, Deliver(i)
    PROVE  Stepped
<1> DEFINE a == srv.cache[conn.requests[i].rid]
<1>1. Outgoing(i) /\ conn.requests[i].rid \in DOMAIN srv.cache
      /\ Completed(Status200(conn, i, a))
  BY DEF Deliver
<1> HIDE DEF a
<1>2. Done(conn, Status200(conn, i, a), srv)
  BY <1>1, OutgoingIs, Status200Done DEF a
<1> QED
  BY <1>1, <1>2, CompletedSteps

LEMMA GarbleSteps ==
    ASSUME Inv, NEW i \in 1 .. 2, Garble(i)
    PROVE  Stepped
<1>1. Outgoing(i) /\ conn.requests[i].rid \in DOMAIN srv.cache
  BY DEF Garble
<1>2. PICK kind \in {"parsererror", "null"} : Completed(Status200(conn, i, Broken(kind)))
  BY DEF Garble
<1>3. Done(conn, Status200(conn, i, Broken(kind)), srv)
  BY <1>1, OutgoingIs, Status200Done
<1> QED
  BY <1>2, <1>3, CompletedSteps

LEMMA RefuseSteps ==
    ASSUME Inv, NEW i \in 1 .. 2, Refuse(i)
    PROVE  Stepped
<1>1. /\ Outgoing(i) /\ Completed(Status404(conn, i))
      /\ ~srv.alive \/ (~conn.requests[i].sid /\ conn.requests[i].rid > 1)
  BY DEF Refuse
<1>2. Done(conn, Status404(conn, i), srv)
  BY <1>1, OutgoingIs, Status404Done
<1> QED
  BY <1>1, <1>2, CompletedSteps

LEMMA LoseSteps ==
    ASSUME Inv, NEW i \in 1 .. 2, Lose(i)
    PROVE  Stepped
<1>1. Outgoing(i) /\ Completed(Status0(conn, i))
  BY DEF Lose
<1>2. Done(conn, Status0(conn, i), srv)
  BY <1>1, OutgoingIs, Status0Done
<1> QED
  BY <1>1, <1>2, CompletedSteps

LEMMA IdleSteps ==
    ASSUME Inv, NEW due \in BOOLEAN, Idle(due)
    PROVE  Stepped
<1>1. Completed(OnIdle(conn, due)) /\ Holds(conn, srv)
  BY DEF Idle, Inv
<1>2. Done(conn, OnIdle(conn, due), srv)
  BY <1>1, IdleDone
<1> QED
  BY <1>1, <1>2, CompletedSteps

------------------------------------------------------------------------------
(* The steps of the server.                                                *)
Overlaid(c, s, D, f) ==
    /\ c \in UNION {[E -> AnswerType] : E \in SUBSET Nat}
    /\ DOMAIN c = D \cup DOMAIN s.cache
    /\ \A r \in D : c[r] = f[r]
    /\ \A r \in DOMAIN s.cache \ D : c[r] = s.cache[r]

LEMMA CachedMore ==
    ASSUME NEW s \in SrvType, NEW D \in SUBSET Nat, NEW f \in [D -> AnswerType],
           NEW c, c = Stored(s.cache, f)
    PROVE  Overlaid(c, s, D, f)
<1>1. DOMAIN s.cache \subseteq Nat /\ \A r \in DOMAIN s.cache : s.cache[r] \in AnswerType
  BY ServerParts
<1>2. c = [r \in D \cup DOMAIN s.cache |-> IF r \in D THEN f[r] ELSE s.cache[r]]
  BY DEF Stored
<1>3. c \in [D \cup DOMAIN s.cache -> AnswerType]
  BY <1>1, <1>2
<1>4. D \cup DOMAIN s.cache \in SUBSET Nat
  BY <1>1
<1>5. c \in UNION {[E -> AnswerType] : E \in SUBSET Nat}
  BY <1>3, <1>4
<1> QED
  BY <1>2, <1>5 DEF Overlaid

LEMMA CachedOne ==
    ASSUME NEW s \in SrvType, NEW rid \in Nat, NEW f \in [{rid} -> AnswerType],
           NEW c, c = Stored(s.cache, f)
    PROVE  /\ c \in UNION {[E -> AnswerType] : E \in SUBSET Nat}
           /\ DOMAIN c = {rid} \cup DOMAIN s.cache
           /\ c[rid] = f[rid]
           /\ \A r \in DOMAIN s.cache \ {rid} : c[r] = s.cache[r]
<1>1. {rid} \in SUBSET Nat /\ rid \in {rid}
  OBVIOUS
<1> QED
  BY <1>1, CachedMore DEF Overlaid

LEMMA OldestIs ==
    ASSUME NEW T \in SUBSET Nat, T # {}
    PROVE  Oldest(T) \in T
  BY LeastElement DEF Oldest

LEMMA ConfirmSteps ==
    ASSUME Inv, NEW m \in Messages, Confirm(m)
    PROVE  /\ Inv' /\ UNCHANGED conn
           /\ ~Before(conn) /\ m \notin srv.sent /\ srv'.sent = srv.sent \cup {m}
<1>1. Kept(conn, srv) /\ conn \in ConnType /\ srv \in SrvType
  BY DEF Inv, Holds, Kept
<1>2. /\ srv.alive /\ srv.online /\ m \notin srv.sent /\ UNCHANGED conn
      /\ srv' = [srv EXCEPT !.sent = srv.sent \cup {m}, !.out = Append(srv.out, m)]
  BY <1>1 DEF Confirm, SrvType
<1>3. m \notin LoginItems /\ m \in Items
  BY MessagesAssumption DEF Items
<1>4. ~Before(conn) /\ ~LoggingIn(conn) /\ srv.offered
  BY <1>1, <1>2 DEF Kept, Online, Before
<1>5. srv.out \in Seq(Items) /\ srv.sent \in SUBSET Messages
  BY <1>1, ServerParts DEF SrvType
<1> DEFINE out == Append(srv.out, m)
<1>6. /\ out \in Seq(Items) /\ Len(out) = Len(srv.out) + 1 /\ Len(srv.out) \in Nat
      /\ \A i \in 1 .. Len(srv.out) : out[i] = srv.out[i]
      /\ out[Len(srv.out) + 1] = m
  BY <1>3, <1>5, AppendProperties, LenProperties
<1>7. DOMAIN out = 1 .. Len(srv.out) + 1 /\ DOMAIN srv.out = 1 .. Len(srv.out)
  BY <1>5, <1>6, LenProperties
<1> HIDE DEF out
<1>8. ToSet(out) = ToSet(srv.out) \cup {m}
  BY <1>6, <1>7 DEF ToSet
<1>9. /\ srv' \in SrvType /\ srv'.out = out /\ srv'.sent = srv.sent \cup {m}
      /\ srv'.cache = srv.cache /\ srv'.open = srv.open /\ srv'.next = srv.next
      /\ srv'.alive = srv.alive /\ srv'.online = srv.online /\ srv'.offered = srv.offered
  BY <1>1, <1>2, <1>6 DEF SrvType, out
<1>10. Bodies(conn, srv') /\ Online(conn, srv') /\ Open(conn, srv') /\ Terminated(conn, srv')
  BY <1>1, <1>2, <1>4, <1>9 DEF Kept, Bodies, Online, Open, Terminated
<1>11. LoginOnItsWay(conn, srv')
  <2>1. \A i \in 1 .. Len(out) : out[i] \notin LoginItems
    <3>1. \A i \in 1 .. Len(srv.out) : srv.out[i] \notin LoginItems
      BY <1>1, <1>4 DEF Kept, LoginOnItsWay
    <3>2. \A i \in 1 .. Len(out) : i \in 1 .. Len(srv.out) \/ i = Len(srv.out) + 1
      BY <1>6
    <3> QED
      BY <1>3, <1>6, <3>1, <3>2
  <2> QED
    BY <1>1, <1>9, <2>1 DEF Kept, LoginOnItsWay
<1>12. OnePlace(conn, srv')
  <2>1. /\ conn.received \in Seq(srv.sent) /\ ToSet(srv.out) \subseteq LoginItems \cup srv.sent
        /\ \A r \in DOMAIN srv.cache : ToSet(srv.cache[r].items) \subseteq LoginItems \cup srv.sent
    BY <1>1 DEF Kept, OnePlace
  <2>2. m \notin ToSet(srv.out) /\ \A r \in DOMAIN srv.cache : m \notin ToSet(srv.cache[r].items)
    BY <1>2, <1>3, <2>1
  <2>3. ToSet(conn.received) \subseteq srv.sent
    BY <2>1 DEF ToSet
  <2>4. conn.received \in Seq(srv.sent \cup {m})
    BY <2>1
  <2>5. IsInjective(out)
    <3>1. IsInjective(srv.out) /\ \A i \in 1 .. Len(srv.out) : srv.out[i] # m
      BY <1>1, <1>7, <2>2 DEF Kept, OnePlace, ToSet
    <3>2. \A i \in 1 .. Len(out) : i \in 1 .. Len(srv.out) \/ i = Len(srv.out) + 1
      BY <1>6
    <3> QED
      BY <1>6, <1>7, <3>1, <3>2 DEF IsInjective
  <2>6. ASSUME NEW x \in srv.sent \cup {m}
        PROVE  /\ x \in ToSet(out) => x \notin ToSet(conn.received)
               /\ \A r \in DOMAIN srv.cache : x \in ToSet(srv.cache[r].items) =>
                     /\ x \notin ToSet(conn.received) \cup ToSet(out)
                     /\ \A q \in DOMAIN srv.cache \ {r} : x \notin ToSet(srv.cache[q].items)
    <3>1. CASE x = m
      BY <1>2, <2>2, <2>3, <3>1
    <3>2. CASE x # m
      BY <1>1, <1>8, <3>2 DEF Kept, OnePlace
    <3> QED
      BY <3>1, <3>2
  <2>7. ToSet(out) \subseteq LoginItems \cup (srv.sent \cup {m})
    BY <1>8, <2>1
  <2> QED
    BY <1>1, <1>9, <2>1, <2>4, <2>5, <2>6, <2>7 DEF Kept, OnePlace
<1>13. Kept(conn', srv')
  BY <1>1, <1>2, <1>9, <1>10, <1>11, <1>12 DEF Kept
<1>14. Awaited(conn', srv') /\ Arrives(conn', srv')
  BY <1>2, <1>8, <1>9 DEF Inv, Holds, Awaited, Arrives
<1> QED
  BY <1>2, <1>4, <1>9, <1>13, <1>14 DEF Inv, Holds

(* A server that says nothing new.                                         *)
LEMMA ServerSteps ==
    ASSUME Inv, UNCHANGED conn, srv' \in SrvType,
           Bodies(conn, srv'), Online(conn, srv'), Open(conn, srv'),
           LoginOnItsWay(conn, srv'), OnePlace(conn, srv'), Terminated(conn, srv'),
           Awaited(conn, srv'), Arrives(conn, srv'), srv'.sent = srv.sent
    PROVE  Stepped
<1>1. Kept(conn, srv')
  BY DEF Inv, Holds, Kept
<1>2. Moves(conn, conn)
  BY DEF Moves
<1>3. conn' = conn
  OBVIOUS
<1>4. Holds(conn', srv')
  BY <1>1, <1>3 DEF Holds
<1> QED
  BY <1>2, <1>3, <1>4 DEF Stepped, Inv, Tells

LEMMA ReplySteps ==
    ASSUME Inv, Reply
    PROVE  Stepped
<1> DEFINE rid == Oldest(srv.open)
           a == Data(srv.out)
           c == IF rid \in Rids(conn) THEN Stored(srv.cache, [r \in {rid} |-> a]) ELSE srv.cache
           D == DOMAIN srv.cache
<1>1. Kept(conn, srv) /\ conn \in ConnType /\ srv \in SrvType
  BY DEF Inv, Holds, Kept
<1>2. srv.open # {} /\ UNCHANGED conn
      /\ srv' = [srv EXCEPT !.open = srv.open \ {rid}, !.out = <<>>, !.cache = c]
  BY <1>1 DEF Reply, SrvType
<1>3. rid \in srv.open /\ rid \in Nat
  <2>1. srv.open \in SUBSET Nat
    BY <1>1 DEF SrvType
  <2> QED
    BY <1>2, <2>1, OldestIs
<1>4. a \in AnswerType /\ a.items = srv.out /\ a.kind = "data"
  BY <1>1, ServerParts DEF Data, AnswerType
<1> HIDE DEF rid, a
<1>5. rid \notin D /\ rid < srv.next /\ srv.alive
  BY <1>1, <1>3 DEF Kept, Open
<1>6. /\ c \in UNION {[E -> AnswerType] : E \in SUBSET Nat}
      /\ rid \in Rids(conn) => DOMAIN c = {rid} \cup D /\ c[rid] = a
      /\ rid \notin Rids(conn) => DOMAIN c = D
      /\ \A r \in D : c[r] = srv.cache[r]
  <2>1. srv.cache \in UNION {[E -> AnswerType] : E \in SUBSET Nat}
    BY <1>1 DEF SrvType
  <2>2. CASE rid \in Rids(conn)
    <3> DEFINE f == [r \in {rid} |-> a]
    <3>1. f \in [{rid} -> AnswerType] /\ f[rid] = a
      BY <1>4
    <3>2. c = Stored(srv.cache, f)
      BY <2>2
    <3> HIDE DEF f, c
    <3>3. /\ c \in UNION {[E -> AnswerType] : E \in SUBSET Nat}
          /\ DOMAIN c = {rid} \cup D /\ c[rid] = f[rid]
          /\ \A r \in D \ {rid} : c[r] = srv.cache[r]
      BY <1>1, <1>3, <2>2, <3>1, <3>2, CachedOne
    <3> QED
      BY <1>5, <2>2, <3>1, <3>3
  <2>3. CASE ~(rid \in Rids(conn))
    BY <2>1, <2>3
  <2> QED
    BY <2>2, <2>3
<1> HIDE DEF c
<1>7. /\ srv' \in SrvType /\ srv'.open = srv.open \ {rid} /\ srv'.out = <<>>
      /\ srv'.cache = c /\ srv'.next = srv.next /\ srv'.sent = srv.sent
      /\ srv'.alive = srv.alive /\ srv'.online = srv.online /\ srv'.offered = srv.offered
  <2>1. srv.open \ {rid} \in SUBSET Nat /\ <<>> \in Seq(Items)
    BY <1>1, EmptySeq DEF SrvType
  <2> QED
    BY <1>1, <1>2, <1>6, <2>1 DEF SrvType
<1>8. \A r \in DOMAIN c : r \in D \/ (r = rid /\ rid \in Rids(conn) /\ c[r] = a)
  BY <1>6
<1>9. Bodies(conn, srv')
  BY <1>1, <1>4, <1>6, <1>7, <1>8 DEF Kept, Bodies
<1>10. Online(conn, srv') /\ Open(conn, srv')
  BY <1>1, <1>5, <1>7, <1>8 DEF Kept, Online, Open
<1>11. LoginOnItsWay(conn, srv')
  <2>1. Len(srv'.out) = 0
    BY <1>7
  <2>2. ASSUME NEW r \in DOMAIN c, NEW i \in 1 .. Len(c[r].items), c[r].items[i] \in LoginItems
        PROVE  LoggingIn(conn) /\ Len(c[r].items) = 1 /\ r \in Rids(conn)
    BY <1>1, <1>4, <1>6, <1>8, <2>2 DEF Kept, LoginOnItsWay
  <2> QED
    BY <1>7, <2>1, <2>2 DEF LoginOnItsWay
<1>12. OnePlace(conn, srv')
  <2>1. ToSet(<<>>) = {} /\ IsInjective(<<>>)
    BY DEF ToSet, IsInjective
  <2>2. \A r \in DOMAIN c : ToSet(c[r].items) \subseteq LoginItems \cup srv.sent
                            /\ IsInjective(c[r].items)
    BY <1>1, <1>4, <1>6, <1>8 DEF Kept, OnePlace
  <2>3. ASSUME NEW m \in srv.sent, NEW r \in DOMAIN c, m \in ToSet(c[r].items)
        PROVE  /\ m \notin ToSet(conn.received)
               /\ \A q \in DOMAIN c \ {r} : m \notin ToSet(c[q].items)
    <3>1. CASE r \in D
      BY <1>1, <1>4, <1>5, <1>6, <1>8, <2>3, <3>1 DEF Kept, OnePlace
    <3>2. CASE r = rid /\ c[r] = a
      BY <1>1, <1>4, <1>5, <1>6, <1>8, <2>3, <3>2 DEF Kept, OnePlace
    <3> QED
      BY <1>8, <3>1, <3>2
  <2> QED
    BY <1>1, <1>7, <2>1, <2>2, <2>3 DEF Kept, OnePlace
<1>13. Terminated(conn, srv')
  BY <1>1, <1>4, <1>6, <1>7, <1>8 DEF Kept, Terminated
<1>14. Awaited(conn, srv')
  BY <1>7 DEF Inv, Holds, Awaited
<1>15. Arrives(conn, srv')
  <2>1. ASSUME conn.status = "CONNECTED", srv.alive, ~conn.gaveUp, NEW m \in srv.sent
        PROVE  \/ m \in ToSet(conn.received)
               \/ \E r \in DOMAIN c \cap Rids(conn) : m \in ToSet(c[r].items)
    <3>1. rid \in Rids(conn)
      BY <1>3, <2>1 DEF Inv, Holds, Awaited, Live
    <3>2. \/ m \in ToSet(conn.received) \/ m \in ToSet(srv.out)
          \/ \E r \in D \cap Rids(conn) : m \in ToSet(srv.cache[r].items)
      BY <2>1 DEF Inv, Holds, Arrives
    <3> QED
      BY <1>4, <1>6, <3>1, <3>2
  <2> QED
    BY <1>7, <2>1 DEF Arrives
<1> QED
  BY <1>2, <1>7, <1>9, <1>10, <1>11, <1>12, <1>13, <1>14, <1>15, ServerSteps

LEMMA EndSteps ==
    ASSUME Inv, UNCHANGED conn, srv.alive, srv' = End
    PROVE  Stepped
<1> DEFINE rid == Oldest(srv.open)
           a == Broken("terminate")
           says == srv.open # {} /\ rid \in Rids(conn)
           c == IF says THEN Stored(srv.cache, [r \in {rid} |-> a]) ELSE srv.cache
           D == DOMAIN srv.cache
<1>1. Kept(conn, srv) /\ conn \in ConnType /\ srv \in SrvType
  BY DEF Inv, Holds, Kept
<1>2. srv' = [srv EXCEPT !.alive = FALSE, !.open = {}, !.out = <<>>, !.cache = c]
  BY <1>1 DEF End, SrvType
<1>3. says => rid \in srv.open /\ rid \in Nat
  <2>1. srv.open \in SUBSET Nat
    BY <1>1 DEF SrvType
  <2> QED
    BY <1>2, <2>1, OldestIs
<1>4. a \in AnswerType /\ a.items = <<>> /\ a.kind = "terminate"
  BY EmptySeq DEF Broken, AnswerType
<1> HIDE DEF a
<1>5. says => rid \notin D /\ rid < srv.next
  BY <1>1, <1>3 DEF Kept, Open
<1> HIDE DEF rid
<1>6. /\ c \in UNION {[E -> AnswerType] : E \in SUBSET Nat}
      /\ says => DOMAIN c = {rid} \cup D /\ c[rid] = a
      /\ ~says => DOMAIN c = D
      /\ \A r \in D : c[r] = srv.cache[r]
  <2>1. srv.cache \in UNION {[E -> AnswerType] : E \in SUBSET Nat}
    BY <1>1 DEF SrvType
  <2>2. CASE says
    <3> DEFINE f == [r \in {rid} |-> a]
    <3>1. f \in [{rid} -> AnswerType] /\ f[rid] = a
      BY <1>4
    <3>2. c = Stored(srv.cache, f)
      BY <2>2
    <3> HIDE DEF f, c, says
    <3>3. /\ c \in UNION {[E -> AnswerType] : E \in SUBSET Nat}
          /\ DOMAIN c = {rid} \cup D /\ c[rid] = f[rid]
          /\ \A r \in D \ {rid} : c[r] = srv.cache[r]
      BY <1>1, <1>3, <2>2, <3>1, <3>2, CachedOne
    <3> QED
      BY <1>5, <2>2, <3>1, <3>3
  <2>3. CASE ~(says)
    BY <2>1, <2>3
  <2> QED
    BY <2>2, <2>3
<1> HIDE DEF c, says
<1>7. /\ srv' \in SrvType /\ srv'.open = {} /\ srv'.out = <<>>
      /\ srv'.cache = c /\ srv'.next = srv.next /\ srv'.sent = srv.sent
      /\ ~srv'.alive /\ srv'.online = srv.online /\ srv'.offered = srv.offered
  <2>1. <<>> \in Seq(Items)
    BY EmptySeq
  <2> QED
    BY <1>1, <1>2, <1>6, <2>1 DEF SrvType
<1>8. \A r \in DOMAIN c : r \in D \/ (r = rid /\ says /\ c[r] = a)
  BY <1>6
<1>9. Bodies(conn, srv')
  BY <1>1, <1>4, <1>6, <1>7, <1>8 DEF Kept, Bodies
<1>10. Online(conn, srv') /\ Open(conn, srv')
  BY <1>1, <1>5, <1>7, <1>8 DEF Kept, Online, Open
<1>11. LoginOnItsWay(conn, srv')
  <2>1. Len(srv'.out) = 0 /\ Len(a.items) = 0
    BY <1>4, <1>7
  <2>2. ASSUME NEW r \in DOMAIN c, NEW i \in 1 .. Len(c[r].items), c[r].items[i] \in LoginItems
        PROVE  LoggingIn(conn) /\ Len(c[r].items) = 1 /\ r \in Rids(conn)
    <3>1. r \in D
      BY <1>8, <2>1
    <3> QED
      BY <1>1, <1>6, <2>2, <3>1 DEF Kept, LoginOnItsWay
  <2> QED
    BY <1>7, <2>1, <2>2 DEF LoginOnItsWay
<1>12. OnePlace(conn, srv')
  <2>1. ToSet(<<>>) = {} /\ IsInjective(<<>>)
    BY DEF ToSet, IsInjective
  <2>2. \A r \in DOMAIN c : ToSet(c[r].items) \subseteq LoginItems \cup srv.sent
                            /\ IsInjective(c[r].items)
    BY <1>1, <1>4, <1>6, <1>8, <2>1 DEF Kept, OnePlace
  <2>3. ASSUME NEW m \in srv.sent, NEW r \in DOMAIN c, m \in ToSet(c[r].items)
        PROVE  /\ m \notin ToSet(conn.received)
               /\ \A q \in DOMAIN c \ {r} : m \notin ToSet(c[q].items)
    BY <1>1, <1>4, <1>6, <1>8, <2>1, <2>3 DEF Kept, OnePlace
  <2> QED
    BY <1>1, <1>7, <2>1, <2>2, <2>3 DEF Kept, OnePlace
<1>13. Terminated(conn, srv')
  <2>1. conn.fails = 0 /\ \A r \in D : srv.cache[r].kind = "data"
    BY <1>1 DEF Kept, Terminated
  <2> QED
    BY <1>4, <1>5, <1>6, <1>7, <1>8, <2>1 DEF Terminated
<1>14. Awaited(conn, srv') /\ Arrives(conn, srv')
  BY <1>7 DEF Awaited, Arrives
<1> QED
  BY <1>7, <1>9, <1>10, <1>11, <1>12, <1>13, <1>14, ServerSteps

LEMMA AnswersOfLogin ==
    ASSUME NEW stanza, NEW item \in Answers(stanza) \cup Refusals(stanza, conn.mech)
    PROVE  item \in LoginItems /\ stanza # "none"
<1>1. stanza \in LoginStanzas \/ stanza \notin LoginStanzas
  OBVIOUS
<1>2. CASE stanza \notin LoginStanzas
  BY <1>2 DEF Answers, Refusals, Replies, LoginStanzas
<1>3. CASE stanza \in LoginStanzas
  <2>1. Replies(stanza, conn.mech) \subseteq LoginItems
    BY <1>3 DEF Replies, LoginStanzas, LoginItems
  <2>2. Refusals(stanza, conn.mech) \subseteq LoginItems
    BY <1>3 DEF Refusals, LoginStanzas, LoginItems
  <2>3. Answers(stanza) \subseteq LoginItems
    BY <2>1 DEF Answers, LoginItems
  <2> QED
    BY <1>3, <2>2, <2>3 DEF LoginStanzas
<1> QED
  BY <1>2, <1>3

(* The request that the server reads next is the only one of a login, and  *)
(* nothing is on its way.                                                  *)
LEMMA NextOfLogin ==
    ASSUME NEW k, NEW s, Kept(k, s), NEW i \in 1 .. Len(k.requests),
           k.requests[i].rid = s.next
    PROVE  /\ \A j \in 1 .. Len(s.out) : s.out[j] \notin LoginItems
           /\ LoggingIn(k) => s.out = <<>> /\ k.data = <<>> /\ Rids(k) = {s.next}
           /\ k.requests[i].func = "connect" =>
                 LoggingIn(k) /\ k.requests[i].body \cap LoginStanzas = {}
           /\ k.requests[i].func # "connect" /\ "terminate" \notin k.requests[i].body => s.offered
           /\ k.requests[i].body \cap LoginStanzas # {} => LoggingIn(k)
           /\ "presence" \in k.requests[i].body => ~Before(k) /\ k.requests[i].func # "connect"
<1>1. k \in ConnType /\ s \in SrvType /\ s.out \in Seq(Items) /\ s.next \in Nat
  BY ServerParts DEF Kept
<1>2. \A j \in 1 .. Len(s.out) : s.out[j] \notin LoginItems
  <2>1. ~(k.requests[i].rid < s.next)
    BY <1>1
  <2> QED
    BY <2>1 DEF Kept, LoginOnItsWay
<1>3. ASSUME LoggingIn(k) PROVE s.out = <<>> /\ k.data = <<>> /\ Rids(k) = {s.next}
  <2>1. \A j \in 1 .. Len(s.out) : FALSE
    BY <1>2, <1>3, OnlyLogin DEF Before
  <2>2. Len(s.out) \in Nat /\ (Len(s.out) = 0 => s.out = <<>>)
    BY <1>1, EmptySeq, LenProperties
  <2>3. Len(s.out) >= 1 => 1 \in 1 .. Len(s.out)
    BY <2>2
  <2>4. s.out = <<>>
    BY <2>1, <2>2, <2>3
  <2> QED
    BY <1>3, <2>4, LoginAlone
<1>4. k.requests[i].func = "connect" => LoggingIn(k) /\ k.requests[i].body \subseteq {"connect"}
  BY DEF Kept, Queued
<1>5. k.requests[i].func # "connect" /\ "terminate" \notin k.requests[i].body => s.offered
  BY DEF Kept, Bodies
<1>6. k.requests[i].body \cap LoginStanzas # {} => LoggingIn(k)
  <2>1. k.requests[i].rid >= s.next
    BY <1>1
  <2> QED
    BY <2>1 DEF Kept, Bodies
<1>7. "presence" \in k.requests[i].body => ~Before(k) /\ k.requests[i].func # "connect"
  BY <1>4 DEF Kept, Queued
<1>8. {"connect"} \cap LoginStanzas = {}
  BY DEF LoginStanzas
<1> QED
  BY <1>2, <1>3, <1>4, <1>5, <1>6, <1>7, <1>8

LEMMA OneItem ==
    ASSUME NEW x \in Items
    PROVE  /\ <<x>> \in Seq(Items) /\ Len(<<x>>) = 1 /\ ToSet(<<x>>) = {x}
           /\ IsInjective(<<x>>) /\ <<x>>[1] = x
  BY DEF ToSet, IsInjective

LEMMA ProcessSays ==
    ASSUME Inv, NEW i \in 1 .. 2, Process(i), "terminate" \notin conn.requests[i].body
    PROVE  Stepped
<1> DEFINE r == conn.requests[i]
           asks == r.body \cap LoginStanzas
           stanza == IF asks = {} THEN "none" ELSE CHOOSE st \in asks : TRUE
           offer == ~srv.offered /\ (~srv.profile.late \/ r.rid > 1)
           x == IF offer THEN <<"offers">> ELSE <<>>
           S(items) == [srv EXCEPT !.next = srv.next + 1, !.offered = srv.offered \/ offer,
                                   !.again = srv.again \/ stanza = "response",
                                   !.online = srv.online \/ "presence" \in r.body,
                                   !.open = srv.open \cup {r.rid},
                                   !.out = (srv.out \o x) \o items]
<1>1. Kept(conn, srv) /\ conn \in ConnType /\ srv \in SrvType
  BY DEF Inv, Holds, Kept
<1>2. Outgoing(i) /\ i \in 1 .. Len(conn.requests) /\ r \in RequestType
      /\ r.rid = srv.next /\ srv.alive /\ UNCHANGED conn
  BY <1>1, OutgoingIs, ElementType DEF Process
<1>3. \E items : /\ srv' = S(items)
                 /\ items = <<>> \/ \E item \in LoginItems : asks # {} /\ items = <<item>>
  <2>1. \/ srv' = S(<<>>)
        \/ \E item \in Answers(stanza) : srv' = S(<<item>>)
        \/ \E item \in Refusals(stanza, conn.mech) : srv' = S(<<item>>)
    <3> DEFINE off == srv.offered \/ offer
               on == srv.online \/ "presence" \in r.body
               ag == srv.again \/ stanza = "response"
               nx == srv.next + 1
               op == srv.open \cup {r.rid}
               hears == [srv EXCEPT !.next = nx, !.offered = off, !.again = ag, !.online = on]
               Say(items) == [hears EXCEPT !.open = op, !.out = @ \o x \o items]
    <3>1. \/ srv' = Say(<<>>)
          \/ \E item \in Answers(stanza) : srv' = Say(<<item>>)
          \/ \E item \in Refusals(stanza, conn.mech) : srv' = Say(<<item>>)
      BY DEF Process
    <3>2. \A items : Say(items) = S(items)
      <4> HIDE DEF off, on, ag, nx, op, x
      <4>1. hears.out = srv.out
        BY <1>1 DEF SrvType
      <4>2. \A items : Say(items) = [hears EXCEPT !.open = op, !.out = (srv.out \o x) \o items]
        BY <4>1
      <4>3. \A items : Say(items) = [srv EXCEPT !.next = nx, !.offered = off, !.again = ag,
                          !.online = on, !.open = op, !.out = (srv.out \o x) \o items]
        BY <1>1, <4>2 DEF SrvType
      <4> QED
        BY <4>3 DEF off, on, ag, nx, op
    <3> HIDE DEF Say, S
    <3> QED
      BY <3>1, <3>2
  <2>2. \A item \in Answers(stanza) \cup Refusals(stanza, conn.mech) :
           item \in LoginItems /\ asks # {}
    BY AnswersOfLogin
  <2> HIDE DEF S, stanza, asks
  <2> QED
    BY <2>1, <2>2
<1>4. PICK items : /\ srv' = S(items)
                   /\ items = <<>> \/ \E item \in LoginItems : asks # {} /\ items = <<item>>
  BY <1>3
<1>5. /\ \A j \in 1 .. Len(srv.out) : srv.out[j] \notin LoginItems
      /\ LoggingIn(conn) => srv.out = <<>> /\ conn.data = <<>> /\ Rids(conn) = {srv.next}
      /\ r.func = "connect" => LoggingIn(conn) /\ asks = {}
      /\ r.func # "connect" => srv.offered
      /\ asks # {} => LoggingIn(conn)
      /\ "presence" \in r.body => ~Before(conn) /\ srv.offered
  BY <1>1, <1>2, NextOfLogin
<1> DEFINE out == (srv.out \o x) \o items
<1> HIDE DEF asks
<1>6. srv.out \in Seq(Items) /\ srv.next \in Nat /\ LoginItems \subseteq Items
  BY <1>1, ServerParts DEF Items
<1>7. \/ out = srv.out
      \/ /\ LoggingIn(conn) /\ srv.out = <<>> /\ (srv.offered \/ offer)
         /\ \E item \in LoginItems : out = <<item>>
  <2>1. CASE offer
    <3>1. LoggingIn(conn) /\ items = <<>> /\ srv.out = <<>>
      BY <1>4, <1>5, <2>1
    <3>2. out = <<"offers">>
      BY <2>1, <3>1
    <3>3. "offers" \in LoginItems
      BY DEF LoginItems
    <3> QED
      BY <2>1, <3>1, <3>2, <3>3
  <2>2. CASE ~offer /\ items = <<>>
    <3>1. x = <<>>
      BY <2>2
    <3>2. srv.out \o <<>> = srv.out
      BY <1>6, ConcatEmptySeq
    <3>3. out = (srv.out \o <<>>) \o <<>>
      BY <2>2, <3>1
    <3>4. out = srv.out
      BY <3>2, <3>3
    <3> QED
      BY <3>4
  <2>3. CASE ~offer /\ items # <<>>
    <3>1. PICK item \in LoginItems : asks # {} /\ items = <<item>>
      BY <1>4, <2>3
    <3>2. LoggingIn(conn) /\ srv.out = <<>> /\ srv.offered
      BY <1>5, <3>1
    <3>3. x = <<>>
      BY <2>3
    <3>4. out = <<item>>
      BY <3>1, <3>2, <3>3
    <3> QED
      BY <3>2, <3>4
  <2> QED
    BY <2>1, <2>2, <2>3
<1>8. out \in Seq(Items)
  BY <1>6, <1>7, OneItem
<1>9. /\ srv' \in SrvType /\ srv'.next = srv.next + 1 /\ srv'.offered = (srv.offered \/ offer)
      /\ srv'.online = (srv.online \/ "presence" \in r.body)
      /\ srv'.open = srv.open \cup {srv.next} /\ srv'.out = out /\ srv'.cache = srv.cache
      /\ srv'.alive = srv.alive /\ srv'.sent = srv.sent
  <2> DEFINE off == srv.offered \/ offer
             on == srv.online \/ "presence" \in r.body
             ag == srv.again \/ stanza = "response"
             op == srv.open \cup {srv.next}
             nx == srv.next + 1
  <2>1. /\ off \in BOOLEAN /\ on \in BOOLEAN /\ ag \in BOOLEAN
    BY <1>1 DEF SrvType
  <2>2. op \in SUBSET Nat /\ nx \in Nat
    BY <1>1, <1>6 DEF SrvType
  <2>3. srv' = [srv EXCEPT !.next = nx, !.offered = off, !.again = ag, !.online = on,
                           !.open = op, !.out = out]
    BY <1>2, <1>4
  <2> HIDE DEF off, on, ag, op, nx, out
  <2>4. /\ srv' \in SrvType /\ srv'.next = nx /\ srv'.offered = off /\ srv'.online = on
        /\ srv'.open = op /\ srv'.out = out /\ srv'.cache = srv.cache
        /\ srv'.alive = srv.alive /\ srv'.sent = srv.sent
    BY <1>1, <1>8, <2>1, <2>2, <2>3 DEF SrvType
  <2> QED
    BY <2>4 DEF off, on, op, nx
<1> HIDE DEF offer, out, x, S
<1>10. LoggingIn(conn) => Before(conn)
  BY DEF Before
<1>11. Bodies(conn, srv')
  <2>1. \A j \in 1 .. Len(conn.requests) : conn.requests[j].rid \in Nat
    BY <1>1, ElementType
  <2>2. \A j \in 1 .. Len(conn.requests) :
           conn.requests[j].rid >= srv.next + 1 => conn.requests[j].rid >= srv.next
    BY <1>6, <2>1
  <2>3. ~srv'.offered => out = srv.out /\ ~srv.offered
    BY <1>7, <1>9
  <2> QED
    BY <1>1, <1>9, <2>2, <2>3 DEF Kept, Bodies
<1>12. Online(conn, srv')
  BY <1>1, <1>2, <1>5, <1>9 DEF Kept, Online
<1>13. Open(conn, srv')
  <2>1. srv.next < conn.rid /\ conn.rid \in Nat
    BY <1>1, <1>2 DEF Kept, InOrder, ConnType
  <2>2. srv.next + 1 =< conn.rid
    BY <1>6, <2>1
  <2>3. \A a \in srv.open \cup {srv.next} : a < srv.next + 1
    <3>1. \A a \in srv.open : a < srv.next /\ a \in Nat
      BY <1>1 DEF Kept, Open, SrvType
    <3> QED
      BY <1>6, <3>1
  <2>4. \A a \in DOMAIN srv.cache : a < srv.next + 1 /\ a # srv.next /\ a \notin srv.open
    <3>1. \A a \in DOMAIN srv.cache : a < srv.next /\ a \in Nat /\ a \notin srv.open
      BY <1>1, ServerParts DEF Kept, Open
    <3> QED
      BY <1>6, <3>1
  <2> QED
    BY <1>2, <1>9, <2>2, <2>3, <2>4 DEF Open
<1>14. LoginOnItsWay(conn, srv')
  <2>1. ASSUME NEW j \in 1 .. Len(out), out[j] \in LoginItems
        PROVE  /\ LoggingIn(conn) /\ Len(out) = 1 /\ conn.data = <<>>
               /\ \A a \in 1 .. Len(conn.requests) :
                     conn.requests[a].rid < srv.next + 1 /\ conn.requests[a].rid \notin DOMAIN srv.cache
    <3>1. out # srv.out
      BY <1>5, <2>1
    <3>2. LoggingIn(conn) /\ Len(out) = 1
      BY <1>7, <3>1
    <3>3. conn.data = <<>> /\ Rids(conn) = {srv.next}
      BY <1>5, <3>2
    <3>4. \A a \in 1 .. Len(conn.requests) : conn.requests[a].rid = srv.next
      BY <1>1, <3>3, RidsAre
    <3>5. srv.next \notin DOMAIN srv.cache /\ srv.next < srv.next + 1
      <4>1. \A a \in DOMAIN srv.cache : a < srv.next
        BY <1>1 DEF Kept, Open
      <4>2. ~(srv.next < srv.next) /\ srv.next < srv.next + 1
        BY <1>6
      <4> QED
        BY <4>1, <4>2
    <3> QED
      BY <3>2, <3>3, <3>4, <3>5
  <2> QED
    BY <1>1, <1>9, <2>1 DEF Kept, LoginOnItsWay
<1>15. OnePlace(conn, srv')
  <2>1. CASE out = srv.out
    BY <1>1, <1>9, <2>1 DEF Kept, OnePlace
  <2>2. CASE out # srv.out
    <3>1. PICK item \in LoginItems : LoggingIn(conn) /\ out = <<item>>
      BY <1>7, <2>2
    <3>2. srv.sent = {}
      BY <1>1, <1>10, <3>1, OnlyLogin
    <3>3. ToSet(out) = {item} /\ IsInjective(out)
      BY <1>6, <3>1, OneItem
    <3> QED
      BY <1>1, <1>9, <3>2, <3>3 DEF Kept, OnePlace
  <2> QED
    BY <2>1, <2>2
<1>16. Terminated(conn, srv')
  BY <1>1, <1>9 DEF Kept, Terminated
<1>17. Awaited(conn, srv')
  <2>1. srv.next \in Rids(conn)
    BY <1>1, <1>2, RidsAre
  <2> QED
    BY <1>9, <2>1 DEF Inv, Holds, Awaited
<1>18. Arrives(conn, srv')
  <2>1. conn.status = "CONNECTED" => out = srv.out
    BY <1>7 DEF LoggingIn
  <2> QED
    BY <1>9, <2>1 DEF Inv, Holds, Arrives
<1> QED
  BY <1>2, <1>9, <1>11, <1>12, <1>13, <1>14, <1>15, <1>16, <1>17, <1>18, ServerSteps

LEMMA ProcessTerminates ==
    ASSUME Inv, NEW i \in 1 .. 2, Process(i), "terminate" \in conn.requests[i].body
    PROVE  Stepped
<1> DEFINE r == conn.requests[i]
           asks == r.body \cap LoginStanzas
           stanza == IF asks = {} THEN "none" ELSE CHOOSE st \in asks : TRUE
           offer == ~srv.offered /\ (~srv.profile.late \/ r.rid > 1)
           off == srv.offered \/ offer
           on == srv.online \/ "presence" \in r.body
           ag == srv.again \/ stanza = "response"
           nx == srv.next + 1
           op == srv.open \cup {r.rid}
           f == [x \in op |-> IF x = r.rid THEN Broken("terminate") ELSE Data(<<>>)]
           c == Stored(srv.cache, f)
           D == DOMAIN srv.cache
           hears == [srv EXCEPT !.next = nx, !.offered = off, !.again = ag, !.online = on]
<1>1. Kept(conn, srv) /\ conn \in ConnType /\ srv \in SrvType
  BY DEF Inv, Holds, Kept
<1>2. Outgoing(i) /\ i \in 1 .. Len(conn.requests) /\ r \in RequestType
      /\ r.rid = srv.next /\ srv.alive /\ UNCHANGED conn /\ srv.next \in Nat
  BY <1>1, OutgoingIs, ElementType, ServerParts DEF Process
<1>3. "presence" \in r.body => ~Before(conn)
  BY <1>1, <1>2, NextOfLogin
<1>4. srv' = [hears EXCEPT !.alive = FALSE, !.open = {}, !.out = <<>>, !.cache = Stored(@, f)]
  BY DEF Process
<1>5. /\ off \in BOOLEAN /\ on \in BOOLEAN /\ ag \in BOOLEAN
      /\ (srv.offered => off) /\ (on => srv.online \/ "presence" \in r.body) /\ (srv.online => on)
  BY <1>1 DEF SrvType
<1>6. op \in SUBSET Nat /\ nx \in Nat /\ op = srv.open \cup {srv.next}
  BY <1>1, <1>2 DEF SrvType
<1>7. /\ f \in [op -> AnswerType]
      /\ \A x \in op : /\ f[x].items = <<>> /\ f[x].kind \in {"data", "terminate"}
                       /\ f[x].kind = "terminate" => x = srv.next
  BY <1>2, EmptySeq DEF AnswerType, Broken, Data
<1> HIDE DEF off, on, ag, op, f, asks
<1>8. srv' = [srv EXCEPT !.next = nx, !.offered = off, !.again = ag, !.online = on,
                         !.alive = FALSE, !.open = {}, !.out = <<>>, !.cache = c]
  <2> HIDE DEF nx
  <2>1. hears.cache = srv.cache
    BY <1>1 DEF SrvType
  <2>2. srv' = [hears EXCEPT !.alive = FALSE, !.open = {}, !.out = <<>>, !.cache = c]
    BY <1>4, <2>1
  <2> HIDE DEF c
  <2> QED
    BY <1>1, <2>2 DEF SrvType
<1>9. /\ c \in UNION {[E -> AnswerType] : E \in SUBSET Nat}
      /\ DOMAIN c = op \cup D
      /\ \A x \in op : c[x] = f[x]
      /\ \A x \in D \ op : c[x] = srv.cache[x]
  <2>1. c = Stored(srv.cache, f)
    OBVIOUS
  <2>2. srv \in SrvType /\ op \in SUBSET Nat /\ f \in [op -> AnswerType]
    BY <1>1, <1>6, <1>7
  <2> HIDE DEF c, D
  <2>3. Overlaid(c, srv, op, f)
    BY <2>1, <2>2, CachedMore
  <2> QED
    BY <2>3 DEF D, Overlaid
<1> HIDE DEF c
<1>10. /\ srv' \in SrvType /\ srv'.open = {} /\ srv'.out = <<>> /\ srv'.offered = off
       /\ srv'.cache = c /\ srv'.next = nx /\ srv'.sent = srv.sent
       /\ ~srv'.alive /\ srv'.online = on
  <2> HIDE DEF nx
  <2>1. <<>> \in Seq(Items)
    BY EmptySeq
  <2> QED
    BY <1>1, <1>5, <1>6, <1>8, <1>9, <2>1 DEF SrvType
<1>11. \A x \in D : x \in Nat /\ x < srv.next /\ x \notin op /\ c[x] = srv.cache[x]
  <2>1. \A x \in D : x \in Nat /\ x < srv.next /\ x \notin srv.open
    BY <1>1, ServerParts DEF Kept, Open
  <2>2. \A x \in D : x # srv.next
    BY <1>2, <2>1
  <2> QED
    BY <1>6, <1>9, <2>1, <2>2
<1>12. \A x \in DOMAIN c : x \in D \/ (x \in op /\ c[x] = f[x] /\ c[x].items = <<>>)
  BY <1>7, <1>9
<1>13. Bodies(conn, srv')
  <2>1. \A j \in 1 .. Len(conn.requests) : conn.requests[j].rid \in Nat
    BY <1>1, ElementType
  <2>2. \A j \in 1 .. Len(conn.requests) :
           conn.requests[j].rid >= nx => conn.requests[j].rid >= srv.next
    BY <1>2, <2>1
  <2> HIDE DEF nx
  <2>3. ~off => ~srv.offered
    BY <1>5
  <2> QED
    BY <1>1, <1>10, <1>11, <1>12, <2>2, <2>3 DEF Kept, Bodies
<1>14. Online(conn, srv')
  BY <1>1, <1>3, <1>5, <1>10 DEF Kept, Online
<1>15. Open(conn, srv')
  <2>1. srv.next < conn.rid /\ conn.rid \in Nat
    BY <1>1, <1>2 DEF Kept, InOrder, ConnType
  <2>2. nx =< conn.rid
    BY <1>2, <2>1
  <2>3. \A a \in op : a < nx
    <3>1. \A a \in srv.open : a < srv.next /\ a \in Nat
      BY <1>1 DEF Kept, Open, SrvType
    <3> QED
      BY <1>2, <1>6, <3>1
  <2>4. \A a \in D : a < nx
    BY <1>2, <1>11
  <2> QED
    BY <1>10, <1>12, <2>2, <2>3, <2>4 DEF Open
<1> HIDE DEF nx
<1>16. LoginOnItsWay(conn, srv')
  <2>1. Len(srv'.out) = 0 /\ Len(<<>>) = 0
    BY <1>10
  <2>2. ASSUME NEW x \in DOMAIN c, NEW j \in 1 .. Len(c[x].items), c[x].items[j] \in LoginItems
        PROVE  LoggingIn(conn) /\ Len(c[x].items) = 1 /\ x \in Rids(conn)
    <3>1. x \in D
      BY <1>12, <2>1
    <3> QED
      BY <1>1, <1>11, <2>2, <3>1 DEF Kept, LoginOnItsWay
  <2> QED
    BY <1>10, <2>1, <2>2 DEF LoginOnItsWay
<1>17. OnePlace(conn, srv')
  <2>1. ToSet(<<>>) = {} /\ IsInjective(<<>>)
    BY DEF ToSet, IsInjective
  <2>2. \A x \in DOMAIN c : ToSet(c[x].items) \subseteq LoginItems \cup srv.sent
                            /\ IsInjective(c[x].items)
    BY <1>1, <1>11, <1>12, <2>1 DEF Kept, OnePlace
  <2>3. ASSUME NEW m \in srv.sent, NEW x \in DOMAIN c, m \in ToSet(c[x].items)
        PROVE  /\ m \notin ToSet(conn.received)
               /\ \A q \in DOMAIN c \ {x} : m \notin ToSet(c[q].items)
    BY <1>1, <1>11, <1>12, <2>1, <2>3 DEF Kept, OnePlace
  <2> QED
    BY <1>1, <1>10, <2>1, <2>2, <2>3 DEF Kept, OnePlace
<1>18. Terminated(conn, srv')
  <2>1. conn.fails = 0 /\ \A x \in D : c[x].kind = "data" /\ c[x].items = srv.cache[x].items
    BY <1>1, <1>2, <1>11 DEF Kept, Terminated
  <2>2. \A x \in DOMAIN c : /\ c[x].kind \in {"data", "terminate"}
                            /\ c[x].kind = "terminate" => x = srv.next
                            /\ c[x].kind # "data" => c[x].items = <<>>
    BY <1>7, <1>12, <2>1
  <2>3. \A x \in DOMAIN c : c[x].kind = "terminate" =>
           \A q \in DOMAIN c \ {x} : c[q].kind # "terminate"
    BY <2>2
  <2> QED
    BY <1>10, <2>1, <2>2, <2>3 DEF Terminated
<1>19. Awaited(conn, srv') /\ Arrives(conn, srv')
  BY <1>10 DEF Awaited, Arrives
<1> QED
  BY <1>2, <1>10, <1>13, <1>14, <1>15, <1>16, <1>17, <1>18, <1>19, ServerSteps

------------------------------------------------------------------------------
(* The invariant.                                                          *)
LEMMA NoAnswers ==
    /\ <<>> \in UNION {[D -> AnswerType] : D \in SUBSET Nat} /\ DOMAIN <<>> = {}
<1>1. DOMAIN <<>> = {}
  OBVIOUS
<1>2. <<>> \in [{} -> AnswerType]
  BY <1>1
<1> QED
  BY <1>1, <1>2

LEMMA InitInv ==
    ASSUME Init
    PROVE  Inv
<1>1. PICK p \in Profiles :
         srv = [alive |-> TRUE, next |-> 1, open |-> {}, cache |-> <<>>,
                out |-> <<>>, sent |-> {}, online |-> FALSE, offered |-> FALSE,
                again |-> FALSE, profile |-> p]
  BY DEF Init
<1>2. conn = [status |-> "none", fails |-> 0, connected |-> FALSE,
              authenticated |-> FALSE, disconnecting |-> FALSE, timer |-> FALSE,
              idle |-> TRUE, handlers |-> {}, adding |-> {}, removing |-> {},
              data |-> <<>>, requests |-> <<>>, rid |-> 1, sid |-> FALSE,
              errors |-> NaN, mech |-> "none", received |-> <<>>,
              gaveUp |-> FALSE]
  BY DEF Init
<1>3. conn \in ConnType
  <2>1. NaN \in NaN .. 5
    BY DEF NaN
  <2>2. <<>> \in Seq(Stanzas) /\ <<>> \in Seq(RequestType) /\ <<>> \in Seq(Items)
    BY EmptySeq
  <2>3. "none" \in Statuses
    BY DEF Statuses
  <2> QED
    BY <1>2, <2>1, <2>2, <2>3 DEF ConnType
<1>4. srv \in SrvType
  <2>1. <<>> \in Seq(Items)
    BY EmptySeq
  <2> QED
    BY <1>1, <2>1, NoAnswers DEF SrvType
<1>5. /\ conn.status = "none" /\ conn.fails = 0 /\ ~conn.authenticated /\ ~conn.disconnecting
      /\ ~conn.timer /\ conn.data = <<>> /\ conn.requests = <<>> /\ conn.rid = 1 /\ ~conn.sid
      /\ conn.received = <<>> /\ conn.removing = {}
  BY <1>2
<1>6. /\ srv.next = 1 /\ srv.open = {} /\ srv.cache = <<>> /\ srv.out = <<>>
      /\ srv.sent = {} /\ ~srv.online /\ srv.alive
  BY <1>1
<1>7. DOMAIN srv.cache = {} /\ Len(conn.requests) = 0 /\ Len(srv.out) = 0
      /\ ToSet(<<>>) = {} /\ IsInjective(<<>>)
  BY <1>5, <1>6, NoAnswers DEF ToSet, IsInjective
<1>8. ~LoggingIn(conn)
  BY <1>5 DEF LoggingIn
<1>9. InOrder(conn) /\ OneAtATime(conn) /\ Standing(conn)
  BY <1>5, <1>7, <1>8 DEF InOrder, OneAtATime, Standing
<1>10. Queued(conn) /\ Bodies(conn, srv)
  BY <1>5, <1>6, <1>7 DEF Queued, Bodies
<1>11. Online(conn, srv) /\ Open(conn, srv) /\ LoginOnItsWay(conn, srv)
  BY <1>5, <1>6, <1>7 DEF Online, Open, LoginOnItsWay
<1>12. OnePlace(conn, srv) /\ Terminated(conn, srv)
  BY <1>5, <1>6, <1>7, EmptySeq DEF OnePlace, Terminated
<1>13. Awaited(conn, srv) /\ Arrives(conn, srv)
  BY <1>5, <1>6 DEF Awaited, Arrives
<1> QED
  BY <1>3, <1>4, <1>9, <1>10, <1>11, <1>12, <1>13 DEF Inv, Holds, Kept

(* A step of the system is one of the client, of the network or of the     *)
(* server that says nothing new, or the server puts a confirmation on the  *)
(* session.                                                                *)
LEMMA NextSteps ==
    ASSUME Inv, Next
    PROVE  \/ Stepped
           \/ \E m \in Messages : Confirm(m)
<1>1. CASE Connect
  BY <1>1, ConnectSteps
<1>2. CASE Reply
  BY <1>2, ReplySteps
<1>3. CASE Expire
  BY <1>3, EndSteps DEF Expire
<1>4. CASE TimePasses
  BY <1>4, TimePassesSteps
<1>5. ASSUME NEW i \in 1 .. 2, Process(i) PROVE Stepped
  BY <1>5, ProcessSays, ProcessTerminates
<1>6. ASSUME NEW i \in 1 .. 2, Deliver(i) PROVE Stepped
  BY <1>6, DeliverSteps
<1>7. ASSUME NEW i \in 1 .. 2, Refuse(i) PROVE Stepped
  BY <1>7, RefuseSteps
<1>8. ASSUME NEW i \in 1 .. 2, BackoffEnds(i) PROVE Stepped
  BY <1>8, BackoffEndsSteps
<1>9. ASSUME NEW due \in BOOLEAN, Idle(due) PROVE Stepped
  BY <1>9, IdleSteps
<1>10. CASE Kick
  BY <1>10, EndSteps DEF Kick
<1>11. CASE NoAnswer
  BY <1>11, NoAnswerSteps
<1>12. ASSUME NEW i \in 1 .. 2, Garble(i) PROVE Stepped
  BY <1>12, GarbleSteps
<1>13. ASSUME NEW i \in 1 .. 2, Lose(i) PROVE Stepped
  BY <1>13, LoseSteps
<1> QED
  BY <1>1, <1>2, <1>3, <1>4, <1>5, <1>6, <1>7, <1>8, <1>9, <1>10, <1>11, <1>12, <1>13
     DEF Next, Work, Faults

LEMMA NextInv ==
    ASSUME Inv, [Next]_vars
    PROVE  Inv'
<1>1. CASE Next
  BY <1>1, NextSteps, ConfirmSteps DEF Stepped
<1>2. CASE UNCHANGED vars
  <2>1. conn' = conn /\ srv' = srv
    BY <1>2 DEF vars
  <2>2. Holds(conn', srv')
    BY <2>1 DEF Inv
  <2> QED
    BY <2>2 DEF Inv
<1> QED
  BY <1>1, <1>2

(* The inductive invariant holds in every reachable state: until the login *)
(* is decided there is one request or stanza at a time and the server's    *)
(* answer to it is the only one; a confirmation is in one place; and an    *)
(* answer the server owes belongs to a request that is still queued.       *)
THEOREM SpecInv == Spec => []Inv
  BY InitInv, NextInv, PTL DEF Spec

(* The connection's record keeps its shape: the queue stays in the order   *)
(* of the rids, below the rid that _buildBody gives away next, and never   *)
(* holds a third request, whatever is pushed past the limit that _onIdle   *)
(* tests.                                                                  *)
THEOREM TypeCorrect == Spec => []TypeOK
<1>1. ASSUME Inv PROVE TypeOK
  <2>1. conn \in ConnType /\ InOrder(conn)
    BY <1>1 DEF Inv, Holds, Kept
  <2>2. /\ conn.status \in Statuses /\ conn.errors \in NaN .. 5
        /\ conn.handlers \cup conn.adding \cup conn.removing \subseteq Handlers
    BY <2>1 DEF ConnType
  <2>3. DOMAIN conn.requests = 1 .. Len(conn.requests) /\ Len(conn.requests) =< 2
        /\ Len(conn.requests) \in Nat
    BY <2>1, QueueDomain, QueueLength DEF InOrder
  <2>4. ASSUME NEW i \in 1 .. Len(conn.requests)
        PROVE  /\ conn.requests[i].sends \in 0 .. MaxSends
               /\ conn.requests[i].xhr \in {"unsent", "sent", "backoff", "failed"}
    BY <2>1, ElementType DEF RequestType
  <2>5. ASSUME NEW i \in 1 .. Len(conn.requests)
        PROVE  /\ conn.requests[i].rid < conn.rid
               /\ \A j \in 1 .. (i - 1) : conn.requests[j].rid < conn.requests[i].rid
    <3>1. \A j \in 1 .. (i - 1) : j \in 1 .. Len(conn.requests) /\ j < i
      BY <2>3
    <3> QED
      BY <2>1, <3>1 DEF InOrder
  <2> QED
    BY <2>2, <2>3, <2>4, <2>5 DEF TypeOK
<1> QED
  BY <1>1, SpecInv, PTL

(* As long as the connection is open and no request or answer was thrown   *)
(* away, a confirmation the server put on the session has reached          *)
(* onConfirm or is in the server's hands or in an answer that a queued     *)
(* request will fetch.                                                     *)
THEOREM ConfirmationsKept == Spec => []NoConfirmationLost
<1>1. ASSUME Inv PROVE NoConfirmationLost
  BY <1>1 DEF Inv, Holds, Arrives, NoConfirmationLost, OnItsWay
<1> QED
  BY <1>1, SpecInv, PTL

------------------------------------------------------------------------------
(* What pos.js sees.                                                       *)
LEMMA OrderedOnce ==
    ASSUME NEW S, NEW q \in Seq(S), IsInjective(q), q # <<>>
    PROVE  q \in Abstract!Orders(S)
<1> DEFINE T == ToSet(q)
           n == Len(q)
<1>1. n \in Nat /\ q \in [1 .. n -> S] /\ DOMAIN q = 1 .. n
  BY LenProperties, SeqDef
<1>2. T \in SUBSET S /\ q \in [1 .. n -> T] /\ \A x \in T : \E i \in 1 .. n : q[i] = x
  BY <1>1 DEF ToSet
<1>3. \A i, j \in 1 .. n : q[i] = q[j] => i = j
  BY <1>1 DEF IsInjective
<1> HIDE DEF T, n
<1>4. q \in Bijection(1 .. n, T)
  BY <1>2, <1>3 DEF Bijection, Injection, Surjection, IsInjective
<1>5. IsFiniteSet(1 .. n) /\ Cardinality(1 .. n) = n
  BY <1>1, FS_Interval
<1>6. Cardinality(T) = n
  BY <1>4, <1>5, FS_Bijection DEF ExistsBijection
<1>7. T # {}
  <2>1. n # 0
    BY <1>1, EmptySeq DEF n
  <2>2. 1 \in DOMAIN q
    BY <1>1, <2>1
  <2>3. q[1] \in T
    BY <2>2 DEF T, ToSet
  <2> QED
    BY <2>3
<1>8. Abstract!Cardinality(T) = Cardinality(T)
  BY DEF Cardinality, Abstract!Cardinality
<1>9. q \in Abstract!SetToSeqs(T)
  BY <1>2, <1>3, <1>6, <1>8 DEF Abstract!SetToSeqs
<1> QED
  BY <1>2, <1>7, <1>9 DEF Abstract!Orders

LEMMA PhasesAre ==
    ASSUME NEW s \in Statuses \ {"CONNFAIL"}
    PROVE  PhaseOf(s) \in Abstract!Phases
  BY DEF Statuses, PhaseOf, Abstract!Phases

(* Becoming the next phase, with or without a CONNFAIL.                    *)
LEMMA ToldAsPromised ==
    ASSUME Inv, Inv', Moves(conn, conn'), srv'.sent = srv.sent
    PROVE  [Abstract!StreamNext]_(Abstract!svars)
<1> DEFINE C == {"c"}
           p == PhaseOf(conn'.status)
<1>1. conn.fails \in Nat /\ p \in Abstract!Phases
  <2>1. conn.fails \in Nat /\ conn'.status \in Statuses \ {"CONNFAIL"}
    BY DEF Inv, Holds, Kept, ConnType, Standing
  <2> QED
    BY <2>1, PhasesAre
<1>2. conn'.received = conn.received
  BY DEF Moves
<1>3. ASSUME NEW n \in 0 .. 1, conn'.fails = conn.fails + n,
             p \in Abstract!Follows(PhaseOf(conn.status)) \cup (IF n = 1 THEN {"closing"} ELSE {}),
             n = 1 => p \in {"closing", "closed"} /\ conn.fails = 0
      PROVE  Abstract!StreamNext
  <2>1. Abstract!Change("c", p, n)
    BY <1>2, <1>3 DEF Abstract!Change
  <2> QED
    BY <1>1, <2>1 DEF Abstract!StreamNext
<1>4. CASE p = PhaseOf(conn.status) /\ conn'.fails = conn.fails
  BY <1>2, <1>4 DEF Abstract!svars
<1>5. CASE p \in Abstract!Follows(PhaseOf(conn.status)) /\ conn'.fails = conn.fails
  BY <1>1, <1>3, <1>5
<1>6. CASE /\ conn.fails = 0 /\ conn'.fails = 1
           /\ \/ p = "closing"
              \/ p = "closed" /\ p \in Abstract!Follows(PhaseOf(conn.status))
  BY <1>3, <1>6
<1> QED
  BY <1>4, <1>5, <1>6 DEF Moves

(* The confirmations of an answer.                                         *)
LEMMA HandedAsPromised ==
    ASSUME Inv, Handed(conn, conn', srv), srv'.sent = srv.sent
    PROVE  [Abstract!StreamNext]_(Abstract!svars)
<1>1. PICK q \in Seq(srv.sent) :
         /\ IsInjective(q) /\ \A m \in ToSet(q) : m \notin ToSet(conn.received)
         /\ conn'.received = conn.received \o q
  BY DEF Handed
<1>2. conn'.status = conn.status /\ conn'.fails = conn.fails
      /\ PhaseOf(conn.status) \in {"open", "closing"}
  BY DEF Handed
<1>3. CASE q = <<>>
  <2>1. conn.received \in Seq(Items)
    BY DEF Inv, Holds, Kept, ConnType
  <2>2. conn'.received = conn.received
    BY <1>1, <1>3, <2>1, ConcatEmptySeq
  <2> QED
    BY <1>2, <2>2 DEF Abstract!svars
<1>4. CASE q # <<>>
  <2> DEFINE S == srv.sent \ ToSet(conn.received)
  <2>1. q \in Seq(S)
    <3>1. Len(q) \in Nat /\ DOMAIN q = 1 .. Len(q)
      BY <1>1, LenProperties
    <3>2. \A i \in 1 .. Len(q) : q[i] \in srv.sent /\ q[i] \in ToSet(q)
      BY <1>1, <3>1, ElementOfSeq DEF ToSet
    <3>3. \A i \in 1 .. Len(q) : q[i] \in S
      BY <1>1, <3>2
    <3>4. q \in [1 .. Len(q) -> S]
      BY <1>1, <3>1, <3>3, SeqDef
    <3> QED
      BY <3>1, <3>4, SeqDef
  <2>2. q \in Abstract!Orders(S)
    BY <1>1, <1>4, <2>1, OrderedOnce
  <2>3. Abstract!Unseen("c") = S
    BY DEF Abstract!Unseen, Abstract!ToSet, ToSet
  <2>4. Abstract!HandOver("c", q)
    BY <1>1, <1>2 DEF Abstract!HandOver
  <2> QED
    BY <2>2, <2>3, <2>4 DEF Abstract!StreamNext
<1> QED
  BY <1>3, <1>4

LEMMA StreamStep ==
    ASSUME Inv, Inv', [Next]_vars
    PROVE  [Abstract!StreamNext]_(Abstract!svars)
<1>1. CASE Stepped
  BY <1>1, ToldAsPromised, HandedAsPromised DEF Stepped, Tells
<1>2. ASSUME NEW m \in Messages, Confirm(m) PROVE Abstract!StreamNext
  <2>1. ~Before(conn) /\ m \notin srv.sent /\ srv'.sent = srv.sent \cup {m} /\ UNCHANGED conn
    BY <1>2, ConfirmSteps
  <2>2. conn.status \in Statuses \ {"CONNFAIL"}
    BY DEF Inv, Holds, Kept, ConnType, Standing
  <2>3. PhaseOf(conn.status) \notin {"new", "connecting"}
    BY <2>1, <2>2 DEF PhaseOf, Before, LoggingIn, Statuses
  <2>4. Abstract!Put("c", m)
    BY <2>1, <2>3 DEF Abstract!Put
  <2> QED
    BY <2>4 DEF Abstract!StreamNext
<1>3. CASE UNCHANGED vars
  BY <1>3 DEF vars, Abstract!svars
<1> QED
  BY <1>1, <1>2, <1>3, NextSteps

(* Strophe keeps what Stream promises pos.js: a connection goes through    *)
(* the phases in their order, CONNFAIL is told once, and the confirmations *)
(* of an answer are handed to onConfirm in an open or closing connection,  *)
(* each of them for the first time -- also when a request was sent again   *)
(* or an answer was late.                                                  *)
THEOREM StreamKept == Spec => KeepsStream
<1>1. Init => Abstract!StreamInit
  BY DEF Init, Abstract!StreamInit, PhaseOf
<1>2. Inv /\ Inv' /\ [Next]_vars => [Abstract!StreamNext]_(Abstract!svars)
  BY StreamStep
<1> QED
  BY <1>1, <1>2, SpecInv, PTL DEF Spec, KeepsStream, Abstract!StreamSpec

=============================================================================

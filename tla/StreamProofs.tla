---------------------------- MODULE StreamProofs ----------------------------
(* What the connections of Stream promise the screen, for every number of  *)
(* connections and confirmations.                                          *)
EXTENDS Stream, FiniteSetTheorems, SequenceTheorems, TLAPS

(* The confirmations of one answer are sent ones that were not handed over *)
(* before, each once.                                                      *)
LEMMA OrdersAreNew ==
    ASSUME NEW S, IsFiniteSet(S), NEW q \in Orders(S)
    PROVE  /\ q \in Seq(S) /\ Len(q) \in Nat
           /\ \A i, j \in 1 .. Len(q) : q[i] = q[j] => i = j
<1>1. PICK T \in SUBSET S : q \in SetToSeqs(T)
  BY DEF Orders
<1>2. Cardinality(T) \in Nat
  BY FS_Subset, FS_CardinalityType
<1>3. /\ q \in [1 .. Cardinality(T) -> T]
      /\ \A i, j \in 1 .. Cardinality(T) : i # j => q[i] # q[j]
  BY <1>1 DEF SetToSeqs
<1>4. q \in Seq(S) /\ Len(q) = Cardinality(T)
  BY <1>2, <1>3
<1> QED
  BY <1>2, <1>3, <1>4

LEMMA StreamInitInv == StreamInit => StreamInv
  BY FS_EmptySet DEF StreamInit, StreamInv, Phases, HandedOverOnce, ToSet, IsInjective

(* A phase follows another one.                                            *)
LEMMA ChangeKeeps ==
    ASSUME StreamInv, NEW c \in Conns, NEW p \in Phases, NEW n \in 0 .. 1, Change(c, p, n)
    PROVE  StreamInv'
<1>1. phase' \in [Conns -> Phases] /\ fails' \in [Conns -> 0 .. 1]
  BY DEF Change, StreamInv
<1> QED
  BY <1>1 DEF Change, StreamInv, HandedOverOnce

(* The server sends one confirmation more.                                 *)
LEMMA PutKeeps ==
    ASSUME StreamInv, NEW c \in Conns, NEW m \in Messages, Put(c, m)
    PROVE  StreamInv'
<1>1. /\ sent' \in [Conns -> SUBSET Messages] /\ \A d \in Conns : sent[d] \subseteq sent'[d]
      /\ UNCHANGED <<phase, fails, seen>>
  BY DEF Put, StreamInv
<1>2. ASSUME NEW d \in Conns PROVE IsFiniteSet(sent'[d])
  <2>1. IsFiniteSet(sent[c] \cup {m}) /\ IsFiniteSet(sent[d])
    BY FS_AddElement DEF StreamInv
  <2>2. sent'[d] = IF d = c THEN sent[c] \cup {m} ELSE sent[d]
    BY DEF Put, StreamInv
  <2> QED
    BY <2>1, <2>2
<1> QED
  BY <1>1, <1>2 DEF StreamInv, HandedOverOnce

(* An answer hands over what was not handed over before.                   *)
LEMMA HandOverKeeps ==
    ASSUME StreamInv, NEW c \in Conns, NEW q \in Orders(Unseen(c)), HandOver(c, q)
    PROVE  StreamInv'
<1> DEFINE s == seen[c]
           new == s \o q
<1>1. s \in Seq(Messages) /\ Len(s) \in Nat /\ DOMAIN s = 1 .. Len(s)
  BY LenProperties DEF StreamInv
<1>2. /\ IsFiniteSet(Unseen(c)) /\ Unseen(c) \subseteq Messages
      /\ Unseen(c) = sent[c] \ {s[i] : i \in 1 .. Len(s)}
  <2>1. IsFiniteSet(sent[c]) /\ sent[c] \subseteq Messages /\ Unseen(c) \subseteq sent[c]
    BY DEF StreamInv, Unseen
  <2>2. IsFiniteSet(Unseen(c))
    BY <2>1, FS_Subset
  <2> QED
    BY <1>1, <2>1, <2>2 DEF Unseen, ToSet
<1>3. /\ q \in Seq(Unseen(c)) /\ Len(q) \in Nat /\ DOMAIN q = 1 .. Len(q)
      /\ \A i \in 1 .. Len(q) : q[i] \in Unseen(c)
      /\ \A i, j \in 1 .. Len(q) : q[i] = q[j] => i = j
  BY <1>2, OrdersAreNew, LenProperties, ElementOfSeq
<1>4. q \in Seq(Messages)
  BY <1>2, <1>3, SeqMonotonic
<1>5. /\ new \in Seq(Messages) /\ Len(new) = Len(s) + Len(q) /\ DOMAIN new = 1 .. Len(s) + Len(q)
      /\ \A i \in 1 .. Len(s) + Len(q) : new[i] = IF i <= Len(s) THEN s[i] ELSE q[i - Len(s)]
  BY <1>1, <1>3, <1>4, ConcatProperties, LenProperties
<1>6. ToSet(new) \subseteq sent[c]
  <2>1. \A i \in 1 .. Len(s) : s[i] \in sent[c]
    BY <1>1 DEF StreamInv, HandedOverOnce, ToSet
  <2>2. \A i \in 1 .. Len(s) + Len(q) : i <= Len(s) => new[i] \in sent[c]
    BY <1>1, <1>3, <1>5, <2>1
  <2>3. \A i \in 1 .. Len(s) + Len(q) : ~(i <= Len(s)) => new[i] \in Unseen(c)
    BY <1>1, <1>3, <1>5
  <2> QED
    BY <1>2, <1>5, <2>2, <2>3 DEF ToSet
<1>7. ASSUME NEW i \in 1 .. Len(s) + Len(q), NEW j \in 1 .. Len(s) + Len(q), new[i] = new[j]
      PROVE  i = j
  <2>1. \A k, l \in 1 .. Len(s) : s[k] = s[l] => k = l
    BY <1>1 DEF StreamInv, HandedOverOnce, IsInjective
  <2>2. \A k \in 1 .. Len(s), l \in 1 .. Len(q) : s[k] # q[l]
    BY <1>2, <1>3
  <2>3. i \in Nat /\ j \in Nat /\ (~(i <= Len(s)) => i - Len(s) \in 1 .. Len(q))
        /\ (~(j <= Len(s)) => j - Len(s) \in 1 .. Len(q))
        /\ (i <= Len(s) => i \in 1 .. Len(s)) /\ (j <= Len(s) => j \in 1 .. Len(s))
    BY <1>1, <1>3
  <2>4. CASE i <= Len(s) /\ j <= Len(s)
    BY <1>5, <1>7, <2>1, <2>3, <2>4
  <2>5. CASE ~(i <= Len(s)) /\ ~(j <= Len(s))
    <3>1. q[i - Len(s)] = q[j - Len(s)]
      BY <1>5, <1>7, <2>5
    <3>2. i - Len(s) = j - Len(s)
      BY <1>3, <2>3, <2>5, <3>1
    <3> QED
      BY <1>1, <2>3, <3>2
  <2>6. CASE (i <= Len(s)) # (j <= Len(s))
    BY <1>5, <1>7, <2>2, <2>3, <2>6
  <2> QED
    BY <2>4, <2>5, <2>6
<1>8. IsInjective(new)
  BY <1>5, <1>7 DEF IsInjective
<1>9. /\ seen' = [seen EXCEPT ![c] = new] /\ UNCHANGED <<phase, fails, sent>>
  BY DEF HandOver
<1> HIDE DEF new
<1> QED
  BY <1>5, <1>6, <1>8, <1>9 DEF StreamInv, HandedOverOnce

LEMMA StreamStep == StreamInv /\ [StreamNext]_svars => StreamInv'
<1> SUFFICES ASSUME StreamInv, [StreamNext]_svars PROVE StreamInv'
  OBVIOUS
<1>1. CASE UNCHANGED svars
  BY <1>1 DEF svars, StreamInv, HandedOverOnce
<1> QED
  BY <1>1, ChangeKeeps, PutKeeps, HandOverKeeps DEF StreamNext

(* Who keeps to the steps of Stream hands a confirmation over once at most,*)
(* and only a sent one.  That Strophe and the screen keep to them is proved*)
(* in StropheProofs and ScreenProofs.                                      *)
LEMMA HandedOver == StreamSpec => []HandedOverOnce
<1>1. StreamInv => HandedOverOnce
  BY DEF StreamInv
<1> QED
  BY <1>1, StreamInitInv, StreamStep, PTL DEF StreamSpec

=============================================================================

--------------------------- MODULE SessionProofs ---------------------------
(***************************************************************************)
(* Proofs about module Session, for every set of peers, every length of the *)
(* range and every size of a request.                                       *)
(*                                                                          *)
(* A header that is asked for moves between six places.  Each lemma says    *)
(* how one kind of move changes the number of holders of a header; together *)
(* they show that a step never duplicates one, and loses one only once the  *)
(* session has ended.  The peers are counted in the same way.               *)
(***************************************************************************)
EXTENDS Session, TLAPS, FiniteSetTheorems, FunctionTheorems

One(b) == IF b THEN 1 ELSE 0

\* The indexes of the spans that hold h.
Places(h, ss) == {i \in DOMAIN ss : In(h, ss[i])}

\* A span is nothing or the two ends of a range of heights.
LEMMA SpanTypes ==
    /\ \A s \in Spans : s[1] \in Nat /\ s[2] \in Nat /\ s = <<s[1], s[2]>>
    /\ \A s \in Spans : s = Nothing \/ (s[1] \in Heights /\ s[2] \in Heights /\ s[1] <= s[2])
    /\ \A h \in Heights : ~In(h, Nothing)
    /\ Nothing \in Spans
    /\ \A a, b \in Heights : a <= b => <<a, b>> \in Spans
BY SessionAssumption DEF Spans, Nothing, Heights, In

\* A height is in finitely many entries of a sequence.
LEMMA PlacesFinite ==
    ASSUME NEW ss \in Seq(Spans), NEW h
    PROVE  IsFiniteSet(Places(h, ss)) /\ Holding(h, ss) = Cardinality(Places(h, ss)) /\ Holding(h, ss) \in Nat
<1>1. Len(ss) \in Nat /\ DOMAIN ss = 1..Len(ss)
  OBVIOUS
<1>2. IsFiniteSet(1..Len(ss))
  BY <1>1, FS_Interval
<1>3. Places(h, ss) \in SUBSET (1..Len(ss))
  BY <1>1 DEF Places
<1>4. IsFiniteSet(Places(h, ss))
  BY <1>2, <1>3, FS_Subset
<1> QED
  BY <1>4, FS_CardinalityType DEF Holding, Places

\* The empty sequence holds nothing.
LEMMA HoldingEmpty == \A h : Holding(h, <<>>) = 0
<1> TAKE h
<1>1. {i \in DOMAIN <<>> : In(h, <<>>[i])} = {}
  OBVIOUS
<1> QED
  BY <1>1, FS_EmptySet DEF Holding

\* A span is added to a channel or a list ...
LEMMA HoldingAppend ==
    ASSUME NEW ss \in Seq(Spans), NEW s \in Spans, NEW h
    PROVE  Holding(h, Append(ss, s)) = Holding(h, ss) + One(In(h, s))
<1> DEFINE t == Append(ss, s)
           n == Len(ss) + 1
<1>1. t \in Seq(Spans) /\ DOMAIN t = 1..n /\ DOMAIN ss = 1..n - 1 /\ t[n] = s /\ n \in Nat \ {0}
      /\ \A i \in 1..n - 1 : t[i] = ss[i]
  OBVIOUS
<1> HIDE DEF t, n
<1>2. Holding(h, t) = Cardinality(Places(h, t)) /\ Holding(h, ss) = Cardinality(Places(h, ss))
      /\ Holding(h, ss) \in Nat /\ IsFiniteSet(Places(h, ss))
  BY <1>1, PlacesFinite
<1>3. CASE In(h, s)
  <2>1. \A i : i \in Places(h, t) <=> i \in Places(h, ss) \/ i = n
    <3>1. n \in 1..n /\ \A i \in 1..n : i = n \/ i \in 1..n - 1
      BY <1>1
    <3>2. \A i \in 1..n - 1 : i \in 1..n /\ i # n
      BY <1>1
    <3>3. n \in Places(h, t)
      BY <1>1, <1>3, <3>1 DEF Places
    <3>4. \A i \in 1..n - 1 : i \in Places(h, t) <=> i \in Places(h, ss)
      BY <1>1, <3>2 DEF Places
    <3>5. Places(h, t) \subseteq 1..n /\ Places(h, ss) \subseteq 1..n - 1
      BY <1>1 DEF Places
    <3> QED  BY <3>1, <3>3, <3>4, <3>5
  <2>2. Places(h, t) = Places(h, ss) \cup {n}
    BY <2>1
  <2>3. n \notin Places(h, ss)
    BY <1>1 DEF Places
  <2>4. Cardinality(Places(h, t)) = Cardinality(Places(h, ss)) + 1
    BY <1>2, <2>2, <2>3, FS_AddElement
  <2> QED  BY <2>4, <1>2, <1>3 DEF t, One
<1>4. CASE ~In(h, s)
  <2>1. \A i : i \in Places(h, t) <=> i \in Places(h, ss)
    BY <1>1, <1>4 DEF Places
  <2>2. Places(h, t) = Places(h, ss)
    BY <2>1
  <2> QED  BY <2>2, <1>2, <1>4 DEF t, One
<1> QED
  BY <1>3, <1>4

\* ... or taken from its front.
LEMMA HoldingTail ==
    ASSUME NEW ss \in Seq(Spans), ss # <<>>, NEW h
    PROVE  /\ Tail(ss) \in Seq(Spans) /\ Head(ss) \in Spans
           /\ Holding(h, ss) = Holding(h, Tail(ss)) + One(In(h, Head(ss)))
<1> DEFINE t == Tail(ss)
           P == Places(h, ss)
           T == Places(h, t)
           f == [i \in T |-> i + 1]
<1>1. /\ t \in Seq(Spans) /\ Head(ss) \in Spans /\ Head(ss) = ss[1] /\ Len(ss) \in Nat /\ Len(ss) >= 1
      /\ DOMAIN ss = 1..Len(ss) /\ DOMAIN t = 1..Len(ss) - 1
      /\ \A i \in 1..Len(ss) - 1 : t[i] = ss[i + 1]
  OBVIOUS
<1> HIDE DEF t
<1>2. \A i \in T : i \in Nat /\ i + 1 \in P \ {1}
  BY <1>1 DEF Places
<1>3. \A j \in P \ {1} : j - 1 \in T /\ (j - 1) + 1 = j
  BY <1>1 DEF Places
<1>4. f \in Bijection(T, P \ {1})
  <2>1. f \in [T -> P \ {1}]
    BY <1>2
  <2>2. \A a, b \in T : f[a] = f[b] => a = b
    BY <1>2
  <2>3. \A y \in P \ {1} : \E x \in T : f[x] = y
    BY <1>3
  <2> HIDE DEF f, P, T
  <2> QED  BY <2>1, <2>2, <2>3, Fun_IsBij
<1>5. IsFiniteSet(T) /\ IsFiniteSet(P) /\ Cardinality(P) \in Nat /\ Cardinality(T) \in Nat
  BY <1>1, PlacesFinite, FS_CardinalityType
<1>6. Cardinality(P \ {1}) = Cardinality(T)
  <2>1. ExistsBijection(T, P \ {1})
    BY <1>4 DEF ExistsBijection
  <2> HIDE DEF P, T
  <2> QED  BY <2>1, <1>5, FS_Bijection
<1>7. 1 \in P <=> In(h, Head(ss))
  BY <1>1 DEF Places
<1>8. Cardinality(P) = Cardinality(T) + One(In(h, Head(ss)))
  <2>1. Cardinality(P \ {1}) = IF 1 \in P THEN Cardinality(P) - 1 ELSE Cardinality(P)
    BY <1>5, FS_RemoveElement
  <2> QED  BY <2>1, <1>5, <1>6, <1>7 DEF One
<1> QED
  BY <1>1, <1>8, PlacesFinite DEF t

\* The handler's hand.
LEMMA HoldingOne ==
    ASSUME NEW s \in Spans, NEW h
    PROVE  Holding(h, <<s>>) = One(In(h, s))
<1>1. <<>> \in Seq(Spans) /\ Append(<<>>, s) = <<s>>
  OBVIOUS
<1> QED
  <2>1. Holding(h, <<s>>) = Holding(h, <<>>) + One(In(h, s))
    BY <1>1, HoldingAppend
  <2>2. One(In(h, s)) \in Nat
    BY DEF One
  <2> QED  BY <2>1, <2>2, HoldingEmpty

-----------------------------------------------------------------------------
\* The goroutines.

\* What a goroutine carries, by where it is.
LEMMA WorkIs ==
    ASSUME NEW w
    PROVE  /\ w.pc \in {"sent", "back", "rest"} => Work(w) = w.req
           /\ w.pc = "deliver" => Work(w) = w.got
           /\ w.pc \in {"give", "release", "forget"} => Work(w) = Nothing
BY Zenon DEF Work

\* The goroutines among W that have h still to bring home.
Carriers(W, h) == {w \in W : In(h, Work(w))}

\* Finitely many goroutines carry a height.
LEMMA CarriersFinite ==
    ASSUME NEW W, IsFiniteSet(W), NEW h
    PROVE  IsFiniteSet(Carriers(W, h)) /\ Cardinality(Carriers(W, h)) \in Nat
<1>1. Carriers(W, h) \in SUBSET W
  BY DEF Carriers
<1>2. IsFiniteSet(Carriers(W, h))
  BY <1>1, FS_Subset
<1> QED
  BY <1>2, FS_CardinalityType

\* One more goroutine, one less, and one that goes on.
LEMMA CarriersAdd ==
    ASSUME NEW W, IsFiniteSet(W), NEW v, v \notin W, NEW h
    PROVE  /\ IsFiniteSet(W \cup {v})
           /\ Cardinality(Carriers(W \cup {v}, h)) = Cardinality(Carriers(W, h)) + One(In(h, Work(v)))
<1>1. IsFiniteSet(W \cup {v}) /\ IsFiniteSet(Carriers(W, h)) /\ Cardinality(Carriers(W, h)) \in Nat
  BY FS_AddElement, CarriersFinite
<1>2. CASE In(h, Work(v))
  <2>1. Carriers(W \cup {v}, h) = Carriers(W, h) \cup {v} /\ v \notin Carriers(W, h)
    BY <1>2 DEF Carriers
  <2>2. Cardinality(Carriers(W \cup {v}, h)) = Cardinality(Carriers(W, h)) + 1
    BY <1>1, <2>1, FS_AddElement
  <2> QED  BY <1>1, <1>2, <2>2 DEF One
<1>3. CASE ~In(h, Work(v))
  <2>1. Carriers(W \cup {v}, h) = Carriers(W, h)
    BY <1>3 DEF Carriers
  <2> QED  BY <1>1, <1>3, <2>1 DEF One
<1> QED
  BY <1>2, <1>3

\* A goroutine ends.
LEMMA CarriersRemove ==
    ASSUME NEW W, IsFiniteSet(W), NEW w \in W, NEW h
    PROVE  /\ IsFiniteSet(W \ {w})
           /\ Cardinality(Carriers(W, h)) = Cardinality(Carriers(W \ {w}, h)) + One(In(h, Work(w)))
<1>1. IsFiniteSet(W \ {w}) /\ w \notin W \ {w}
  BY FS_RemoveElement
<1>2. (W \ {w}) \cup {w} = W
  OBVIOUS
<1> QED
  BY <1>1, <1>2, CarriersAdd

\* A goroutine changes.
LEMMA CarriersBecome ==
    ASSUME NEW W, IsFiniteSet(W), NEW w \in W, NEW v, v \notin W \ {w}, NEW h,
           NEW V, V = (W \ {w}) \cup {v}
    PROVE  Cardinality(Carriers(V, h)) + One(In(h, Work(w)))
               = Cardinality(Carriers(W, h)) + One(In(h, Work(v)))
<1> DEFINE U == W \ {w}
<1>1. IsFiniteSet(U) /\ Cardinality(Carriers(W, h)) = Cardinality(Carriers(U, h)) + One(In(h, Work(w)))
  BY CarriersRemove
<1>2. Cardinality(Carriers(U \cup {v}, h)) = Cardinality(Carriers(U, h)) + One(In(h, Work(v)))
  BY <1>1, CarriersAdd
<1>3. Cardinality(Carriers(U, h)) \in Nat /\ One(In(h, Work(w))) \in Nat /\ One(In(h, Work(v))) \in Nat
  BY <1>1, CarriersFinite DEF One
<1> QED
  BY <1>1, <1>2, <1>3

\* What a goroutine has received of its request.
WorkerOK(w) ==
    /\ w.pc \in {"rest", "deliver"} => w.got[1] = w.req[1] /\ w.got[2] \in w.req[1]..w.req[2]
    /\ w.pc = "rest" => w.got[2] < w.req[2]

TypeInv ==
    /\ SessionTypeOK
    /\ IsFiniteSet(workers)
    /\ \A w \in workers : WorkerOK(w)

\* PeerOnce without counting, and that the session knows the peers it uses.
PeerInv ==
    \A p \in Peers :
        /\ queue[p] \in {0, 1}
        /\ \A v, w \in workers : (v.peer = p /\ w.peer = p) => v = w
        /\ queue[p] = 1 => p \notin delayed /\ \A w \in workers : w.peer # p
        /\ p \in delayed => \A w \in workers : w.peer # p
        /\ (queue[p] = 1 \/ p \in delayed \/ \E w \in workers : w.peer = p) => p \in known

\* Nothing has begun before there are peers.
EarlyInv ==
    mpc \in {"take", "read", "wait"} =>
        /\ hpc = "off" /\ workers = {} /\ hreq = Nothing
        /\ todo = <<>> /\ reqCh = <<>> /\ result = <<>> /\ headers = <<>>

\* The handler has no request in its hand when it takes the next one.
HandInv == hpc \in {"off", "select", "done"} => hreq = Nothing

\* A header is never in two places, and in one as long as the session goes on.
CountInv ==
    /\ \A h \in Heights : Holders(h) <= 1
    /\ mpc \in {"push", "collect"} /\ ~Ended => \A h \in Heights : Holders(h) = 1
    /\ mpc = "returned" => \A h \in Heights : Holding(h, headers) = 1

Inv == TypeInv /\ PeerInv /\ EarlyInv /\ HandInv /\ CountInv

-----------------------------------------------------------------------------
\* prepareRequests.

\* Division.
LEMMA DivBounds ==
    ASSUME NEW d \in Nat, NEW s \in Nat \ {0}
    PROVE  d \div s \in Nat /\ (d \div s) * s <= d /\ d < (d \div s) * s + s
OBVIOUS

\* Multiples.
LEMMA MulLess ==
    ASSUME NEW a \in Nat, NEW b \in Nat, NEW s \in Nat, a < b
    PROVE  a * s + s <= b * s
<1>1. a + 1 <= b
  OBVIOUS
<1>2. (a + 1) * s = a * s + s
  OBVIOUS
<1>3. (a + 1) * s <= b * s
  BY <1>1
<1> QED
  BY <1>2, <1>3

\* The pieces are spans of the range, and every header is in exactly one of them.
LEMMA Pieces ==
    /\ prepareRequests(1, Amount, PerPeer) \in Seq(Spans)
    /\ Cap \in Nat \ {0}
    /\ \A h \in Heights : Holding(h, prepareRequests(1, Amount, PerPeer)) = 1
<1> DEFINE s == PerPeer
           P == prepareRequests(1, Amount, s)
           n == ((Amount - 1) \div s) + 1
<1>1. Amount \in Nat \ {0} /\ s \in Nat \ {0} /\ Amount - 1 \in Nat
  BY SessionAssumption
<1>2. n \in Nat \ {0} /\ (n - 1) * s <= Amount - 1 /\ Amount - 1 < (n - 1) * s + s
  <2>1. (Amount - 1) \div s \in Nat /\ n - 1 = (Amount - 1) \div s
    BY <1>1, DivBounds
  <2> QED  BY <2>1, <1>1, DivBounds
<1> HIDE DEF n, s
<1>3. \A i \in 1..n : /\ i - 1 \in Nat /\ (i - 1) * s \in Nat /\ i * s \in Nat
                      /\ i * s = (i - 1) * s + s
                      /\ (i - 1) * s <= Amount - 1
  <2> TAKE i \in 1..n
  <2>1. i - 1 \in Nat /\ (i - 1) * s \in Nat /\ i * s \in Nat /\ i * s = (i - 1) * s + s
    BY <1>1, <1>2
  <2>2. (i - 1) * s <= (n - 1) * s
    <3>1. CASE i = n
      BY <3>1, <1>1, <1>2
    <3>2. CASE i # n
      <4>1. i - 1 < n - 1 /\ n - 1 \in Nat
        BY <3>2, <1>2
      <4>2. (i - 1) * s + s <= (n - 1) * s
        BY <4>1, <2>1, <1>1, MulLess
      <4>3. (n - 1) * s \in Nat
        BY <4>1, <1>1
      <4> QED  BY <4>2, <4>3, <2>1, <1>1
    <3> QED  BY <3>1, <3>2
  <2>3. (n - 1) * s \in Int
    BY <1>1, <1>2
  <2> QED  BY <2>1, <2>2, <2>3, <1>1, <1>2
<1>4. /\ P = [i \in 1..n |-> <<1 + (i - 1) * s, IF 1 + i * s - 1 <= Amount THEN 1 + i * s - 1 ELSE Amount>>]
  BY DEF prepareRequests, n, s
<1>5. ASSUME NEW i \in 1..n
      PROVE  /\ P[i] \in Spans
             /\ \A h \in Heights : In(h, P[i]) <=> (i - 1) * s <= h - 1 /\ h - 1 < (i - 1) * s + s
  <2> DEFINE a == 1 + (i - 1) * s
             b == IF 1 + i * s - 1 <= Amount THEN 1 + i * s - 1 ELSE Amount
  <2>1. P[i] = <<a, b>>
    BY <1>4
  <2>2. a \in Heights /\ b \in Heights /\ a <= b
    BY <1>1, <1>3 DEF Heights
  <2>3. \A h \in Heights : (a <= h /\ h <= b) <=> (i - 1) * s <= h - 1 /\ h - 1 < (i - 1) * s + s
    BY <1>1, <1>3 DEF Heights
  <2> HIDE DEF a, b
  <2>4. P[i] \in Spans
    BY <2>1, <2>2, SpanTypes
  <2>5. P[i][1] = a /\ P[i][2] = b
    BY <2>1
  <2> QED  BY <2>3, <2>4, <2>5 DEF In
<1>6. P \in Seq(Spans) /\ Len(P) = n /\ DOMAIN P = 1..n
  <2>1. P \in [1..n -> Spans]
    BY <1>4, <1>5
  <2> HIDE DEF P
  <2> QED  BY <2>1, <1>2
<1>7. Cap \in Nat \ {0}
  BY <1>2, <1>6 DEF Cap, s
<1>8. ASSUME NEW h \in Heights PROVE Holding(h, P) = 1
  <2> DEFINE q == (h - 1) \div s
  <2>1. h - 1 \in Nat /\ h <= Amount
    BY <1>1 DEF Heights
  <2>2. q \in Nat /\ q * s <= h - 1 /\ h - 1 < q * s + s
    BY <2>1, <1>1, DivBounds
  <2> HIDE DEF q
  <2>3. q + 1 \in 1..n
    <3>1. CASE n - 1 < q
      <4>1. (n - 1) * s + s <= q * s
        BY <3>1, <2>2, <1>1, <1>2, MulLess
      <4>2. (n - 1) * s \in Int /\ q * s \in Int
        BY <2>2, <1>1, <1>2
      <4>3. \A x, y, t, k, m \in Int : ~(x + t <= y /\ y <= k - 1 /\ k <= m /\ m - 1 < x + t)
        OBVIOUS
      <4>4. s \in Int /\ h \in Int /\ Amount \in Int
        BY <1>1, <2>1 DEF Heights
      <4>5. FALSE
        BY <4>1, <4>2, <4>3, <4>4, <2>1, <2>2, <1>2
      <4> QED  BY <4>5
    <3> QED  BY <3>1, <2>2, <1>2
  <2>4. \A i \in 1..n : In(h, P[i]) <=> i = q + 1
    <3> TAKE i \in 1..n
    <3>1. In(h, P[i]) <=> (i - 1) * s <= h - 1 /\ h - 1 < (i - 1) * s + s
      BY <1>5
    <3>2. i - 1 \in Nat /\ (i - 1) * s \in Nat /\ q * s \in Nat
      BY <1>3, <2>2, <1>1
    <3>3. CASE i - 1 < q
      <4>1. (i - 1) * s + s <= q * s
        BY <3>2, <3>3, <2>2, <1>1, MulLess
      <4> QED  BY <4>1, <3>1, <3>2, <3>3, <2>1, <2>2, <1>1
    <3>4. CASE q < i - 1
      <4>1. q * s + s <= (i - 1) * s
        BY <3>2, <3>4, <2>2, <1>1, MulLess
      <4> QED  BY <4>1, <3>1, <3>2, <3>4, <2>1, <2>2, <1>1
    <3>5. CASE i - 1 = q
      BY <3>1, <3>5, <2>2
    <3> QED  BY <3>2, <3>3, <3>4, <3>5, <2>2
  <2>5. Places(h, P) = {q + 1}
    BY <2>3, <2>4, <1>6 DEF Places
  <2> HIDE DEF P
  <2>6. Cardinality(Places(h, P)) = 1
    BY <2>5, FS_Singleton
  <2> QED  BY <2>6, <1>6, PlacesFinite
<1> QED
  BY <1>6, <1>7, <1>8 DEF s

-----------------------------------------------------------------------------
\* Types, by groups of variables.

SetsOK ==
    /\ connected \subseteq Peers /\ blocked \subseteq Peers /\ tracked \subseteq Peers
    /\ known \subseteq Peers /\ delayed \subseteq Peers /\ hpeers \subseteq Peers
FlagsOK == newPeer \in BOOLEAN /\ havePeer \in BOOLEAN /\ ctxDone \in BOOLEAN /\ closed \in BOOLEAN
EventsOK == events \in [Peers -> Seq({"up", "down"})]
QueueOK == queue \in [Peers -> Nat]
ChanOK ==
    /\ reqCh \in Seq(Spans) /\ Len(reqCh) <= Cap
    /\ result \in Seq(Spans) /\ Len(result) <= Cap
    /\ todo \in Seq(Spans) /\ headers \in Seq(Spans) /\ hreq \in Spans
PlaceOK ==
    /\ mpc \in {"take", "read", "wait", "push", "collect", "returned", "failed"}
    /\ hpc \in {"off", "select", "take", "pop", "read", "add", "popAgain", "wait", "done"}
    /\ trouble \in 0..MaxTrouble
WorkersOK == workers \subseteq Worker /\ IsFiniteSet(workers) /\ \A w \in workers : WorkerOK(w)

\* The type invariant in its parts.
LEMMA TypeParts ==
    /\ TypeInv <=> /\ SetsOK /\ FlagsOK /\ EventsOK /\ QueueOK /\ ChanOK /\ PlaceOK /\ WorkersOK
    /\ TypeInv' <=> /\ SetsOK' /\ FlagsOK' /\ EventsOK' /\ QueueOK' /\ ChanOK' /\ PlaceOK' /\ WorkersOK'
<1>1. /\ {connected, blocked, tracked, known, delayed, hpeers} \subseteq SUBSET Peers <=> SetsOK
      /\ {newPeer, havePeer, ctxDone, closed} \subseteq BOOLEAN <=> FlagsOK
  BY Zenon DEF SetsOK, FlagsOK
<1>2. /\ {connected', blocked', tracked', known', delayed', hpeers'} \subseteq SUBSET Peers <=> SetsOK'
      /\ {newPeer', havePeer', ctxDone', closed'} \subseteq BOOLEAN <=> FlagsOK'
  BY Zenon DEF SetsOK, FlagsOK
<1>3. TypeInv <=> /\ SetsOK /\ FlagsOK /\ EventsOK /\ QueueOK /\ ChanOK /\ PlaceOK /\ WorkersOK
  BY <1>1, Zenon DEF TypeInv, SessionTypeOK, EventsOK, QueueOK, ChanOK, PlaceOK, WorkersOK
<1>4. TypeInv' <=> /\ SetsOK' /\ FlagsOK' /\ EventsOK' /\ QueueOK' /\ ChanOK' /\ PlaceOK' /\ WorkersOK'
  BY <1>2, Zenon DEF TypeInv, SessionTypeOK, EventsOK, QueueOK, ChanOK, PlaceOK, WorkersOK
<1> QED
  BY <1>3, <1>4

\* The step of a goroutine, without the peer that names it.
DoStep(w) ==
    \/ Answered(w) \/ NoAnswer(w) \/ NotFound(w) \/ Invalid(w) \/ HandBack(w) \/ Release(w)
    \/ forgetPeer(w) \/ AskRest(w) \/ Deliver(w) \/ GiveBack(w)

\* The steps by who takes them.
LEMMA NextCases ==
    ASSUME [Next]_vars
    PROVE  \/ MainStep \/ HandlerStep \/ \E w \in workers : w.peer \in Peers /\ DoStep(w)
           \/ \E p \in Peers : Requeue(p) \/ Track(p) \/ Connect(p) \/ Disconnect(p)
           \/ Cancel \/ Stop \/ UNCHANGED vars
BY Zenon DEF Next, WorkerStep, DoStep

\* Types, part by part: the flags,
LEMMA FlagTypes ==
    ASSUME FlagsOK, [Next]_vars
    PROVE  FlagsOK'
<1>1. CASE MainStep
  BY <1>1, Zenon DEF MainStep, FlagsOK, TakeNewPeer, ReadPeers, WaitPeers, PushRequest, Collect, GiveUp,
     addPeers, Push, queueVars, ctxVars
<1>2. CASE HandlerStep
  BY <1>2, Zenon DEF HandlerStep, FlagsOK, SelectRequest, TakePeerCh, DoRequest, NoQueuedPeer,
     ReadConnected, AddConnected, Awake, HandlerEnds, addPeers, Push, queueVars, ctxVars
<1>3. ASSUME NEW w, DoStep(w) PROVE FlagsOK'
  BY <1>3, Zenon DEF DoStep, FlagsOK, Answered, NoAnswer, NotFound, Invalid, HandBack, Release,
     forgetPeer, AskRest, Deliver, GiveBack, Push, queueVars, ctxVars
<1>4. ASSUME NEW p, Requeue(p) \/ Track(p) \/ Connect(p) \/ Disconnect(p) PROVE FlagsOK'
  BY <1>4, Zenon DEF FlagsOK, Requeue, Track, Connect, Disconnect, Push, queueVars, ctxVars
<1>5. CASE Cancel \/ Stop \/ UNCHANGED vars
  BY <1>5, Zenon DEF FlagsOK, Cancel, Stop, vars, queueVars, ctxVars
<1> QED
  BY <1>1, <1>2, <1>3, <1>4, <1>5, NextCases

\* the sets of peers,
LEMMA SetTypes ==
    ASSUME SetsOK, [Next]_vars
    PROVE  SetsOK'
<1>1. CASE MainStep
  BY <1>1 DEF MainStep, SetsOK, TakeNewPeer, ReadPeers, WaitPeers, PushRequest, Collect, GiveUp,
     addPeers, queueVars, netVars, handVars
<1>2. CASE HandlerStep
  BY <1>2 DEF HandlerStep, SetsOK, SelectRequest, TakePeerCh, DoRequest, NoQueuedPeer,
     ReadConnected, AddConnected, Awake, HandlerEnds, addPeers, queueVars, netVars, handVars
<1>3. ASSUME NEW w, w.peer \in Peers, DoStep(w) PROVE SetsOK'
  BY <1>3 DEF DoStep, SetsOK, Answered, NoAnswer, NotFound, Invalid, blockPeer, HandBack, Release,
     forgetPeer, AskRest, Deliver, GiveBack, queueVars, netVars, handVars
<1>4. ASSUME NEW p \in Peers, Requeue(p) \/ Track(p) \/ Connect(p) \/ Disconnect(p) PROVE SetsOK'
  BY <1>4 DEF SetsOK, Requeue, Track, Connect, Disconnect, queueVars, netVars, handVars
<1>5. CASE Cancel \/ Stop \/ UNCHANGED vars
  BY <1>5 DEF SetsOK, Cancel, Stop, vars, queueVars, netVars, handVars
<1> QED
  BY <1>1, <1>2, <1>3, <1>4, <1>5, NextCases

\* the places of main and handler,
LEMMA PlaceTypes ==
    ASSUME PlaceOK, [Next]_vars
    PROVE  PlaceOK'
<1> USE SessionAssumption
<1>1. CASE MainStep
  BY <1>1 DEF MainStep, PlaceOK, TakeNewPeer, ReadPeers, WaitPeers, PushRequest, Collect, GiveUp,
     handVars
<1>2. CASE HandlerStep
  BY <1>2 DEF HandlerStep, PlaceOK, SelectRequest, TakePeerCh, DoRequest, NoQueuedPeer,
     ReadConnected, AddConnected, Awake, HandlerEnds, mainVars
<1>3. ASSUME NEW w, w.peer \in Peers, DoStep(w) PROVE PlaceOK'
  <2>1. UNCHANGED <<mpc, hpc>> /\ (UNCHANGED trouble \/ Trouble)
    BY <1>3, Zenon DEF DoStep, Answered, NoAnswer, NotFound, Invalid, HandBack, Release,
       forgetPeer, AskRest, Deliver, GiveBack, mainVars, handVars
  <2> QED  BY <2>1 DEF PlaceOK, Trouble
<1>4. ASSUME NEW p \in Peers, Requeue(p) \/ Track(p) \/ Connect(p) \/ Disconnect(p) PROVE PlaceOK'
  BY <1>4 DEF PlaceOK, Requeue, Track, Connect, Disconnect, mainVars, handVars, Trouble
<1>5. CASE Cancel \/ Stop \/ UNCHANGED vars
  BY <1>5 DEF PlaceOK, Cancel, Stop, vars, mainVars, handVars, Trouble
<1> QED
  BY <1>1, <1>2, <1>3, <1>4, <1>5, NextCases

\* the events of the tracker,
LEMMA EventTypes ==
    ASSUME EventsOK, [Next]_vars
    PROVE  EventsOK'
<1> DEFINE E == {"up", "down"}
<1>0. ASSUME NEW p \in Peers,
             \/ events[p] # <<>> /\ events' = [events EXCEPT ![p] = Tail(@)]
             \/ \E e \in E : events' = [events EXCEPT ![p] = Append(@, e)]
      PROVE  EventsOK'
  <2>1. events \in [Peers -> Seq(E)] /\ events[p] \in Seq(E)
    BY DEF EventsOK
  <2> HIDE DEF E
  <2>2. events[p] # <<>> => Tail(events[p]) \in Seq(E)
    BY <2>1
  <2>3. \A e \in E : Append(events[p], e) \in Seq(E)
    BY <2>1
  <2>4. \E s \in Seq(E) : events' = [events EXCEPT ![p] = s]
    BY <1>0, <2>2, <2>3
  <2>5. events' \in [Peers -> Seq(E)]
    BY <2>1, <2>4
  <2> QED  BY <2>5 DEF EventsOK, E
<1>1. CASE MainStep
  BY <1>1 DEF MainStep, EventsOK, TakeNewPeer, ReadPeers, WaitPeers, PushRequest, Collect, GiveUp, netVars
<1>2. CASE HandlerStep
  BY <1>2 DEF HandlerStep, EventsOK, SelectRequest, TakePeerCh, DoRequest, NoQueuedPeer,
     ReadConnected, AddConnected, Awake, HandlerEnds, netVars
<1>3. ASSUME NEW w, w.peer \in Peers, DoStep(w) PROVE EventsOK'
  <2>1. UNCHANGED events \/ events' = [events EXCEPT ![w.peer] = Append(@, "down")]
    BY <1>3 DEF DoStep, Answered, NoAnswer, NotFound, Invalid, blockPeer, HandBack, Release,
       forgetPeer, AskRest, Deliver, GiveBack, netVars
  <2> QED  BY <1>0, <1>3, <2>1 DEF EventsOK
<1>4. ASSUME NEW p \in Peers, Requeue(p) \/ Track(p) \/ Connect(p) \/ Disconnect(p) PROVE EventsOK'
  <2>1. \/ UNCHANGED events
        \/ events[p] # <<>> /\ events' = [events EXCEPT ![p] = Tail(@)]
        \/ events' = [events EXCEPT ![p] = Append(@, "up")]
        \/ events' = [events EXCEPT ![p] = Append(@, "down")]
    BY <1>4 DEF Requeue, Track, Connect, Disconnect, netVars
  <2> QED  BY <1>0, <2>1 DEF EventsOK
<1>5. CASE Cancel \/ Stop \/ UNCHANGED vars
  BY <1>5 DEF EventsOK, Cancel, Stop, vars, netVars
<1> QED
  BY <1>1, <1>2, <1>3, <1>4, <1>5, NextCases

\* the peer queue,
LEMMA QueueTypes ==
    ASSUME QueueOK, [Next]_vars
    PROVE  QueueOK'
<1>0. \A ps : Push(ps) => QueueOK'
  BY DEF Push, QueueOK
<1>1. CASE MainStep
  BY <1>0, <1>1 DEF MainStep, QueueOK, TakeNewPeer, ReadPeers, WaitPeers, PushRequest, Collect, GiveUp,
     addPeers, queueVars
<1>2. CASE HandlerStep
  <2>1. ASSUME NEW p \in Peers, queue[p] > 0, queue' = [queue EXCEPT ![p] = @ - 1] PROVE QueueOK'
    BY <2>1 DEF QueueOK
  <2>2. CASE DoRequest
    BY <2>1, <2>2, Zenon DEF DoRequest
  <2> QED
    BY <1>0, <1>2, <2>2 DEF HandlerStep, QueueOK, SelectRequest, TakePeerCh, NoQueuedPeer,
     ReadConnected, AddConnected, Awake, HandlerEnds, addPeers, queueVars
<1>3. ASSUME NEW w, w.peer \in Peers, DoStep(w) PROVE QueueOK'
  BY <1>0, <1>3 DEF DoStep, QueueOK, Answered, NoAnswer, NotFound, Invalid, HandBack, Release,
     forgetPeer, AskRest, Deliver, GiveBack, queueVars
<1>4. ASSUME NEW p \in Peers, Requeue(p) \/ Track(p) \/ Connect(p) \/ Disconnect(p) PROVE QueueOK'
  BY <1>0, <1>4 DEF QueueOK, Requeue, Track, Connect, Disconnect, queueVars
<1>5. CASE Cancel \/ Stop \/ UNCHANGED vars
  BY <1>5 DEF QueueOK, Cancel, Stop, vars, queueVars
<1> QED
  BY <1>1, <1>2, <1>3, <1>4, <1>5, NextCases

-----------------------------------------------------------------------------
\* What a goroutine's step does to the request it carries: it keeps it, passes it on (in two
\* parts after a partial answer), delivers it, or, once the session is closed, drops it.
Keeps(w, v) == Become(w, v) /\ UNCHANGED chanVars /\ Work(v) = Work(w)

PassesOn(w, v) ==
    \E s \in Spans :
        /\ Become(w, v) /\ Len(reqCh) < Cap /\ reqCh' = Append(reqCh, s) /\ UNCHANGED result
        /\ \A h \in Heights : One(In(h, Work(w))) = One(In(h, s)) + One(In(h, Work(v)))

Delivers(w, v) ==
    /\ Become(w, v) /\ Len(result) < Cap /\ result' = Append(result, Work(w)) /\ UNCHANGED reqCh
    /\ Work(w) \in Spans /\ Work(v) = Nothing

Leaves(w) == Exit(w) /\ UNCHANGED chanVars /\ (closed \/ Work(w) = Nothing)

\* A step of doRequest keeps its work, passes it on, delivers it, or ends with none.
LEMMA DoEffect ==
    ASSUME WorkersOK, NEW w \in workers, DoStep(w)
    PROVE  /\ UNCHANGED <<ctxVars, mainVars, handVars>>
           /\ \/ \E v \in Worker : /\ v.peer = w.peer /\ WorkerOK(v)
                                   /\ Keeps(w, v) \/ PassesOn(w, v) \/ Delivers(w, v)
              \/ Leaves(w)
<1> DEFINE Goal == \/ \E v \in Worker : /\ v.peer = w.peer /\ WorkerOK(v)
                                        /\ Keeps(w, v) \/ PassesOn(w, v) \/ Delivers(w, v)
                   \/ Leaves(w)
<1>1. UNCHANGED <<ctxVars, mainVars, handVars>>
  BY Zenon DEF DoStep, Answered, NoAnswer, NotFound, Invalid, HandBack, Release,
     forgetPeer, AskRest, Deliver, GiveBack
<1> SUFFICES Goal
  BY <1>1
<1>2. w \in Worker /\ WorkerOK(w) /\ w.req \in Spans /\ w.got \in Spans
  BY DEF WorkersOK, Worker
<1>3. ASSUME NEW q \in {"sent", "rest", "deliver", "give", "back", "release", "forget"},
             q \notin {"rest", "deliver"}, NEW v, v = [w EXCEPT !.pc = q]
      PROVE  v \in Worker /\ v.peer = w.peer /\ v.pc = q /\ v.req = w.req /\ v.got = w.got /\ WorkerOK(v)
  BY <1>2, <1>3 DEF Worker, WorkerOK
<1>4. ASSUME NEW q \in {"none", "notFound", "empty", "invalid"}, NEW v,
             v = [w EXCEPT !.err = q, !.pc = "back"]
      PROVE  v \in Worker /\ v.peer = w.peer /\ v.pc = "back" /\ v.req = w.req /\ WorkerOK(v)
  BY <1>2, <1>4 DEF Worker, WorkerOK
<1>5. CASE Answered(w)
  <2>1. PICK last \in w.req[1]..w.req[2] :
            Become(w, [w EXCEPT !.got = <<w.req[1], last>>,
                                !.pc = IF last < w.req[2] THEN "rest" ELSE "deliver"])
    BY <1>5 DEF Answered
  <2> DEFINE g == <<w.req[1], last>>
             q == IF last < w.req[2] THEN "rest" ELSE "deliver"
             v == [w EXCEPT !.got = g, !.pc = q]
  <2>2. w.req[1] \in Heights /\ w.req[2] \in Heights /\ w.req = <<w.req[1], w.req[2]>> /\ last \in Heights
        /\ w.req[1] <= last /\ last <= w.req[2]
    BY <1>2, <2>1, SpanTypes, SessionAssumption DEF Nothing, Heights
  <2>3. g \in Spans /\ g[1] = w.req[1] /\ g[2] = last
    BY <2>2, SpanTypes
  <2> HIDE DEF g
  <2>4. v \in Worker /\ v.peer = w.peer /\ v.req = w.req /\ v.got = g /\ v.pc = q
    BY <1>2, <2>3 DEF Worker
  <2> HIDE DEF v
  <2>5. WorkerOK(v)
    BY <2>2, <2>3, <2>4 DEF WorkerOK, Heights
  <2>6. Work(w) = w.req
    BY <1>5, WorkIs DEF Answered
  <2>7. Work(v) = w.req
    <3>1. CASE last < w.req[2]
      BY <3>1, <2>4, WorkIs
    <3>2. CASE ~(last < w.req[2])
      <4>1. last = w.req[2]
        BY <3>2, <2>2 DEF Heights
      <4>2. g = w.req
        BY <4>1, <2>2 DEF g
      <4>3. Work(v) = g
        BY <3>2, <2>4, WorkIs
      <4> QED  BY <4>2, <4>3
    <3> QED  BY <3>1, <3>2
  <2>8. Keeps(w, v)
    BY <1>5, <2>1, <2>6, <2>7 DEF Keeps, Answered, v, g
  <2> QED  BY <2>4, <2>5, <2>8
<1>6. CASE NoAnswer(w) \/ NotFound(w) \/ Invalid(w)
  <2>1. PICK q \in {"none", "notFound", "empty", "invalid"} : Become(w, [w EXCEPT !.err = q, !.pc = "back"])
    BY <1>6 DEF NoAnswer, NotFound, Invalid
  <2> DEFINE v == [w EXCEPT !.err = q, !.pc = "back"]
  <2>2. v \in Worker /\ v.peer = w.peer /\ v.pc = "back" /\ v.req = w.req /\ WorkerOK(v)
    BY <1>4
  <2>3. Become(w, v)
    BY <2>1
  <2> HIDE DEF v
  <2>4. Work(w) = w.req /\ Work(v) = w.req
    BY <1>6, <2>2, WorkIs DEF NoAnswer, NotFound, Invalid
  <2>5. UNCHANGED chanVars
    BY <1>6, Zenon DEF NoAnswer, NotFound, Invalid
  <2> QED  BY <2>2, <2>3, <2>4, <2>5 DEF Keeps
<1>7. CASE HandBack(w)
  <2>0. Work(w) = w.req
    BY <1>7, WorkIs DEF HandBack
  <2>1. CASE Len(reqCh) < Cap /\ reqCh' = Append(reqCh, w.req) /\ Become(w, [w EXCEPT !.pc = "release"])
    <3> DEFINE v == [w EXCEPT !.pc = "release"]
    <3>1. v \in Worker /\ v.peer = w.peer /\ v.pc = "release" /\ WorkerOK(v)
      BY <1>3
    <3>2. Become(w, v) /\ UNCHANGED result
      BY <2>1, <1>7 DEF HandBack
    <3> HIDE DEF v
    <3>3. Work(v) = Nothing
      BY <3>1, WorkIs
    <3>4. \A h \in Heights : One(In(h, Work(w))) = One(In(h, w.req)) + One(In(h, Work(v)))
      BY <2>0, <3>3, SpanTypes DEF One
    <3>5. PassesOn(w, v)
      BY <1>2, <2>1, <3>2, <3>4 DEF PassesOn
    <3> QED  BY <3>1, <3>5
  <2>2. CASE closed /\ Exit(w) /\ UNCHANGED reqCh
    BY <1>7, <2>2 DEF HandBack, Leaves, chanVars
  <2> QED  BY <1>7, <2>1, <2>2 DEF HandBack
<1>8. CASE Release(w)
  <2>0. Work(w) = Nothing /\ UNCHANGED chanVars
    BY <1>8, WorkIs DEF Release
  <2>1. CASE Become(w, [w EXCEPT !.pc = "forget"])
    <3> DEFINE v == [w EXCEPT !.pc = "forget"]
    <3>1. v \in Worker /\ v.peer = w.peer /\ v.pc = "forget" /\ WorkerOK(v)
      BY <1>3
    <3>2. Become(w, v)
      BY <2>1
    <3> HIDE DEF v
    <3>3. Work(v) = Nothing
      BY <3>1, WorkIs
    <3> QED  BY <2>0, <3>1, <3>2, <3>3 DEF Keeps
  <2>2. CASE Exit(w)
    BY <2>0, <2>2 DEF Leaves
  <2> QED  BY <1>8, <2>1, <2>2, Zenon DEF Release
<1>9. CASE forgetPeer(w) \/ GiveBack(w)
  <2>0. Work(w) = Nothing
    BY <1>9, WorkIs DEF forgetPeer, GiveBack
  <2>1. Exit(w) /\ UNCHANGED chanVars
    BY <1>9, Zenon DEF forgetPeer, GiveBack
  <2> QED  BY <2>0, <2>1 DEF Leaves
<1>10. CASE AskRest(w)
  <2>0. Work(w) = w.req
    BY <1>10, WorkIs DEF AskRest
  <2>1. CASE closed /\ Exit(w) /\ UNCHANGED reqCh
    BY <1>10, <2>1 DEF AskRest, Leaves, chanVars
  <2>2. CASE /\ Len(reqCh) < Cap
             /\ reqCh' = Append(reqCh, prepareRequests(w.got[2] + 1, w.req[2], Size(w.req))[1])
             /\ Become(w, [w EXCEPT !.pc = "deliver"])
    <3> DEFINE v == [w EXCEPT !.pc = "deliver"]
               s == <<w.got[2] + 1, w.req[2]>>
    <3>1. w.got[1] = w.req[1] /\ w.got[2] \in w.req[1]..w.req[2] /\ w.got[2] < w.req[2]
      BY <1>2, <1>10 DEF AskRest, WorkerOK
    <3>2. w.req[1] \in Heights /\ w.req[2] \in Heights /\ w.got[2] \in Heights /\ w.got[2] + 1 \in Heights
      BY <1>2, <3>1, SpanTypes, SessionAssumption DEF Nothing, Heights
    <3>3. prepareRequests(w.got[2] + 1, w.req[2], Size(w.req))[1] = s
      <4> DEFINE a == w.got[2] + 1
                 b == w.req[2]
                 n == Size(w.req)
      <4>1. a \in Nat /\ b \in Nat /\ n \in Nat \ {0} /\ a <= b /\ b - a < n
        BY <3>1, <3>2 DEF Size, Heights
      <4> HIDE DEF a, b, n
      <4>2. (b - a) \div n \in Nat
        BY <4>1, DivBounds
      <4>3. 1 \in 1..((b - a) \div n) + 1
        BY <4>2
      <4>4. (1 - 1) * n = 0 /\ 1 * n = n
        BY <4>1
      <4>5. prepareRequests(a, b, n)[1] = <<a + 0, IF a + n - 1 <= b THEN a + n - 1 ELSE b>>
        BY <4>3, <4>4 DEF prepareRequests
      <4>6. (IF a + n - 1 <= b THEN a + n - 1 ELSE b) = b /\ a + 0 = a
        BY <4>1
      <4>7. prepareRequests(a, b, n)[1] = <<a, b>>
        BY <4>5, <4>6
      <4> QED  BY <4>7 DEF a, b, n
    <3>4. s \in Spans /\ s[1] = w.got[2] + 1 /\ s[2] = w.req[2]
      BY <3>1, <3>2, SpanTypes DEF Heights
    <3> HIDE DEF s
    <3>5. v \in Worker /\ v.peer = w.peer /\ v.req = w.req /\ v.got = w.got /\ v.pc = "deliver"
      BY <1>2 DEF Worker
    <3>6. Become(w, v) /\ UNCHANGED result
      BY <2>2, <1>10 DEF AskRest
    <3> HIDE DEF v
    <3>7. WorkerOK(v)
      BY <3>1, <3>5 DEF WorkerOK
    <3>8. Work(v) = w.got
      BY <3>5, WorkIs
    <3>9. ASSUME NEW h \in Heights
          PROVE  One(In(h, Work(w))) = One(In(h, s)) + One(In(h, Work(v)))
      <4>1. h \in Int /\ w.req[1] \in Int /\ w.req[2] \in Int /\ w.got[2] \in Int
        BY <3>2 DEF Heights
      <4>2. /\ In(h, w.req) <=> In(h, s) \/ In(h, w.got)
            /\ ~(In(h, s) /\ In(h, w.got))
        BY <4>1, <3>1, <3>4 DEF In
      <4> QED  BY <4>2, <2>0, <3>8 DEF One
    <3>10. PassesOn(w, v)
      BY <2>2, <3>3, <3>4, <3>6, <3>9 DEF PassesOn
    <3> QED  BY <3>5, <3>7, <3>10
  <2> QED  BY <1>10, <2>1, <2>2 DEF AskRest
<1>11. CASE Deliver(w)
  <2> DEFINE v == [w EXCEPT !.pc = "give"]
  <2>1. v \in Worker /\ v.peer = w.peer /\ v.pc = "give" /\ WorkerOK(v)
    BY <1>3
  <2>2. Become(w, v) /\ Len(result) < Cap /\ result' = Append(result, w.got) /\ UNCHANGED reqCh
    BY <1>11 DEF Deliver
  <2> HIDE DEF v
  <2>3. Work(w) = w.got /\ Work(v) = Nothing
    BY <1>11, <2>1, WorkIs DEF Deliver
  <2> QED  BY <1>2, <2>1, <2>2, <2>3 DEF Delivers
<1> QED
  BY <1>1, <1>5, <1>6, <1>7, <1>8, <1>9, <1>10, <1>11 DEF DoStep

\* the goroutines,
LEMMA WorkerTypes ==
    ASSUME WorkersOK, ChanOK, [Next]_vars
    PROVE  WorkersOK'
<1>1. CASE UNCHANGED workers
  BY <1>1, Zenon DEF WorkersOK
<1>2. CASE DoRequest
  <2>1. PICK p \in Peers : workers' = workers \cup
            {[peer |-> p, req |-> hreq, got |-> Nothing, err |-> "none", pc |-> "sent"]}
    BY <1>2 DEF DoRequest
  <2> DEFINE v == [peer |-> p, req |-> hreq, got |-> Nothing, err |-> "none", pc |-> "sent"]
  <2>2. v \in Worker /\ WorkerOK(v)
    BY SpanTypes DEF ChanOK, Worker, WorkerOK
  <2> HIDE DEF v
  <2>3. workers' = workers \cup {v}
    BY <2>1 DEF v
  <2>4. IsFiniteSet(workers')
    BY <2>3, FS_AddElement DEF WorkersOK
  <2> QED  BY <2>2, <2>3, <2>4 DEF WorkersOK
<1>3. ASSUME NEW w \in workers, DoStep(w) PROVE WorkersOK'
  <2>1. \/ \E v \in Worker : WorkerOK(v) /\ Become(w, v)
        \/ Exit(w)
    BY <1>3, DoEffect DEF Keeps, PassesOn, Delivers, Leaves
  <2>2. IsFiniteSet(workers \ {w})
    BY FS_RemoveElement DEF WorkersOK
  <2>3. \A v : IsFiniteSet((workers \ {w}) \cup {v})
    BY <2>2, FS_AddElement
  <2> QED  BY <2>1, <2>2, <2>3 DEF WorkersOK, Become, Exit
<1>4. MainStep => UNCHANGED workers
  BY Zenon DEF MainStep, TakeNewPeer, ReadPeers, WaitPeers, PushRequest, Collect, GiveUp
<1>5. HandlerStep => UNCHANGED workers \/ DoRequest
  BY Zenon DEF HandlerStep, SelectRequest, TakePeerCh, NoQueuedPeer, ReadConnected, AddConnected, Awake,
     HandlerEnds
<1>6. ASSUME NEW p, Requeue(p) \/ Track(p) \/ Connect(p) \/ Disconnect(p) PROVE UNCHANGED workers
  BY <1>6, Zenon DEF Requeue, Track, Connect, Disconnect
<1>7. Cancel \/ Stop \/ UNCHANGED vars => UNCHANGED workers
  BY Zenon DEF Cancel, Stop, vars
<1> QED
  BY <1>1, <1>2, <1>3, <1>4, <1>5, <1>6, <1>7, NextCases

\* the channels.
LEMMA ChanTypes ==
    ASSUME WorkersOK, ChanOK, [Next]_vars
    PROVE  ChanOK'
<1> USE DEF ChanOK
<1>0. Cap \in Nat /\ prepareRequests(1, Amount, PerPeer) \in Seq(Spans) /\ Nothing \in Spans
  BY Pieces, SpanTypes
<1>1. ASSUME NEW q \in Seq(Spans)
      PROVE  /\ \A s \in Spans : /\ Append(q, s) \in Seq(Spans)
                                 /\ Len(q) < Cap => Len(Append(q, s)) <= Cap
             /\ q # <<>> => /\ Head(q) \in Spans /\ Tail(q) \in Seq(Spans)
                            /\ Len(q) <= Cap => Len(Tail(q)) <= Cap
  BY <1>0
<1>2. CASE UNCHANGED <<chanVars, todo, headers, hreq>>
  BY <1>2 DEF chanVars
<1>3. CASE ReadPeers
  BY <1>0, <1>3 DEF ReadPeers, chanVars
<1>4. CASE PushRequest
  BY <1>1, <1>4 DEF PushRequest, handVars
<1>5. CASE Collect
  <2>1. headers' = Append(headers, Head(result)) /\ result' = Tail(result) /\ result # <<>>
        /\ UNCHANGED <<reqCh, todo, hreq>>
    BY <1>5 DEF Collect, handVars
  <2> QED  BY <1>1, <2>1
<1>6. CASE SelectRequest
  BY <1>1, <1>6 DEF SelectRequest, mainVars
<1>7. CASE DoRequest \/ HandlerEnds
  BY <1>0, <1>7 DEF DoRequest, HandlerEnds, mainVars, chanVars
<1>8. ASSUME NEW w \in workers, DoStep(w) PROVE ChanOK'
  <2>1. /\ UNCHANGED <<todo, headers, hreq>>
        /\ \/ UNCHANGED chanVars
           \/ Len(reqCh) < Cap /\ UNCHANGED result /\ \E s \in Spans : reqCh' = Append(reqCh, s)
           \/ Len(result) < Cap /\ UNCHANGED reqCh /\ \E s \in Spans : result' = Append(result, s)
    BY <1>8, DoEffect DEF Keeps, PassesOn, Delivers, Leaves, mainVars, handVars
  <2> QED  BY <1>1, <2>1 DEF chanVars
<1>9. MainStep => UNCHANGED <<chanVars, todo, headers, hreq>> \/ ReadPeers \/ PushRequest \/ Collect
  BY Zenon DEF MainStep, TakeNewPeer, WaitPeers, GiveUp, handVars
<1>10. HandlerStep => \/ UNCHANGED <<chanVars, todo, headers, hreq>> \/ SelectRequest \/ DoRequest
                      \/ HandlerEnds
  BY Zenon DEF HandlerStep, TakePeerCh, NoQueuedPeer, ReadConnected, AddConnected, Awake, mainVars
<1>11. ASSUME NEW p, Requeue(p) \/ Track(p) \/ Connect(p) \/ Disconnect(p)
       PROVE  UNCHANGED <<chanVars, todo, headers, hreq>>
  BY <1>11, Zenon DEF Requeue, Track, Connect, Disconnect, mainVars, handVars
<1>12. Cancel \/ Stop \/ UNCHANGED vars => UNCHANGED <<chanVars, todo, headers, hreq>>
  BY Zenon DEF Cancel, Stop, vars, mainVars, handVars
<1> QED
  BY <1>2, <1>3, <1>4, <1>5, <1>6, <1>7, <1>8, <1>9, <1>10, <1>11, <1>12, NextCases

\* Every step keeps the types.
LEMMA TypeStep ==
    ASSUME TypeInv, [Next]_vars
    PROVE  TypeInv'
BY TypeParts, SetTypes, FlagTypes, EventTypes, QueueTypes, ChanTypes, PlaceTypes, WorkerTypes

-----------------------------------------------------------------------------
\* A peer is in one place.  It enters the queue only when the session does not know it, or from
\* the place it leaves.
LEMMA PeerStep ==
    ASSUME TypeInv, PeerInv, [Next]_vars
    PROVE  PeerInv'
<1>0. QueueOK /\ SetsOK /\ WorkersOK
  BY TypeParts
<1>1. CASE UNCHANGED <<queue, workers, delayed, known>>
  BY <1>1, Zenon DEF PeerInv
<1>2. ASSUME NEW ps, addPeers(ps), UNCHANGED <<workers, delayed>> PROVE PeerInv'
  <2> SUFFICES ASSUME NEW p \in Peers PROVE PeerInv!(p)'
    BY Zenon DEF PeerInv
  <2>1. /\ queue'[p] = IF p \in ps \ known THEN queue[p] + 1 ELSE queue[p]
        /\ known' = known \cup ps
    BY <1>2 DEF addPeers, Push
  <2> QED  BY <1>2, <2>1 DEF PeerInv
<1>3. CASE DoRequest
  <2>1. PICK r \in Peers :
            /\ queue[r] > 0 /\ queue' = [queue EXCEPT ![r] = @ - 1]
            /\ workers' = workers \cup
                   {[peer |-> r, req |-> hreq, got |-> Nothing, err |-> "none", pc |-> "sent"]}
    BY <1>3 DEF DoRequest
  <2>2. PICK u : u.peer = r /\ workers' = workers \cup {u}
    BY <2>1
  <2>3. UNCHANGED <<delayed, known>>
    BY <1>3 DEF DoRequest
  <2>4. queue[r] = 1 /\ queue'[r] = 0 /\ \A p \in Peers \ {r} : queue'[p] = queue[p]
    BY <1>0, <2>1 DEF PeerInv, QueueOK
  <2> SUFFICES ASSUME NEW p \in Peers PROVE PeerInv!(p)'
    BY Zenon DEF PeerInv
  <2> QED  BY <2>2, <2>3, <2>4 DEF PeerInv
<1>4. ASSUME NEW r \in Peers, Requeue(r) PROVE PeerInv'
  <2>1. /\ \A p \in Peers : queue'[p] = IF p = r THEN queue[p] + 1 ELSE queue[p]
        /\ r \in delayed /\ delayed' = delayed \ {r} /\ UNCHANGED <<workers, known>>
    BY <1>4 DEF Requeue, Push
  <2> SUFFICES ASSUME NEW p \in Peers PROVE PeerInv!(p)'
    BY Zenon DEF PeerInv
  <2> QED  BY <2>1 DEF PeerInv
<1>5. ASSUME NEW w \in workers, DoStep(w) PROVE PeerInv'
  <2> DEFINE r == w.peer
  <2>1. r \in Peers
    BY <1>0 DEF WorkersOK, Worker
  <2>2. \/ UNCHANGED <<queue, delayed, known>>
        \/ Exit(w) /\ Push({r}) /\ UNCHANGED <<delayed, known>>
        \/ Exit(w) /\ delayed' = delayed \cup {r} /\ UNCHANGED <<queue, known>>
        \/ Exit(w) /\ known' = known \ {r} /\ UNCHANGED <<queue, delayed>>
    BY <1>5, Zenon DEF DoStep, Answered, NoAnswer, NotFound, Invalid, HandBack, Release,
       forgetPeer, AskRest, Deliver, GiveBack, queueVars
  <2>3. \/ \E v : v.peer = r /\ Become(w, v)
        \/ Exit(w)
    BY <1>0, <1>5, DoEffect DEF Keeps, PassesOn, Delivers, Leaves
  <2>4. \A x \in workers : x.peer = r => x = w
    BY <2>1 DEF PeerInv
  <2>5. /\ queue[r] = 0 /\ r \notin delayed /\ r \in known
    BY <2>1 DEF PeerInv
  <2> HIDE DEF r
  <2> SUFFICES ASSUME NEW p \in Peers PROVE PeerInv!(p)'
    BY Zenon DEF PeerInv
  <2>6. CASE UNCHANGED <<queue, delayed, known>>
    <3>1. CASE Exit(w)
      BY <2>6, <3>1 DEF PeerInv, Exit
    <3>2. ASSUME NEW v, v.peer = r, Become(w, v) PROVE PeerInv!(p)'
      BY <2>4, <2>5, <2>6, <3>2 DEF PeerInv, Become
    <3> QED  BY <2>3, <3>1, <3>2
  <2>7. CASE Exit(w) /\ Push({r}) /\ UNCHANGED <<delayed, known>>
    <3>1. queue'[p] = IF p = r THEN queue[p] + 1 ELSE queue[p]
      BY <2>7 DEF Push
    <3> QED  BY <2>4, <2>5, <2>7, <3>1 DEF PeerInv, Exit
  <2>8. CASE Exit(w) /\ delayed' = delayed \cup {r} /\ UNCHANGED <<queue, known>>
    BY <2>4, <2>5, <2>8 DEF PeerInv, Exit
  <2>9. CASE Exit(w) /\ known' = known \ {r} /\ UNCHANGED <<queue, delayed>>
    BY <2>4, <2>5, <2>9 DEF PeerInv, Exit
  <2> QED  BY <2>2, <2>6, <2>7, <2>8, <2>9
<1>6. MainStep => \/ UNCHANGED <<queue, workers, delayed, known>>
                  \/ addPeers(tracked) /\ UNCHANGED <<workers, delayed>>
  BY Zenon DEF MainStep, TakeNewPeer, ReadPeers, WaitPeers, PushRequest, Collect, GiveUp, queueVars
<1>7. HandlerStep => \/ UNCHANGED <<queue, workers, delayed, known>>
                     \/ addPeers(hpeers) /\ UNCHANGED <<workers, delayed>>
                     \/ DoRequest
  BY Zenon DEF HandlerStep, SelectRequest, TakePeerCh, NoQueuedPeer, ReadConnected, AddConnected, Awake,
     HandlerEnds, queueVars
<1>8. ASSUME NEW p, Track(p) \/ Connect(p) \/ Disconnect(p)
      PROVE  UNCHANGED <<queue, workers, delayed, known>>
  BY <1>8, Zenon DEF Track, Connect, Disconnect, queueVars
<1>9. Cancel \/ Stop \/ UNCHANGED vars => UNCHANGED <<queue, workers, delayed, known>>
  BY Zenon DEF Cancel, Stop, vars, queueVars
<1> QED
  BY <1>1, <1>2, <1>3, <1>4, <1>5, <1>6, <1>7, <1>8, <1>9, NextCases

\* Every step keeps EarlyInv.
LEMMA EarlyStep ==
    ASSUME TypeInv, EarlyInv, [Next]_vars
    PROVE  EarlyInv'
<1>1. CASE MainStep
  BY <1>1 DEF MainStep, TakeNewPeer, ReadPeers, WaitPeers, PushRequest, Collect, GiveUp, EarlyInv,
     chanVars, handVars
<1>2. CASE HandlerStep
  BY <1>2 DEF HandlerStep, SelectRequest, TakePeerCh, DoRequest, NoQueuedPeer, ReadConnected, AddConnected,
     Awake, HandlerEnds, EarlyInv, mainVars
<1>3. ASSUME NEW w \in workers, DoStep(w) PROVE EarlyInv'
  <2>1. UNCHANGED mpc
    BY <1>3, DoEffect, TypeParts DEF mainVars
  <2> QED  BY <2>1 DEF EarlyInv
<1>4. ASSUME NEW p, Requeue(p) \/ Track(p) \/ Connect(p) \/ Disconnect(p) PROVE EarlyInv'
  BY <1>4 DEF Requeue, Track, Connect, Disconnect, EarlyInv, mainVars, handVars, chanVars
<1>5. CASE Cancel \/ Stop \/ UNCHANGED vars
  BY <1>5 DEF Cancel, Stop, vars, EarlyInv, mainVars, handVars, chanVars
<1> QED
  BY <1>1, <1>2, <1>3, <1>4, <1>5, NextCases

\* Every step keeps HandInv.
LEMMA HandStep ==
    ASSUME TypeInv, EarlyInv, HandInv, [Next]_vars
    PROVE  HandInv'
<1>1. CASE MainStep
  BY <1>1 DEF MainStep, TakeNewPeer, ReadPeers, WaitPeers, PushRequest, Collect, GiveUp, EarlyInv, HandInv,
     handVars
<1>2. CASE HandlerStep
  BY <1>2 DEF HandlerStep, SelectRequest, TakePeerCh, DoRequest, NoQueuedPeer, ReadConnected, AddConnected,
     Awake, HandlerEnds, HandInv
<1>3. ASSUME NEW w \in workers, DoStep(w) PROVE HandInv'
  <2>1. UNCHANGED <<hpc, hreq>>
    BY <1>3, DoEffect, TypeParts DEF handVars
  <2> QED  BY <2>1 DEF HandInv
<1>4. ASSUME NEW p, Requeue(p) \/ Track(p) \/ Connect(p) \/ Disconnect(p) PROVE HandInv'
  BY <1>4 DEF Requeue, Track, Connect, Disconnect, HandInv, handVars
<1>5. CASE Cancel \/ Stop \/ UNCHANGED vars
  BY <1>5 DEF Cancel, Stop, vars, HandInv, handVars
<1> QED
  BY <1>1, <1>2, <1>3, <1>4, <1>5, NextCases

-----------------------------------------------------------------------------
\* Headers received once each are as many as their heights: when Amount have been received,
\* every height has.
LEMMA AllReceived ==
    ASSUME NEW ss \in Seq(Spans), \A h \in Heights : Holding(h, ss) <= 1, Count(ss) >= Amount
    PROVE  \A h \in Heights : Holding(h, ss) = 1
<1> DEFINE X == {x \in (DOMAIN ss) \X Heights : In(x[2], ss[x[1]])}
           f == [x \in X |-> x[2]]
<1>1. ASSUME NEW h \in Heights, NEW i \in Places(h, ss), NEW j \in Places(h, ss) PROVE i = j
  <2> SUFFICES ASSUME i # j PROVE FALSE
    OBVIOUS
  <2>1. {i, j} \in SUBSET Places(h, ss) /\ IsFiniteSet(Places(h, ss))
    BY PlacesFinite
  <2>2. IsFiniteSet({i}) /\ Cardinality({i}) = 1
    BY FS_Singleton
  <2>3. Cardinality({i} \cup {j}) = 1 + 1
    BY <2>2, FS_AddElement
  <2>4. {i} \cup {j} = {i, j}
    OBVIOUS
  <2>5. Cardinality({i, j}) <= Cardinality(Places(h, ss))
    BY <2>1, FS_Subset
  <2>6. Cardinality(Places(h, ss)) <= 1 /\ Cardinality(Places(h, ss)) \in Nat
    BY PlacesFinite
  <2> QED  BY <2>3, <2>4, <2>5, <2>6
<1>2. \A x \in X : x = <<x[1], x[2]>> /\ x[2] \in Heights /\ x[1] \in Places(x[2], ss)
  BY DEF Places
<1>3. f \in Injection(X, Heights)
  <2>1. f \in [X -> Heights]
    BY <1>2
  <2>2. \A a, b \in X : f[a] = f[b] => a = b
    <3> TAKE a, b \in X
    <3>0. SUFFICES ASSUME f[a] = f[b] PROVE a = b
      OBVIOUS
    <3>1. a[2] = b[2]
      BY <3>0
    <3>2. a[1] = b[1]
      BY <3>1, <1>1, <1>2
    <3> QED  BY <3>1, <3>2, <1>2
  <2> HIDE DEF f, X
  <2> QED  BY <2>1, <2>2, Fun_IsInj
<1>4. IsFiniteSet(Heights) /\ Cardinality(Heights) = Amount /\ Amount \in Nat
  BY SessionAssumption, FS_Interval DEF Heights
<1>5. f \in Surjection(X, Heights)
  <2>1. Cardinality(X) >= Amount
    BY DEF Count
  <2> HIDE DEF f, X
  <2>2. /\ Cardinality(X) <= Amount /\ IsFiniteSet(X)
        /\ Cardinality(X) = Amount <=> f \in Surjection(X, Heights)
    BY <1>3, <1>4, FS_Injection
  <2>3. Cardinality(X) \in Nat
    BY <2>2, FS_CardinalityType
  <2> QED  BY <1>4, <2>1, <2>2, <2>3
<1> SUFFICES ASSUME NEW h \in Heights PROVE Holding(h, ss) = 1
  OBVIOUS
<1>6. \E x \in X : f[x] = h
  BY <1>5 DEF Surjection
<1>7. PICK i : i \in Places(h, ss)
  BY <1>2, <1>6
<1>8. Places(h, ss) = {i}
  BY <1>1, <1>7
<1>9. Cardinality(Places(h, ss)) = 1
  BY <1>8, FS_Singleton
<1> QED
  BY <1>9, PlacesFinite

\* The places of a header, one number each.
LEMMA HoldersAre ==
    ASSUME TypeInv, NEW h \in Heights
    PROVE  /\ Holders(h) = Holding(h, todo) + Holding(h, reqCh) + One(In(h, hreq)) + Holding(h, result)
                              + Holding(h, headers) + Cardinality(Carriers(workers, h))
           /\ Holding(h, todo) \in Nat /\ Holding(h, reqCh) \in Nat /\ One(In(h, hreq)) \in Nat
           /\ Holding(h, result) \in Nat /\ Holding(h, headers) \in Nat
           /\ Cardinality(Carriers(workers, h)) \in Nat
<1>1. ChanOK /\ WorkersOK
  BY TypeParts
<1>2. /\ Holding(h, todo) \in Nat /\ Holding(h, reqCh) \in Nat
      /\ Holding(h, result) \in Nat /\ Holding(h, headers) \in Nat
  BY <1>1, PlacesFinite DEF ChanOK
<1>3. Holding(h, <<hreq>>) = One(In(h, hreq)) /\ One(In(h, hreq)) \in Nat
  BY <1>1, HoldingOne DEF ChanOK, One
<1>4. Cardinality(Carriers(workers, h)) \in Nat
  BY <1>1, CarriersFinite DEF WorkersOK
<1> QED
  BY <1>2, <1>3, <1>4 DEF Holders, Carriers

\* A header is neither duplicated nor, before the end, lost.
LEMMA HoldersStep ==
    ASSUME TypeInv, TypeInv', PeerInv, HandInv, [Next]_vars, ~ReadPeers, NEW h \in Heights
    PROVE  Holders(h)' <= Holders(h) /\ (Holders(h)' = Holders(h) \/ Ended')
<1> DEFINE Goal == Holders(h)' <= Holders(h) /\ (Holders(h)' = Holders(h) \/ Ended')
<1>0. ChanOK /\ WorkersOK /\ Nothing \in Spans /\ ~In(h, Nothing)
  BY TypeParts, SpanTypes
<1>1. /\ Holders(h) = Holding(h, todo) + Holding(h, reqCh) + One(In(h, hreq)) + Holding(h, result)
                         + Holding(h, headers) + Cardinality(Carriers(workers, h))
      /\ Holding(h, todo) \in Nat /\ Holding(h, reqCh) \in Nat /\ One(In(h, hreq)) \in Nat
      /\ Holding(h, result) \in Nat /\ Holding(h, headers) \in Nat
      /\ Cardinality(Carriers(workers, h)) \in Nat
  BY HoldersAre
<1>2. /\ Holders(h)' = Holding(h, todo') + Holding(h, reqCh') + One(In(h, hreq')) + Holding(h, result')
                         + Holding(h, headers') + Cardinality(Carriers(workers', h))
      /\ Holding(h, todo') \in Nat /\ Holding(h, reqCh') \in Nat /\ One(In(h, hreq')) \in Nat
      /\ Holding(h, result') \in Nat /\ Holding(h, headers') \in Nat
      /\ Cardinality(Carriers(workers', h)) \in Nat
  <2>1. ChanOK' /\ WorkersOK'
    BY TypeParts
  <2>2. /\ Holding(h, todo') \in Nat /\ Holding(h, reqCh') \in Nat
        /\ Holding(h, result') \in Nat /\ Holding(h, headers') \in Nat
    BY <2>1, PlacesFinite DEF ChanOK
  <2>3. Holding(h, <<hreq'>>) = One(In(h, hreq')) /\ One(In(h, hreq')) \in Nat
    BY <2>1, HoldingOne DEF ChanOK, One
  <2>4. Cardinality(Carriers(workers', h)) \in Nat
    BY <2>1, CarriersFinite DEF WorkersOK
  <2>5. Holders(h)' = Holding(h, todo') + Holding(h, reqCh') + Holding(h, <<hreq'>>) + Holding(h, result')
                         + Holding(h, headers') + Cardinality(Carriers(workers', h))
    BY DEF Holders, Carriers, Holding, In, Work
  <2> QED  BY <2>2, <2>3, <2>4, <2>5
<1>3. CASE UNCHANGED <<chanVars, todo, headers, hreq, workers>>
  BY <1>1, <1>2, <1>3 DEF chanVars
<1>4. CASE PushRequest
  <2>1. UNCHANGED <<result, headers, hreq, workers>>
    BY <1>4 DEF PushRequest, handVars
  <2>2. CASE todo # <<>> /\ reqCh' = Append(reqCh, Head(todo)) /\ todo' = Tail(todo)
    <3>1. Head(todo) \in Spans /\ Holding(h, todo) = Holding(h, todo') + One(In(h, Head(todo)))
      BY <1>0, <2>2, HoldingTail DEF ChanOK
    <3>2. Holding(h, reqCh') = Holding(h, reqCh) + One(In(h, Head(todo)))
      BY <1>0, <2>2, <3>1, HoldingAppend DEF ChanOK
    <3>3. One(In(h, Head(todo))) \in Nat
      BY DEF One
    <3> QED  BY <1>1, <1>2, <2>1, <3>1, <3>2, <3>3
  <2>3. CASE UNCHANGED <<reqCh, todo>>
    BY <1>1, <1>2, <2>1, <2>3
  <2> QED  BY <1>4, <2>2, <2>3 DEF PushRequest
<1>5. CASE Collect
  <2>1. headers' = Append(headers, Head(result)) /\ result' = Tail(result) /\ result # <<>>
        /\ UNCHANGED <<reqCh, todo, hreq, workers>>
    BY <1>5 DEF Collect, handVars
  <2>2. Head(result) \in Spans /\ Holding(h, result) = Holding(h, result') + One(In(h, Head(result)))
    BY <1>0, <2>1, HoldingTail DEF ChanOK
  <2>3. Holding(h, headers') = Holding(h, headers) + One(In(h, Head(result)))
    BY <1>0, <2>1, <2>2, HoldingAppend DEF ChanOK
  <2>4. One(In(h, Head(result))) \in Nat
    BY DEF One
  <2>5. /\ Holding(h, todo') = Holding(h, todo) /\ Holding(h, reqCh') = Holding(h, reqCh)
        /\ One(In(h, hreq')) = One(In(h, hreq))
        /\ Cardinality(Carriers(workers', h)) = Cardinality(Carriers(workers, h))
    BY <2>1
  <2>6. Holders(h)' = Holders(h)
    BY <1>1, <1>2, <2>2, <2>3, <2>4, <2>5
  <2> QED  BY <1>1, <1>2, <2>6
<1>6. CASE SelectRequest
  <2>1. hreq' = Head(reqCh) /\ reqCh' = Tail(reqCh) /\ reqCh # <<>> /\ UNCHANGED <<result, todo, headers, workers>>
    BY <1>6 DEF SelectRequest, mainVars
  <2>2. Holding(h, reqCh) = Holding(h, reqCh') + One(In(h, hreq'))
    BY <1>0, <2>1, HoldingTail DEF ChanOK
  <2>3. /\ Holding(h, todo') = Holding(h, todo) /\ Holding(h, result') = Holding(h, result)
        /\ Holding(h, headers') = Holding(h, headers)
        /\ Cardinality(Carriers(workers', h)) = Cardinality(Carriers(workers, h))
    BY <2>1
  <2>4. One(In(h, hreq)) = 0
    BY <1>0, <1>6 DEF HandInv, SelectRequest, One
  <2> QED  BY <1>1, <1>2, <2>2, <2>3, <2>4
<1>7. CASE DoRequest
  <2>1. PICK p \in Peers :
            /\ queue[p] > 0
            /\ workers' = workers \cup
                   {[peer |-> p, req |-> hreq, got |-> Nothing, err |-> "none", pc |-> "sent"]}
    BY <1>7 DEF DoRequest
  <2>2. PICK v : v.peer = p /\ v.req = hreq /\ v.pc = "sent" /\ workers' = workers \cup {v}
    BY <2>1
  <2>3. v \notin workers
    BY <2>1, <2>2 DEF PeerInv
  <2>4. Work(v) = hreq
    BY <2>2, WorkIs
  <2>5. Cardinality(Carriers(workers', h)) = Cardinality(Carriers(workers, h)) + One(In(h, hreq))
    BY <1>0, <2>2, <2>3, <2>4, CarriersAdd DEF WorkersOK
  <2>6. hreq' = Nothing /\ UNCHANGED <<reqCh, result, todo, headers>>
    BY <1>7 DEF DoRequest, mainVars, chanVars
  <2>7. One(In(h, hreq')) = 0
    BY <1>0, <2>6 DEF One
  <2> QED  BY <1>1, <1>2, <2>5, <2>6, <2>7
<1>8. CASE HandlerEnds
  <2>1. Ended' /\ hreq' = Nothing /\ UNCHANGED <<reqCh, result, todo, headers, workers>>
    BY <1>8 DEF HandlerEnds, mainVars, chanVars, ctxVars, Ended
  <2>2. One(In(h, hreq')) = 0
    BY <1>0, <2>1 DEF One
  <2> QED  BY <1>1, <1>2, <2>1, <2>2
<1>9. ASSUME NEW w \in workers, DoStep(w) PROVE Goal
  <2>0. UNCHANGED <<todo, headers, hreq, closed, ctxDone>> /\ IsFiniteSet(workers)
    BY <1>0, <1>9, DoEffect DEF mainVars, handVars, ctxVars, WorkersOK
  <2>1. One(In(h, Work(w))) \in Nat
    BY DEF One
  <2>2. ASSUME NEW v, v.peer = w.peer, Become(w, v)
        PROVE  /\ One(In(h, Work(v))) \in Nat
               /\ Cardinality(Carriers(workers', h)) + One(In(h, Work(w)))
                     = Cardinality(Carriers(workers, h)) + One(In(h, Work(v)))
    <3>1. w.peer \in Peers
      BY <1>0 DEF WorkersOK, Worker
    <3>2. v \notin workers \ {w}
      BY <2>2, <3>1 DEF PeerInv
    <3>3. One(In(h, Work(v))) \in Nat
      BY DEF One
    <3>4. workers' = (workers \ {w}) \cup {v} /\ IsFiniteSet(workers)
      BY <2>0, <2>2 DEF Become
    <3> QED  BY <3>2, <3>3, <3>4, CarriersBecome
  <2>3. ASSUME NEW v, v.peer = w.peer, Keeps(w, v) PROVE Goal
    <3>1. Cardinality(Carriers(workers', h)) + One(In(h, Work(w)))
            = Cardinality(Carriers(workers, h)) + One(In(h, Work(w)))
      BY <2>2, <2>3 DEF Keeps
    <3>2. Holding(h, reqCh') = Holding(h, reqCh) /\ Holding(h, result') = Holding(h, result)
      BY <2>3 DEF Keeps, chanVars
    <3>3. Holders(h)' = Holders(h)
      BY <1>1, <1>2, <2>0, <2>1, <3>1, <3>2
    <3> QED  BY <1>1, <1>2, <3>3
  <2>4. ASSUME NEW v, v.peer = w.peer, PassesOn(w, v) PROVE Goal
    <3>1. PICK s \in Spans : /\ Become(w, v) /\ reqCh' = Append(reqCh, s) /\ UNCHANGED result
                             /\ One(In(h, Work(w))) = One(In(h, s)) + One(In(h, Work(v)))
      BY <2>4 DEF PassesOn
    <3>2. Holding(h, reqCh') = Holding(h, reqCh) + One(In(h, s))
      BY <1>0, <3>1, HoldingAppend DEF ChanOK
    <3>3. One(In(h, s)) \in Nat
      BY DEF One
    <3>4. /\ One(In(h, Work(v))) \in Nat
          /\ Cardinality(Carriers(workers', h)) + One(In(h, Work(w)))
                = Cardinality(Carriers(workers, h)) + One(In(h, Work(v)))
      BY <2>2, <2>4, <3>1
    <3>5. Holding(h, result') = Holding(h, result) /\ One(In(h, Work(w))) = One(In(h, s)) + One(In(h, Work(v)))
      BY <3>1
    <3>6. Holders(h)' = Holders(h)
      BY <1>1, <1>2, <2>0, <2>1, <3>2, <3>3, <3>4, <3>5
    <3> QED  BY <1>1, <1>2, <3>6
  <2>5. ASSUME NEW v, v.peer = w.peer, Delivers(w, v) PROVE Goal
    <3>1. Holding(h, result') = Holding(h, result) + One(In(h, Work(w)))
      BY <1>0, <2>5, HoldingAppend DEF ChanOK, Delivers
    <3>2. One(In(h, Work(v))) = 0
      BY <1>0, <2>5 DEF Delivers, One
    <3>3. Cardinality(Carriers(workers', h)) + One(In(h, Work(w))) = Cardinality(Carriers(workers, h)) + 0
      BY <2>2, <2>5, <3>2 DEF Delivers
    <3>4. Holding(h, reqCh') = Holding(h, reqCh)
      BY <2>5 DEF Delivers
    <3>5. Holders(h)' = Holders(h)
      BY <1>1, <1>2, <2>0, <2>1, <3>1, <3>3, <3>4
    <3> QED  BY <1>1, <1>2, <3>5
  <2>6. CASE Leaves(w)
    <3>1. Cardinality(Carriers(workers, h)) = Cardinality(Carriers(workers', h)) + One(In(h, Work(w)))
      BY <2>0, <2>6, CarriersRemove DEF Leaves, Exit
    <3>2. Ended' \/ One(In(h, Work(w))) = 0
      BY <1>0, <2>0, <2>6 DEF Leaves, One, Ended
    <3> QED  BY <1>1, <1>2, <2>0, <2>1, <2>6, <3>1, <3>2 DEF Leaves, chanVars
  <2> QED  BY <1>0, <1>9, <2>3, <2>4, <2>5, <2>6, DoEffect
<1>10. MainStep => UNCHANGED <<chanVars, todo, headers, hreq, workers>> \/ PushRequest \/ Collect
  BY Zenon DEF MainStep, TakeNewPeer, WaitPeers, GiveUp, handVars
<1>11. HandlerStep => \/ UNCHANGED <<chanVars, todo, headers, hreq, workers>> \/ SelectRequest \/ DoRequest
                      \/ HandlerEnds
  BY Zenon DEF HandlerStep, TakePeerCh, NoQueuedPeer, ReadConnected, AddConnected, Awake, mainVars
<1>12. ASSUME NEW p, Requeue(p) \/ Track(p) \/ Connect(p) \/ Disconnect(p)
       PROVE  UNCHANGED <<chanVars, todo, headers, hreq, workers>>
  BY <1>12, Zenon DEF Requeue, Track, Connect, Disconnect, mainVars, handVars
<1>13. Cancel \/ Stop \/ UNCHANGED vars => UNCHANGED <<chanVars, todo, headers, hreq, workers>>
  BY Zenon DEF Cancel, Stop, vars, mainVars, handVars
<1> QED
  BY <1>3, <1>4, <1>5, <1>6, <1>7, <1>8, <1>9, <1>10, <1>11, <1>12, <1>13, NextCases

\* Every step keeps the count of each header.
LEMMA CountStep ==
    ASSUME Inv, TypeInv', [Next]_vars
    PROVE  CountInv'
<1> USE DEF Inv
<1>1. CASE ReadPeers
  <2>1. CASE mpc' = "wait"
    <3>1. UNCHANGED <<todo, reqCh, hreq, result, headers, workers>>
      BY <1>1, <2>1 DEF ReadPeers, chanVars
    <3>2. \A h \in Heights : Holders(h)' = Holders(h)
      BY <3>1 DEF Holders, Holding, In, Work
    <3> QED  BY <2>1, <3>2 DEF CountInv
  <2>2. CASE mpc' = "push"
    <3>1. /\ todo' = prepareRequests(1, Amount, PerPeer)
          /\ reqCh' = <<>> /\ hreq' = Nothing /\ result' = <<>> /\ headers' = <<>> /\ workers' = {}
      BY <1>1, <2>2 DEF ReadPeers, EarlyInv, chanVars
    <3>2. ASSUME NEW h \in Heights PROVE Holders(h)' = 1
      <4>1. Holders(h)' = Holding(h, todo') + Holding(h, reqCh') + Holding(h, <<hreq'>>) + Holding(h, result')
                             + Holding(h, headers') + Cardinality(Carriers(workers', h))
        BY DEF Holders, Carriers, Holding, In, Work
      <4>2. Holding(h, todo') = 1
        BY <3>1, Pieces
      <4>3. Holding(h, reqCh') = 0 /\ Holding(h, result') = 0 /\ Holding(h, headers') = 0
        BY <3>1, HoldingEmpty
      <4>4. Holding(h, <<hreq'>>) = 0
        BY <3>1, HoldingOne, SpanTypes DEF One
      <4>5. Carriers(workers', h) = {}
        BY <3>1 DEF Carriers
      <4>6. Cardinality(Carriers(workers', h)) = 0
        BY <4>5, FS_EmptySet
      <4> QED  BY <4>1, <4>2, <4>3, <4>4, <4>6
    <3> QED  BY <2>2, <3>2 DEF CountInv
  <2> QED  BY <1>1, <2>1, <2>2 DEF ReadPeers
<1>2. CASE ~ReadPeers
  <2>1. \A h \in Heights : /\ Holders(h)' <= Holders(h) /\ Holders(h) <= 1
                           /\ Holders(h)' = Holders(h) \/ Ended'
                           /\ Holders(h) \in Nat
    BY <1>2, HoldersStep, HoldersAre DEF CountInv
  <2>2. \A h \in Heights : Holders(h)' \in Nat /\ Holding(h, headers') \in Nat /\ Holding(h, headers') <= Holders(h)'
    <3> TAKE h \in Heights
    <3>1. ChanOK' /\ WorkersOK'
      BY TypeParts
    <3>2. /\ Holding(h, todo') \in Nat /\ Holding(h, reqCh') \in Nat
          /\ Holding(h, result') \in Nat /\ Holding(h, headers') \in Nat
      BY <3>1, PlacesFinite DEF ChanOK
    <3>3. Holding(h, <<hreq'>>) \in Nat
      BY <3>1, HoldingOne DEF ChanOK, One
    <3>4. Cardinality(Carriers(workers', h)) \in Nat
      BY <3>1, CarriersFinite DEF WorkersOK
    <3>5. Holders(h)' = Holding(h, todo') + Holding(h, reqCh') + Holding(h, <<hreq'>>) + Holding(h, result')
                           + Holding(h, headers') + Cardinality(Carriers(workers', h))
      BY DEF Holders, Carriers, Holding, In, Work
    <3> QED  BY <3>2, <3>3, <3>4, <3>5
  <2>3. \A h \in Heights : Holders(h)' <= 1
    BY <2>1, <2>2
  <2>4. /\ mpc' \in {"push", "collect"} => mpc \in {"push", "collect"}
        /\ Ended => Ended'
        /\ Collect \/ (UNCHANGED headers /\ (mpc' = "returned" => mpc = "returned"))
    <3>1. CASE MainStep
      BY <1>2, <3>1 DEF MainStep, TakeNewPeer, WaitPeers, PushRequest, Collect, GiveUp, Ended, ctxVars
    <3>2. CASE HandlerStep
      BY <3>2 DEF HandlerStep, SelectRequest, TakePeerCh, DoRequest, NoQueuedPeer, ReadConnected, AddConnected,
         Awake, HandlerEnds, Ended, ctxVars, mainVars
    <3>3. ASSUME NEW w \in workers, DoStep(w) PROVE UNCHANGED <<mpc, headers, ctxVars>>
      BY <3>3, DoEffect, TypeParts DEF mainVars
    <3>4. ASSUME NEW p, Requeue(p) \/ Track(p) \/ Connect(p) \/ Disconnect(p)
          PROVE  UNCHANGED <<mpc, headers, ctxVars>>
      BY <3>4, Zenon DEF Requeue, Track, Connect, Disconnect, mainVars
    <3>5. CASE Cancel \/ Stop \/ UNCHANGED vars
      BY <3>5 DEF Cancel, Stop, vars, mainVars, ctxVars, Ended
    <3>6. CASE UNCHANGED <<mpc, headers, ctxVars>>
      BY <3>6 DEF ctxVars, Ended
    <3> QED  BY <3>1, <3>2, <3>3, <3>4, <3>5, <3>6, NextCases
  <2>5. mpc' \in {"push", "collect"} /\ ~Ended' => \A h \in Heights : Holders(h)' = 1
    BY <2>1, <2>4 DEF CountInv
  <2>6. mpc' = "returned" => \A h \in Heights : Holding(h, headers)' = 1
    <3>1. CASE UNCHANGED headers /\ (mpc' = "returned" => mpc = "returned")
      BY <3>1 DEF CountInv, Holding, In
    <3>2. CASE Collect
      <4>1. mpc' = "returned" => Count(headers') >= Amount
        BY <3>2 DEF Collect
      <4>2. headers' \in Seq(Spans) /\ \A h \in Heights : Holding(h, headers') <= 1
        BY <2>2, <2>3, TypeParts DEF ChanOK
      <4>3. mpc' = "returned" => \A h \in Heights : Holding(h, headers') = 1
        BY <4>1, <4>2, AllReceived
      <4> QED  BY <4>3
    <3> QED  BY <2>4, <3>1, <3>2
  <2> QED  BY <2>3, <2>5, <2>6, Zenon DEF CountInv
<1> QED
  BY <1>1, <1>2

\* The invariant holds at first.
LEMMA Start ==
    ASSUME Init PROVE Inv
<1> USE DEF Init
<1>0. Nothing \in Spans /\ Cap \in Nat
  BY SpanTypes, Pieces
<1>1. SetsOK /\ FlagsOK /\ EventsOK /\ QueueOK /\ PlaceOK
  <2>1. SetsOK
    BY SessionAssumption DEF SetsOK
  <2>2. FlagsOK
    BY Zenon DEF FlagsOK
  <2>3. <<>> \in Seq({"up", "down"})
    OBVIOUS
  <2>4. EventsOK
    BY <2>3 DEF EventsOK
  <2>5. QueueOK /\ PlaceOK
    BY SessionAssumption DEF QueueOK, PlaceOK
  <2> QED  BY <2>1, <2>2, <2>4, <2>5
<1>2. ChanOK
  BY <1>0 DEF ChanOK
<1>3. WorkersOK
  BY FS_EmptySet DEF WorkersOK
<1>4. TypeInv
  BY <1>1, <1>2, <1>3, TypeParts
<1>5. PeerInv /\ EarlyInv /\ HandInv
  BY SessionAssumption DEF PeerInv, EarlyInv, HandInv
<1>6. ASSUME NEW h \in Heights PROVE Holders(h) = 0
  <2>1. Holding(h, todo) = 0 /\ Holding(h, reqCh) = 0 /\ Holding(h, result) = 0 /\ Holding(h, headers) = 0
    BY HoldingEmpty
  <2>2. One(In(h, hreq)) = 0
    BY SpanTypes DEF One
  <2>3. Carriers(workers, h) = {}
    BY DEF Carriers
  <2>4. Cardinality(Carriers(workers, h)) = 0
    BY <2>3, FS_EmptySet
  <2> QED  BY <1>4, <2>1, <2>2, <2>4, HoldersAre
<1>7. CountInv
  BY <1>6 DEF CountInv
<1> QED
  BY <1>4, <1>5, <1>7 DEF Inv

\* The invariant always holds.
LEMMA Invariance == SessionSpec => []Inv
<1>1. Init => Inv
  BY Start
<1>2. Inv /\ [Next]_vars => Inv'
  <2> SUFFICES ASSUME Inv, [Next]_vars PROVE Inv'
    OBVIOUS
  <2>1. TypeInv' /\ PeerInv' /\ EarlyInv' /\ HandInv'
    BY TypeStep, PeerStep, EarlyStep, HandStep DEF Inv
  <2>2. CountInv'
    BY <2>1, CountStep
  <2> QED  BY <2>1, <2>2, Zenon DEF Inv
<1> QED
  BY <1>1, <1>2, PTL DEF SessionSpec

-----------------------------------------------------------------------------
(* The session's variables keep their types: every request, answer and channel entry is a     *)
(* span of the range (prepareRequests, session.go), and neither channel ever holds more than  *)
(* one entry per request.                                                                      *)
THEOREM SessionTypes == SessionSpec => []SessionTypeOK
<1>1. Inv => SessionTypeOK
  BY DEF Inv, TypeInv
<1> QED
  BY <1>1, Invariance, PTL

(* No header of the range is lost or asked for twice, through bad, partial and missing answers *)
(* and peers that come and go, until the caller gives up or the exchange stops; and            *)
(* getRangeByHeight returns every header of the range exactly once.                            *)
THEOREM Conservation == SessionSpec => []NothingLost
<1>1. Inv => NothingLost
  BY DEF Inv, CountInv, NothingLost
<1> QED
  BY <1>1, Invariance, PTL

(* A peer is at most once in the queue, at work or waiting for its requeue timer: known        *)
(* (session.go) keeps addPeers from queueing a peer that is in use, and forgetPeer runs when   *)
(* the peer is nowhere else.                                                                   *)
THEOREM PeerOwnership == SessionSpec => []PeerOnce
<1>1. ASSUME Inv PROVE PeerOnce
  <2> SUFFICES ASSUME NEW p \in Peers
               PROVE  queue[p] + Cardinality({w \in workers : w.peer = p})
                          + (IF p \in delayed THEN 1 ELSE 0) <= 1
    BY DEF PeerOnce
  <2> DEFINE W == {w \in workers : w.peer = p}
  <2>1. PeerInv
    BY <1>1 DEF Inv
  <2>2. CASE W = {}
    <3>1. Cardinality(W) = 0
      BY <2>2, FS_EmptySet
    <3> QED  BY <2>1, <3>1 DEF PeerInv
  <2>3. CASE W # {}
    <3>1. PICK w : W = {w} /\ w \in workers /\ w.peer = p
      BY <2>1, <2>3 DEF PeerInv
    <3>2. Cardinality(W) = 1
      BY <3>1, FS_Singleton
    <3> QED  BY <2>1, <3>1, <3>2 DEF PeerInv
  <2> QED  BY <2>2, <2>3
<1> QED
  BY <1>1, Invariance, PTL
=============================================================================

--------------------------- MODULE CommandsProofs ---------------------------
(***************************************************************************)
(* Theorems about Commands, for every size of a packet, every set of       *)
(* headers the iterators and the host agree on, and every number of items. *)
(***************************************************************************)
EXTENDS Commands, SequenceTheorems, WellFoundedInduction, TLAPS

-----------------------------------------------------------------------------
(* Induction over the naturals, with a set for the property. *)

LEMMA SetInduction ==
    ASSUME NEW S \in SUBSET Nat, 0 \in S, \A n \in Nat : n \in S => n + 1 \in S
    PROVE  S = Nat
<1> DEFINE T == Nat \ S
           R == OpToRel(<, Nat)
<1>1. IsWellFoundedOn(R, Nat)
  BY NatLessThanWellFounded
<1>2. SUFFICES ASSUME T # {} PROVE FALSE
  OBVIOUS
<1>3. PICK x \in T : \A y \in T : ~(<<y, x>> \in R)
  <2> HIDE DEF R
  <2> QED
    BY <1>1, <1>2, WFMin
<1>4. \A y \in T : ~(y < x)
  BY <1>3 DEF OpToRel
<1>5. x \in Nat \ {0} /\ x - 1 \in Nat \ T
  BY <1>4
<1> QED
  BY <1>5

-----------------------------------------------------------------------------
(* What FlattenSeq, a recursive function inside, computes. *)

\* f[k] joins the first k sequences of q, for every k up to n.
Joins(q, n, f) == f[0] = <<>> /\ \A k \in 0..(n - 1) : f[k + 1] = f[k] \o q[k + 1]

LEMMA JoinsExist ==
    ASSUME NEW S, NEW q \in Seq(Seq(S))
    PROVE  \A n \in Nat : n <= Len(q) => \E f \in [Nat -> Seq(S)] : Joins(q, n, f)
<1> DEFINE I == {n \in Nat : n <= Len(q) => \E f \in [Nat -> Seq(S)] : Joins(q, n, f)}
<1>1. 0 \in I
  <2> DEFINE g == [k \in Nat |-> <<>>]
  <2>1. g \in [Nat -> Seq(S)] /\ Joins(q, 0, g)
    BY EmptySeq DEF Joins
  <2> QED
    BY <2>1
<1>2. ASSUME NEW m \in Nat, m + 1 <= Len(q), NEW f \in [Nat -> Seq(S)], Joins(q, m, f)
      PROVE  \E g \in [Nat -> Seq(S)] : Joins(q, m + 1, g)
  <2>1. PICK v \in Seq(S) : v = f[m] \o q[m + 1]
    <3>1. m + 1 \in 1..Len(q) /\ q[m + 1] \in Seq(S) /\ f[m] \in Seq(S)
      BY <1>2, LenProperties, ElementOfSeq
    <3> QED
      BY <3>1, ConcatProperties
  <2> DEFINE g == [k \in Nat |-> IF k = m + 1 THEN v ELSE f[k]]
  <2>2. g \in [Nat -> Seq(S)] /\ g[m + 1] = v /\ \A k \in 0..m : g[k] = f[k]
    OBVIOUS
  <2> HIDE DEF g
  <2>3. ASSUME NEW k \in 0..m PROVE g[k + 1] = g[k] \o q[k + 1]
    <3>1. CASE k = m
      BY <2>1, <2>2, <3>1
    <3>2. CASE k # m
      <4>1. k \in 0..(m - 1) /\ k + 1 \in 0..m
        BY <3>2
      <4> QED
        BY <1>2, <2>2, <4>1 DEF Joins
    <3> QED
      BY <3>1, <3>2
  <2>4. g[0] = <<>> /\ (m + 1) - 1 = m
    BY <1>2, <2>2 DEF Joins
  <2>5. Joins(q, m + 1, g)
    BY <2>3, <2>4 DEF Joins
  <2> QED
    BY <2>2, <2>5
<1>3. \A n \in Nat : n \in I <=> (n <= Len(q) => \E f \in [Nat -> Seq(S)] : Joins(q, n, f))
  OBVIOUS
<1>4. I = Nat
  <2>1. I \in SUBSET Nat /\ Len(q) \in Nat
    BY LenProperties
  <2> HIDE DEF I
  <2>2. ASSUME NEW m \in Nat, m \in I PROVE m + 1 \in I
    <3>1. CASE m + 1 <= Len(q)
      <4>1. m <= Len(q)
        BY <2>1, <3>1
      <4>2. PICK f \in [Nat -> Seq(S)] : Joins(q, m, f)
        BY <1>3, <2>2, <4>1
      <4>3. \E g \in [Nat -> Seq(S)] : Joins(q, m + 1, g)
        BY <1>2, <3>1, <4>2
      <4> QED
        BY <1>3, <4>3
    <3>2. CASE ~(m + 1 <= Len(q))
      BY <1>3, <3>2
    <3> QED
      BY <3>1, <3>2
  <2> QED
    BY <1>1, <2>1, <2>2, SetInduction
<1> QED
  BY <1>3, <1>4

LEMMA JoinsUnique ==
    ASSUME NEW q, NEW n \in Nat, NEW f, NEW g, Joins(q, n, f), Joins(q, n, g)
    PROVE  \A k \in 0..n : f[k] = g[k]
<1> DEFINE I == {j \in Nat : j <= n => f[j] = g[j]}
<1>1. I \in SUBSET Nat /\ 0 \in I
  BY DEF Joins
<1>2. ASSUME NEW m \in Nat, m \in I PROVE m + 1 \in I
  <2>1. CASE m + 1 <= n
    <3>1. m \in 0..(n - 1) /\ f[m] = g[m]
      BY <1>2, <2>1
    <3>2. f[m + 1] = g[m + 1]
      BY <3>1 DEF Joins
    <3> QED
      BY <3>2
  <2>2. CASE ~(m + 1 <= n)
    BY <2>2
  <2> QED
    BY <2>1, <2>2
<1>3. \A j \in Nat : j \in I <=> (j <= n => f[j] = g[j])
  OBVIOUS
<1> HIDE DEF I
<1>4. I = Nat
  BY <1>1, <1>2, SetInduction
<1> QED
  BY <1>3, <1>4

\* FlattenSeq joins all the sequences of its argument.
LEMMA FlattenJoins ==
    ASSUME NEW S, NEW q \in Seq(Seq(S)), NEW f \in [Nat -> Seq(S)], Joins(q, Len(q), f)
    PROVE  FlattenSeq(q) = f[Len(q)]
<1> DEFINE Rec(e) == e = [i \in 1..Len(q) |-> IF i = 1 THEN q[i] ELSE e[i - 1] \o q[i]]
<1>1. Len(q) \in Nat /\ \A k \in 1..Len(q) : q[k] \in Seq(S)
  BY LenProperties, ElementOfSeq
<1>2. CASE Len(q) = 0
  <2>1. q = <<>>
    BY <1>2, EmptySeq
  <2>2. FlattenSeq(q) = q
    BY <1>2 DEF FlattenSeq
  <2> QED
    BY <1>2, <2>1, <2>2 DEF Joins
<1>3. CASE Len(q) > 0
  <2> DEFINE r == [i \in 1..Len(q) |-> f[i]]
  <2>1. \A i \in 1..Len(q) : f[i] = IF i = 1 THEN q[i] ELSE r[i - 1] \o q[i]
    <3> SUFFICES ASSUME NEW i \in 1..Len(q)
                 PROVE  f[i] = IF i = 1 THEN q[i] ELSE r[i - 1] \o q[i]
      OBVIOUS
    <3>1. i - 1 \in 0..(Len(q) - 1) /\ (i - 1) + 1 = i
      BY <1>1
    <3>2. f[i] = f[i - 1] \o q[i]
      BY <3>1 DEF Joins
    <3>3. CASE i = 1
      <4>1. f[0] = <<>> /\ q[1] \in Seq(S) /\ i - 1 = 0
        BY <1>1, <3>3 DEF Joins
      <4>2. <<>> \o q[1] = q[1]
        BY <4>1, ConcatEmptySeq
      <4>3. f[i] = <<>> \o q[1]
        BY <3>2, <3>3, <4>1, Zenon
      <4> QED
        BY <3>3, <4>2, <4>3
    <3>4. CASE i # 1
      <4>1. i - 1 \in 1..Len(q)
        BY <1>1, <3>4
      <4> QED
        BY <3>2, <3>4, <4>1
    <3> QED
      BY <3>3, <3>4
  <2>2. Rec(r)
    BY <2>1
  <2> DEFINE e == CHOOSE e : Rec(e)
  <2>3. Rec(e)
    <3> HIDE DEF Rec, r
    <3> QED
      BY <2>2
  <2>4. FlattenSeq(q) = e[Len(q)]
    BY <1>3 DEF FlattenSeq
  <2> HIDE DEF e
  <2> DEFINE g == [k \in Nat |-> IF k = 0 THEN <<>> ELSE e[k]]
  <2>5. Joins(q, Len(q), g)
    <3>1. g[0] = <<>>
      OBVIOUS
    <3>2. ASSUME NEW k \in 0..(Len(q) - 1) PROVE g[k + 1] = g[k] \o q[k + 1]
      <4>1. k + 1 \in 1..Len(q) /\ k + 1 \in Nat /\ k + 1 # 0 /\ (k + 1) - 1 = k
        BY <1>1
      <4>2. g[k + 1] = e[k + 1]
        BY <4>1
      <4>3. e[k + 1] = IF k + 1 = 1 THEN q[k + 1] ELSE e[(k + 1) - 1] \o q[k + 1]
        BY <2>3, <4>1
      <4>4. CASE k = 0
        <5>1. q[1] \in Seq(S) /\ k + 1 = 1 /\ g[k] = <<>>
          BY <1>1, <3>1, <4>1, <4>4
        <5>2. <<>> \o q[1] = q[1]
          BY <5>1, ConcatEmptySeq
        <5>3. e[k + 1] = q[1]
          BY <4>3, <5>1
        <5> HIDE DEF g
        <5> QED
          BY <4>2, <5>1, <5>2, <5>3
      <4>5. CASE k # 0
        <5>1. k + 1 # 1 /\ g[k] = e[k]
          BY <4>5
        <5> HIDE DEF g
        <5> QED
          BY <4>1, <4>2, <4>3, <5>1
      <4> QED
        BY <4>4, <4>5
    <3> HIDE DEF g
    <3> QED
      BY <3>1, <3>2 DEF Joins
  <2>6. g[Len(q)] = f[Len(q)]
    <3> HIDE DEF g, Rec
    <3> QED
      BY <1>1, <2>5, JoinsUnique
  <2> QED
    BY <1>1, <1>3, <2>4, <2>6
<1> QED
  BY <1>1, <1>2, <1>3

LEMMA FlattenEmpty == FlattenSeq(<<>>) = <<>>
BY EmptySeq DEF FlattenSeq

\* One sequence more is joined to the others.
LEMMA FlattenAppend ==
    ASSUME NEW S, NEW q \in Seq(Seq(S)), NEW s \in Seq(S)
    PROVE  /\ FlattenSeq(q) \in Seq(S)
           /\ FlattenSeq(Append(q, s)) = FlattenSeq(q) \o s
<1> DEFINE t == Append(q, s)
<1>1. /\ Len(q) \in Nat /\ t \in Seq(Seq(S)) /\ Len(t) = Len(q) + 1
      /\ t[Len(q) + 1] = s /\ \A k \in 1..Len(q) : t[k] = q[k]
  BY LenProperties, AppendProperties
<1> HIDE DEF t
<1>2. PICK f \in [Nat -> Seq(S)] : Joins(t, Len(t), f)
  <2>1. Len(t) \in Nat /\ Len(t) <= Len(t)
    BY <1>1
  <2>2. \A n \in Nat : n <= Len(t) => \E f \in [Nat -> Seq(S)] : Joins(t, n, f)
    BY <1>1, JoinsExist
  <2> QED
    BY <2>1, <2>2
<1>3. Joins(q, Len(q), f)
  <2>1. ASSUME NEW k \in 0..(Len(q) - 1) PROVE f[k + 1] = f[k] \o q[k + 1]
    <3>1. k \in 0..(Len(t) - 1) /\ k + 1 \in 1..Len(q)
      BY <1>1
    <3> QED
      BY <1>1, <1>2, <3>1 DEF Joins
  <2> QED
    BY <1>2, <2>1 DEF Joins
<1>4. FlattenSeq(q) = f[Len(q)] /\ FlattenSeq(t) = f[Len(t)]
  BY <1>1, <1>2, <1>3, FlattenJoins
<1>5. f[Len(t)] = f[Len(q)] \o s
  <2>1. Len(q) \in 0..(Len(t) - 1)
    BY <1>1
  <2> QED
    BY <1>1, <1>2, <2>1 DEF Joins
<1> QED
  BY <1>1, <1>4, <1>5 DEF t

\* The first k sequences of q, joined.
First(q, k) == FlattenSeq(SubSeq(q, 1, k))

LEMMA FirstFacts ==
    ASSUME NEW S, NEW q \in Seq(Seq(S))
    PROVE  /\ Len(q) \in Nat /\ First(q, 0) = <<>> /\ First(q, Len(q)) = FlattenSeq(q)
           /\ \A k \in 0..Len(q) : First(q, k) \in Seq(S)
           /\ \A k \in 0..(Len(q) - 1) :
                /\ SubSeq(q, 1, k + 1) = Append(SubSeq(q, 1, k), q[k + 1])
                /\ First(q, k + 1) = First(q, k) \o q[k + 1]
<1>1. Len(q) \in Nat /\ \A k \in 1..Len(q) : q[k] \in Seq(S)
  BY LenProperties, ElementOfSeq
<1>2. First(q, 0) = <<>>
  <2>1. SubSeq(q, 1, 0) = <<>>
    BY SubSeqEmpty
  <2> QED
    BY <2>1, FlattenEmpty DEF First
<1>3. First(q, Len(q)) = FlattenSeq(q)
  BY SubSeqFull DEF First
<1>4. ASSUME NEW k \in 0..Len(q) PROVE SubSeq(q, 1, k) \in Seq(Seq(S))
  <2>1. \A i \in 1..k : q[i] \in Seq(S)
    BY <1>1
  <2> QED
    BY <1>1, <2>1, SubSeqProperties
<1>5. ASSUME NEW k \in 0..Len(q) PROVE First(q, k) \in Seq(S)
  BY <1>4, EmptySeq, FlattenAppend DEF First
<1>6. ASSUME NEW k \in 0..(Len(q) - 1)
      PROVE  /\ SubSeq(q, 1, k + 1) = Append(SubSeq(q, 1, k), q[k + 1])
             /\ First(q, k + 1) = First(q, k) \o q[k + 1]
  <2>1. /\ k + 1 \in 1..Len(q) /\ q[k + 1] \in Seq(S) /\ 1 \in 1..Len(q)
        /\ k + 1 \in 1..Len(q) /\ (k + 1) - 1 = k /\ k \in 0..Len(q)
    BY <1>1
  <2>2. SubSeq(q, 1, k + 1) = SubSeq(q, 1, (k + 1) - 1) \o <<q[k + 1]>>
    BY <2>1, SubSeqRecursiveSecond
  <2>3. Append(SubSeq(q, 1, k), q[k + 1]) = SubSeq(q, 1, k) \o <<q[k + 1]>>
    BY <1>4, <2>1, AppendIsConcat
  <2>4. SubSeq(q, 1, k + 1) = Append(SubSeq(q, 1, k), q[k + 1])
    BY <2>1, <2>2, <2>3
  <2>5. FlattenSeq(Append(SubSeq(q, 1, k), q[k + 1])) = FlattenSeq(SubSeq(q, 1, k)) \o q[k + 1]
    BY <1>4, <2>1, FlattenAppend
  <2> QED
    BY <2>4, <2>5 DEF First
<1> QED
  BY <1>1, <1>2, <1>3, <1>5, <1>6

\* Every sequence is found again where those before it end.
LEMMA FlattenPlaces ==
    ASSUME NEW S, NEW q \in Seq(Seq(S)), NEW m \in 0..(Len(q) - 1)
    PROVE  LET start == Len(First(q, m))
           IN  /\ start + Len(q[m + 1]) <= Len(FlattenSeq(q))
               /\ \A i \in 1..Len(q[m + 1]) : FlattenSeq(q)[start + i] = q[m + 1][i]
<1> DEFINE start == Len(First(q, m))
           item == q[m + 1]
           Place(s) == /\ start + Len(item) <= Len(s)
                       /\ \A i \in 1..Len(item) : s[start + i] = item[i]
           I == {j \in Nat : m + 1 + j <= Len(q) => Place(First(q, m + 1 + j))}
<1>1. /\ Len(q) \in Nat /\ item \in Seq(S) /\ Len(item) \in Nat
      /\ First(q, m) \in Seq(S) /\ start \in Nat
      /\ \A k \in 0..Len(q) : First(q, k) \in Seq(S)
      /\ \A k \in 0..(Len(q) - 1) : First(q, k + 1) = First(q, k) \o q[k + 1]
  <2>1. Len(q) \in Nat
    BY LenProperties
  <2>2. m + 1 \in 1..Len(q) /\ m \in 0..Len(q)
    BY <2>1
  <2>3. item \in Seq(S) /\ First(q, m) \in Seq(S)
    BY <2>2, ElementOfSeq, FirstFacts
  <2> QED
    BY <2>1, <2>3, FirstFacts, LenProperties
<1>2. ASSUME NEW s \in Seq(S), NEW t \in Seq(S), Place(s) PROVE Place(s \o t)
  <2>1. /\ Len(s) \in Nat /\ Len(t) \in Nat /\ Len(s \o t) = Len(s) + Len(t)
        /\ \A i \in 1..Len(s) : (s \o t)[i] = s[i]
    BY ConcatProperties, LenProperties
  <2>2. ASSUME NEW i \in 1..Len(item) PROVE start + i \in 1..Len(s)
    BY <1>1, <1>2, <2>1
  <2>3. start + Len(item) <= Len(s \o t)
    BY <1>1, <1>2, <2>1
  <2> HIDE DEF start, item
  <2> QED
    BY <1>2, <2>1, <2>2, <2>3
<1>3. Place(First(q, m + 1))
  <2>1. First(q, m + 1) = First(q, m) \o item
    BY <1>1
  <2>2. /\ Len(First(q, m) \o item) = start + Len(item)
        /\ \A i \in 1..(start + Len(item)) :
              (First(q, m) \o item)[i] = IF i <= start THEN First(q, m)[i] ELSE item[i - start]
    BY <1>1, ConcatProperties
  <2> HIDE DEF start, item
  <2>3. ASSUME NEW i \in 1..Len(item) PROVE (First(q, m) \o item)[start + i] = item[i]
    <3>1. /\ start + i \in 1..(start + Len(item)) /\ ~(start + i <= start)
          /\ (start + i) - start = i
      BY <1>1
    <3> QED
      BY <2>2, <3>1
  <2>4. start + Len(item) <= Len(First(q, m) \o item)
    BY <1>1, <2>2
  <2>5. Place(First(q, m) \o item)
    BY <2>3, <2>4
  <2> HIDE DEF Place
  <2> QED
    BY <2>1, <2>5
<1> HIDE DEF Place
<1>4. I \in SUBSET Nat /\ 0 \in I
  BY <1>3
<1>5. ASSUME NEW j \in Nat, j \in I PROVE j + 1 \in I
  <2>1. CASE m + 1 + (j + 1) <= Len(q)
    <3>1. /\ m + 1 + j \in 0..(Len(q) - 1) /\ (m + 1 + j) + 1 = m + 1 + (j + 1)
          /\ (m + 1 + j) + 1 \in 1..Len(q) /\ m + 1 + j \in 0..Len(q)
      BY <1>1, <2>1
    <3>2. Place(First(q, m + 1 + j))
      BY <1>5, <3>1
    <3>3. q[(m + 1 + j) + 1] \in Seq(S) /\ First(q, m + 1 + j) \in Seq(S)
      BY <1>1, <3>1, ElementOfSeq
    <3>4. Place(First(q, m + 1 + j) \o q[(m + 1 + j) + 1])
      BY <1>2, <3>2, <3>3
    <3>5. Place(First(q, (m + 1 + j) + 1))
      BY <1>1, <3>1, <3>4
    <3> QED
      BY <3>1, <3>5
  <2>2. CASE ~(m + 1 + (j + 1) <= Len(q))
    BY <2>2
  <2> QED
    BY <2>1, <2>2
<1>6. \A j \in Nat : j \in I <=> (m + 1 + j <= Len(q) => Place(First(q, m + 1 + j)))
  OBVIOUS
<1>7. I = Nat
  <2> HIDE DEF I
  <2> QED
    BY <1>4, <1>5, SetInduction
<1>8. Place(FlattenSeq(q))
  <2>1. /\ Len(q) - m - 1 \in Nat /\ m + 1 + (Len(q) - m - 1) = Len(q)
        /\ Len(q) <= Len(q)
    BY <1>1
  <2>2. Place(First(q, m + 1 + (Len(q) - m - 1)))
    <3> HIDE DEF I
    <3> QED
      BY <1>6, <1>7, <2>1
  <2> QED
    BY <2>1, <2>2, FirstFacts
<1> QED
  BY <1>8 DEF Place

-----------------------------------------------------------------------------
(* The invariant. *)

\* The headers a host may use: no value match, which the iterator misreads (see
\* MCCommandsMatch.cfg), no match mask with a timestamp, of which the handler
\* makes none, and no SWD sequence of 64 bits, which its iterator has no data for.
ProperHeaders ==
    /\ \A h \in Headers["Transfer"] :
         ~IsValueMatch(h) /\ (IsMatchMask(h) => ~IsRead(h) /\ ~HasTimestamp(h))
    /\ \A h \in Headers["SWDSequence"] : SeqBits(h) # 0

Parts == {"data", "timestamp", "stale"}
Marks == [item : Nat, part : Parts, byte : Nat]
Answers == [id : Nat, ok : BOOLEAN, data : Seq(Marks)]
Orders == [type : DOMAIN Formats, items : Seq(Seq(Nat)), whole : BOOLEAN]

TypeOK ==
    /\ pc \in {"idle", "received", "items", "done", "answered", "panicked"}
    /\ pc # "idle" => sent \in Orders
    /\ payload \in Seq(Nat) /\ index \in Nat /\ left \in Nat
    /\ taken \in Seq(Seq(Nat))
    /\ pc \notin {"idle", "received", "panicked"} => answer \in Answers

\* What the host wrote, all of it.
Whole == Before(sent.type, Len(sent.items)) \o FlattenSeq(sent.items)

\* The packet is what the host wrote, up to where it is cut.
Arrived ==
    pc # "idle" =>
        IF sent.type \in Itemised
        THEN /\ \A k \in 1..Len(sent.items) : sent.items[k] \in Items(sent.type)
             /\ Len(payload) <= Len(Whole) /\ Len(Whole) <= Room
             /\ \A i \in 1..Len(payload) : payload[i] = Whole[i]
             /\ sent.whole => Len(payload) = Len(Whole)
        ELSE pc \in {"received", "answered", "panicked"} /\ sent.items = <<>>

\* The items taken are the first ones, and the iterator stands behind them.
InStep ==
    /\ pc # "idle" => Len(taken) <= Len(sent.items) /\ taken = SubSeq(sent.items, 1, Len(taken))
    /\ pc \in {"idle", "received"} => taken = <<>>
    /\ pc \in {"items", "done"} => sent.type \in Itemised
    /\ pc = "items" =>
          /\ left = Len(sent.items) - Len(taken)
          /\ index = Len(Before(sent.type, 0)) + Len(First(sent.items, Len(taken))) + 1

\* The answer holds what the host awaits for the items taken, or is too short, and
\* no capture of a JTAG sequence is longer than what was sent for it.
Laid ==
    pc \in {"items", "done"} =>
        LET awaited == AwaitedOf(taken)
        IN  /\ answer.ok /\ Len(answer.data) + Begin(sent.type) <= Room
            /\ \/ answer.data = awaited
               \/ /\ sent.type = "SWDSequence" /\ Len(answer.data) < Len(awaited)
                  /\ Len(awaited) + Begin(sent.type) > Room
            /\ sent.type = "JTAGSequence" /\ pc = "items" =>
                  Len(answer.data) + Len(taken) + 2 <= index

IInv == TypeOK /\ Arrived /\ InStep /\ Laid /\ AnswersInPlace

-----------------------------------------------------------------------------
(* The headers and the formats. *)

LEMMA SizeFacts ==
    /\ PacketSize \in Nat /\ VersionSize \in Nat /\ Room \in Nat /\ Room >= 15
    /\ VersionSize + 1 <= Room
    /\ MaxItems \in Nat /\ OtherBytes \subseteq Nat /\ DataBytes \subseteq Nat
    /\ \A type \in Itemised : Headers[type] \subseteq Nat
BY CommandAssumption DEF Room, Byte

LEMMA BitFacts ==
    /\ \A bits \in Nat : ByteCount(bits) \in Nat /\ (bits > 0 => ByteCount(bits) > 0)
    /\ \A h \in Nat : SeqBits(h) \in Nat /\ Or64(SeqBits(h)) \in Nat
BY DEF ByteCount, SeqBits, Or64

LEMMA ItemisedFacts ==
    /\ Itemised \subseteq DOMAIN Formats
    /\ Begin("Transfer") = 2 /\ Begin("SWDSequence") = 1 /\ Begin("JTAGSequence") = 1
    /\ \A type \in Itemised : Begin(type) \in Nat
BY DEF Itemised, Begin, Formats, Format, Transfer, SWDSequence, JTAGSequence

LEMMA FormatFacts ==
    \A type \in DOMAIN Formats :
        Formats[type].id \in Nat /\ Begin(type) \in 0..5 /\ Formats[type].request \in Nat
BY DEF Begin, Formats, Format, Info, HostStatus, Connect, Disconnect, TransferConfigure,
   TransferBlock, WriteAbort, Delay, ResetTarget, SWJPins, SWJClock, SWJSequence, SWDConfigure,
   JTAGConfigure, JTAGIDCode, SWOTransport, SWOMode, SWOBaudrate, SWOControl, SWOStatus, SWOData,
   SWOExtendedStatus, Transfer, JTAGSequence, SWDSequence

LEMMA BytesFacts ==
    ASSUME NEW item \in Nat, NEW part \in Parts, NEW n \in Nat
    PROVE  Bytes(item, part, n) \in Seq(Marks) /\ Len(Bytes(item, part, n)) = n
<1> DEFINE mark(b) == [item |-> item, part |-> part, byte |-> b]
<1>1. \A b \in 1..n : mark(b) \in Marks
  BY DEF Marks
<1> HIDE DEF mark
<1>2. [b \in 1..n |-> mark(b)] \in Seq(Marks) /\ Len([b \in 1..n |-> mark(b)]) = n
  BY <1>1
<1> QED
  BY <1>2 DEF Bytes, mark

\* What the host sends with a header is a number of bytes.
LEMMA HostDataFacts ==
    ASSUME NEW type \in Itemised, NEW h \in Nat
    PROVE  HostData(type, h) \in Nat /\ DataLen(type, h) \in Nat
BY BitFacts DEF Itemised, HostData, DataLen, TransferData, SwdData, JtagData

\* The iterators and the host agree on the data of an item.
LEMMA DataAgreed ==
    ASSUME ProperHeaders, NEW type \in Itemised, NEW h \in Headers[type]
    PROVE  DataLen(type, h) = HostData(type, h)
<1>1. CASE type = "Transfer"
  <2>1. ~IsValueMatch(h) /\ (IsMatchMask(h) => ~IsRead(h))
    BY <1>1 DEF ProperHeaders
  <2> QED
    BY <1>1, <2>1 DEF DataLen, TransferData, HostData
<1>2. CASE type = "SWDSequence"
  <2>1. SeqBits(h) # 0
    BY <1>2 DEF ProperHeaders
  <2> QED
    BY <1>2, <2>1 DEF DataLen, SwdData, HostData, Or64
<1>3. CASE type = "JTAGSequence"
  BY <1>3 DEF DataLen, JtagData, HostData
<1> QED
  BY <1>1, <1>2, <1>3 DEF Itemised

LEMMA ItemFacts ==
    ASSUME NEW type \in Itemised, NEW x \in Items(type)
    PROVE  /\ x \in Seq(Nat) /\ x[1] \in Headers[type] /\ x[1] \in Nat
           /\ Len(x) = HostData(type, x[1]) + 1
<1>1. PICK h \in Headers[type], d \in DataBytes : x = Item(type, h, d)
  BY DEF Items
<1>2. h \in Nat /\ d \in Nat /\ HostData(type, h) \in Nat
  BY SizeFacts, HostDataFacts
<1> DEFINE n == HostData(type, h)
           t == [k \in 1..n |-> d]
<1>3. t \in Seq(Nat) /\ Len(t) = n
  <2> HIDE DEF n
  <2> QED
    BY <1>2 DEF n
<1>4. <<h>> \in Seq(Nat) /\ Len(<<h>>) = 1 /\ <<h>>[1] = h
  BY <1>2
<1> HIDE DEF t, n
<1>5. x = <<h>> \o t
  BY <1>1 DEF Item, t, n
<1>6. /\ x \in Seq(Nat) /\ Len(x) = 1 + n /\ x[1] = h
  <2>1. /\ <<h>> \o t \in Seq(Nat) /\ Len(<<h>> \o t) = Len(<<h>>) + Len(t)
        /\ \A i \in 1..(Len(<<h>>) + Len(t)) :
              (<<h>> \o t)[i] = IF i <= Len(<<h>>) THEN <<h>>[i] ELSE t[i - Len(<<h>>)]
    BY <1>3, <1>4, ConcatProperties
  <2>2. 1 \in 1..(1 + n)
    BY <1>2 DEF n
  <2> QED
    BY <1>3, <1>4, <1>5, <2>1, <2>2
<1> QED
  BY <1>2, <1>6 DEF n

\* What the host awaits for an item.
LEMMA AwaitsFacts ==
    ASSUME NEW type \in Itemised, NEW h \in Nat, NEW item \in Nat
    PROVE  Awaits(type, h, item) \in Seq(Marks)
<1>1. \A n \in Nat : /\ Bytes(item, "timestamp", n) \in Seq(Marks)
                     /\ Bytes(item, "data", n) \in Seq(Marks)
  BY BytesFacts DEF Parts
<1>2. \A c \in BOOLEAN, s \in Seq(Marks) : If(c, s) \in Seq(Marks)
  BY EmptySeq DEF If
<1>3. HasTimestamp(h) \in BOOLEAN /\ IsInput(h) \in BOOLEAN
  BY DEF HasTimestamp, IsInput, Flag
<1>4. CASE type = "Transfer"
  <2>1. /\ If(HasTimestamp(h), Bytes(item, "timestamp", 4)) \in Seq(Marks)
        /\ If(IsRead(h) /\ ~IsValueMatch(h), Bytes(item, "data", 4)) \in Seq(Marks)
    BY <1>1, <1>2, <1>3 DEF IsRead, IsValueMatch, Flag
  <2> QED
    BY <1>4, <2>1, ConcatProperties DEF Awaits
<1>5. CASE type # "Transfer"
  <2>1. ByteCount(Or64(SeqBits(h))) \in Nat
    BY BitFacts
  <2>2. If(IsInput(h), Bytes(item, "data", ByteCount(Or64(SeqBits(h))))) \in Seq(Marks)
    BY <1>1, <1>2, <1>3, <2>1
  <2> QED
    BY <1>5, <2>2 DEF Awaits
<1> QED
  BY <1>4, <1>5

\* What is awaited for one item more.
LEMMA AwaitedAppend ==
    ASSUME sent.type \in Itemised, NEW t \in Seq(Seq(Nat)), NEW x \in Seq(Nat),
           \A k \in 1..Len(t) : t[k][1] \in Nat, x[1] \in Nat
    PROVE  /\ AwaitedOf(t) \in Seq(Marks)
           /\ Awaits(sent.type, x[1], Len(t) + 1) \in Seq(Marks)
           /\ AwaitedOf(Append(t, x)) = AwaitedOf(t) \o Awaits(sent.type, x[1], Len(t) + 1)
<1> DEFINE aw(h, k) == Awaits(sent.type, h, k)
           of(q) == [k \in DOMAIN q |-> aw(q[k][1], k)]
           u == Append(t, x)
<1>1. /\ Len(t) \in Nat /\ u \in Seq(Seq(Nat)) /\ Len(u) = Len(t) + 1
      /\ u[Len(t) + 1] = x /\ \A k \in 1..Len(t) : u[k] = t[k]
      /\ DOMAIN t = 1..Len(t) /\ DOMAIN u = 1..(Len(t) + 1)
  <2>1. /\ Len(t) \in Nat /\ u \in Seq(Seq(Nat)) /\ Len(u) = Len(t) + 1
        /\ u[Len(t) + 1] = x /\ \A k \in 1..Len(t) : u[k] = t[k]
    BY LenProperties, AppendProperties
  <2> HIDE DEF u
  <2> QED
    BY <2>1, LenProperties
<1>2. \A h \in Nat, k \in Nat : aw(h, k) \in Seq(Marks)
  BY AwaitsFacts
<1>7. AwaitedOf(t) = FlattenSeq(of(t)) /\ AwaitedOf(u) = FlattenSeq(of(u))
  BY DEF AwaitedOf
<1> HIDE DEF u, aw
<1>3. of(t) \in Seq(Seq(Marks)) /\ Len(of(t)) = Len(t)
  <2>1. ASSUME NEW k \in 1..Len(t) PROVE aw(t[k][1], k) \in Seq(Marks)
    <3>1. k \in Nat
      BY <1>1
    <3>2. t[k][1] \in Nat
      BY Zenon
    <3> QED
      BY <1>2, <3>1, <3>2, Zenon
  <2> QED
    BY <1>1, <2>1
<1>4. aw(x[1], Len(t) + 1) \in Seq(Marks)
  <2>1. Len(t) + 1 \in Nat
    BY <1>1
  <2> QED
    BY <1>2, <2>1, Zenon
<1>5. of(u) = Append(of(t), aw(x[1], Len(t) + 1))
  <2>1. of(u) \in Seq(Seq(Marks)) /\ Len(of(u)) = Len(t) + 1
    <3>1. ASSUME NEW k \in 1..(Len(t) + 1) PROVE aw(u[k][1], k) \in Seq(Marks)
      <4>1. k \in Nat /\ (k \in 1..Len(t) \/ k = Len(t) + 1)
        BY <1>1
      <4>2. u[k][1] \in Nat
        BY <1>1, <4>1, Zenon
      <4> QED
        BY <1>2, <4>1, <4>2, Zenon
    <3> QED
      BY <1>1, <3>1
  <2> DEFINE v == Append(of(t), aw(x[1], Len(t) + 1))
  <2>2. /\ v \in Seq(Seq(Marks)) /\ Len(v) = Len(t) + 1
        /\ \A k \in 1..Len(t) : v[k] = of(t)[k]
        /\ v[Len(t) + 1] = aw(x[1], Len(t) + 1)
    <3> HIDE DEF of
    <3> QED
      BY <1>3, <1>4, AppendProperties
  <2> HIDE DEF v
  <2>3. ASSUME NEW k \in 1..(Len(t) + 1) PROVE of(u)[k] = v[k]
    <3>1. of(u)[k] = aw(u[k][1], k)
      BY <1>1
    <3>2. CASE k \in 1..Len(t)
      <4>1. of(t)[k] = aw(t[k][1], k)
        BY <1>1, <3>2
      <4> HIDE DEF of
      <4> QED
        BY <1>1, <2>2, <3>1, <3>2, <4>1
    <3>3. CASE k = Len(t) + 1
      <4> HIDE DEF of
      <4> QED
        BY <1>1, <2>2, <3>1, <3>3
    <3> QED
      BY <1>1, <3>2, <3>3
  <2> HIDE DEF of
  <2>4. of(u) = v
    BY <2>1, <2>2, <2>3, SeqEqual
  <2> QED
    BY <2>4 DEF v
<1> HIDE DEF of
<1>6. FlattenSeq(of(u)) = FlattenSeq(of(t)) \o aw(x[1], Len(t) + 1) /\ FlattenSeq(of(t)) \in Seq(Marks)
  BY <1>3, <1>4, <1>5, FlattenAppend
<1> QED
  BY <1>4, <1>6, <1>7 DEF u, aw

-----------------------------------------------------------------------------
(* The items in the packet. *)

LEMMA WholeFacts ==
    ASSUME TypeOK, Arrived, pc # "idle", sent.type \in Itemised
    PROVE  LET b == Len(Before(sent.type, 0))
               flat == FlattenSeq(sent.items)
           IN  /\ b \in 1..2 /\ Len(sent.items) \in Nat /\ sent.items \in Seq(Seq(Nat))
               /\ flat \in Seq(Nat) /\ Whole \in Seq(Nat) /\ Len(Whole) = b + Len(flat)
               /\ Whole[b] = Len(sent.items)
               /\ \A i \in 1..Len(flat) : Whole[b + i] = flat[i]
<1> DEFINE b == Len(Before(sent.type, 0))
           flat == FlattenSeq(sent.items)
           n == Len(sent.items)
<1>1. sent.items \in Seq(Seq(Nat)) /\ n \in Nat
  BY LenProperties DEF TypeOK, Orders
<1>2. flat \in Seq(Nat) /\ Len(flat) \in Nat
  BY <1>1, EmptySeq, FlattenAppend, LenProperties
<1> DEFINE before == Before(sent.type, n)
<1>3. before \in Seq(Nat) /\ Len(before) = b /\ b \in 1..2 /\ before[b] = n
  <2> HIDE DEF n
  <2> QED
    BY <1>1 DEF Before, n
<1> HIDE DEF before, flat, b, n
<1>4. /\ before \o flat \in Seq(Nat) /\ Len(before \o flat) = b + Len(flat)
      /\ \A i \in 1..(b + Len(flat)) : (before \o flat)[i] = IF i <= b THEN before[i] ELSE flat[i - b]
  BY <1>2, <1>3, ConcatProperties
<1>5. \A i \in 1..Len(flat) : (before \o flat)[b + i] = flat[i]
  <2> SUFFICES ASSUME NEW i \in 1..Len(flat) PROVE (before \o flat)[b + i] = flat[i]
    OBVIOUS
  <2>1. b + i \in 1..(b + Len(flat)) /\ ~(b + i <= b) /\ (b + i) - b = i
    BY <1>2, <1>3
  <2> QED
    BY <1>4, <2>1
<1>6. (before \o flat)[b] = n
  <2>1. b \in 1..(b + Len(flat)) /\ b <= b
    BY <1>2, <1>3
  <2> QED
    BY <1>3, <1>4, <2>1
<1>7. Whole = before \o flat
  BY DEF Whole, before, flat, n
<1> QED
  BY <1>1, <1>2, <1>3, <1>4, <1>5, <1>6, <1>7 DEF b, flat, n

\* The item the iterator finds is the one the host wrote next.
LEMMA NextItemIsSent ==
    ASSUME ProperHeaders, TypeOK, Arrived, InStep, pc = "items", HasNext
    PROVE  LET m == Len(taken)
               x == sent.items[m + 1]
           IN  /\ m \in Nat /\ m + 1 <= Len(sent.items)
               /\ NextItem = x /\ NextHeader = x[1]
               /\ x \in Items(sent.type) /\ x \in Seq(Nat)
               /\ x[1] \in Headers[sent.type] /\ x[1] \in Nat
               /\ Len(x) = HostData(sent.type, x[1]) + 1
               /\ DataLen(sent.type, x[1]) = HostData(sent.type, x[1])
               /\ index + Len(x) - 1 <= Len(payload)
               /\ Append(taken, x) = SubSeq(sent.items, 1, m + 1)
               /\ Len(First(sent.items, m + 1)) = Len(First(sent.items, m)) + Len(x)
               /\ Len(First(sent.items, m)) \in Nat
<1> DEFINE m == Len(taken)
           type == sent.type
           items == sent.items
           n == Len(items)
           x == items[m + 1]
           b == Len(Before(type, 0))
           flat == FlattenSeq(items)
           start == Len(First(items, m))
<1>1. /\ type \in Itemised /\ items \in Seq(Seq(Nat)) /\ n \in Nat /\ b \in 1..2
      /\ flat \in Seq(Nat) /\ Len(Whole) = b + Len(flat)
      /\ \A i \in 1..Len(flat) : Whole[b + i] = flat[i]
  BY WholeFacts DEF InStep
<1>2. /\ \A k \in 1..n : items[k] \in Items(type)
      /\ Len(payload) <= Len(Whole)
      /\ \A i \in 1..Len(payload) : payload[i] = Whole[i]
  BY <1>1 DEF Arrived
<1>3. /\ m \in Nat /\ payload \in Seq(Nat) /\ Len(payload) \in Nat /\ Len(flat) \in Nat
      /\ taken = SubSeq(items, 1, m) /\ left = n - m /\ index = b + start + 1
      /\ left > 0 /\ index <= Len(payload)
      /\ index + DataLen(type, NextHeader) <= Len(payload)
  <2>1. m \in Nat /\ Len(payload) \in Nat /\ Len(flat) \in Nat
    BY <1>1, LenProperties DEF TypeOK
  <2> QED
    BY <2>1 DEF TypeOK, InStep, HasNext, NextHeader
<1> HIDE DEF m, n, b, flat, start, x
<1>4. m \in 0..(n - 1) /\ m + 1 \in 1..n
  BY <1>1, <1>3
<1>5. /\ x \in Items(type) /\ x \in Seq(Nat) /\ x[1] \in Headers[type] /\ x[1] \in Nat
      /\ HostData(type, x[1]) \in Nat /\ Len(x) = HostData(type, x[1]) + 1
      /\ DataLen(type, x[1]) = HostData(type, x[1])
  <2>1. x \in Items(type)
    BY <1>2, <1>4 DEF x
  <2>2. x \in Seq(Nat) /\ x[1] \in Headers[type] /\ x[1] \in Nat /\ Len(x) = HostData(type, x[1]) + 1
    BY <1>1, <2>1, ItemFacts
  <2> QED
    BY <1>1, <2>1, <2>2, HostDataFacts, DataAgreed
<1>6. /\ start + Len(x) <= Len(flat)
      /\ \A i \in 1..Len(x) : flat[start + i] = x[i]
  BY <1>1, <1>4, FlattenPlaces DEF n, flat, start, x
<1>7. /\ start \in Nat /\ SubSeq(items, 1, m + 1) = Append(SubSeq(items, 1, m), x)
      /\ Len(First(items, m + 1)) = start + Len(x)
  <2>1. /\ First(items, m) \in Seq(Nat)
        /\ SubSeq(items, 1, m + 1) = Append(SubSeq(items, 1, m), x)
        /\ First(items, m + 1) = First(items, m) \o x
    <3>1. m \in 0..n
      BY <1>3, <1>4, <1>1
    <3> QED
      BY <1>1, <1>4, <3>1, FirstFacts DEF n, x
  <2> QED
    BY <1>5, <2>1, ConcatProperties, LenProperties DEF start
<1>a. Len(x) \in Nat /\ Len(x) >= 1
  <2>1. \A d \in Nat : Len(x) = d + 1 => Len(x) \in Nat /\ Len(x) >= 1
    OBVIOUS
  <2> QED
    BY <1>5, <2>1, Zenon
<1>b. index \in Nat /\ index >= 1 /\ index = b + start + 1
  BY <1>1, <1>3, <1>7
<1>8. \A i \in 1..Len(x) : index + i - 1 <= Len(payload) => payload[index + i - 1] = x[i]
  <2> SUFFICES ASSUME NEW i \in 1..Len(x), index + i - 1 <= Len(payload)
               PROVE  payload[index + i - 1] = x[i]
    OBVIOUS
  <2>1. /\ i \in Nat /\ i >= 1 /\ i <= Len(x) /\ start \in Nat /\ b \in Nat
        /\ Len(flat) \in Nat /\ start + Len(x) <= Len(flat) /\ Len(payload) \in Nat
    BY <1>1, <1>3, <1>a, <1>6, <1>7
  <2>2. index + i - 1 = b + (start + i)
    BY <1>b, <2>1
  <2>3. index + i - 1 \in 1..Len(payload)
    BY <1>b, <2>1
  <2>4. start + i \in 1..Len(flat)
    BY <1>a, <2>1
  <2> QED
    BY <1>1, <1>2, <1>6, <2>2, <2>3, <2>4
<1>9. NextHeader = x[1]
  <2>1. 1 \in 1..Len(x) /\ index + 1 - 1 = index
    BY <1>a, <1>b
  <2> QED
    BY <1>3, <1>8, <2>1 DEF NextHeader
<1>10. index + Len(x) - 1 <= Len(payload) /\ index + DataLen(type, x[1]) = index + Len(x) - 1
  <2>1. index \in Nat
    BY DEF TypeOK
  <2> QED
    BY <1>3, <1>5, <1>9, <2>1
<1>11. NextItem = x
  <2> DEFINE to == index + Len(x) - 1
  <2>1. /\ index \in 1..(Len(payload) + 1) /\ to \in Nat /\ to <= Len(payload)
        /\ to - index + 1 = Len(x) /\ to >= index /\ index \in Nat
    BY <1>3, <1>a, <1>b, <1>10
  <2>2. NextItem = SubSeq(payload, index, to)
    BY <1>9, <1>10 DEF NextItem
  <2> HIDE DEF to
  <2>3. \A i \in index..to : payload[i] \in Nat
    BY <1>3, <2>1
  <2>4. /\ SubSeq(payload, index, to) \in Seq(Nat)
        /\ Len(SubSeq(payload, index, to)) = Len(x)
        /\ \A i \in 1..Len(x) : SubSeq(payload, index, to)[i] = payload[index + i - 1]
    <3>1. index \in Int /\ to \in Int /\ index <= to /\ to - index + 1 = Len(x)
      BY <2>1
    <3>2. /\ SubSeq(payload, index, to) \in Seq(Nat)
          /\ Len(SubSeq(payload, index, to)) = IF index <= to THEN to - index + 1 ELSE 0
          /\ \A i \in 1..(to - index + 1) :
                SubSeq(payload, index, to)[i] = payload[index + i - 1]
      BY <2>3, <3>1, SubSeqProperties
    <3> QED
      BY <3>1, <3>2
  <2>5. \A i \in 1..Len(x) : payload[index + i - 1] = x[i]
    <3> SUFFICES ASSUME NEW i \in 1..Len(x) PROVE payload[index + i - 1] = x[i]
      OBVIOUS
    <3>1. index + i - 1 <= Len(payload)
      BY <1>3, <1>a, <1>b, <1>10
    <3> QED
      BY <1>8, <3>1
  <2>6. SubSeq(payload, index, to) = x
    BY <1>5, <2>4, <2>5, SeqEqual
  <2> QED
    BY <2>2, <2>6
<1>12. /\ m \in Nat /\ m + 1 <= n
       /\ index + Len(x) - 1 <= Len(payload)
       /\ Append(taken, x) = SubSeq(items, 1, m + 1)
  <2>1. m \in Nat /\ m + 1 <= n
    BY <1>1, <1>3, <1>4
  <2>2. Append(taken, x) = SubSeq(items, 1, m + 1)
    BY <1>3, <1>7, Zenon
  <2> QED
    BY <1>10, <2>1, <2>2, Zenon
<1> QED
  BY <1>5, <1>7, <1>9, <1>11, <1>12 DEF m, x, start, n

\* What the host awaits for the items taken is a sequence.
LEMMA TakenFacts ==
    ASSUME TypeOK, Arrived, InStep, pc # "idle", sent.type \in Itemised
    PROVE  /\ taken \in Seq(Seq(Nat)) /\ Len(taken) \in Nat
           /\ \A k \in 1..Len(taken) : taken[k][1] \in Nat
<1>1. taken \in Seq(Seq(Nat)) /\ Len(taken) \in Nat
  BY LenProperties DEF TypeOK
<1>2. sent.items \in Seq(Seq(Nat)) /\ Len(sent.items) \in Nat
  BY WholeFacts
<1>3. ASSUME NEW k \in 1..Len(taken) PROVE taken[k][1] \in Nat
  <2>1. taken = SubSeq(sent.items, 1, Len(taken)) /\ Len(taken) <= Len(sent.items)
    BY DEF InStep
  <2>2. taken[k] = sent.items[k]
    <3> DEFINE m == Len(taken)
    <3>1. /\ 1 \in 1..(Len(sent.items) + 1) /\ m \in Int /\ k \in 1..(m - 1 + 1)
          /\ \A i \in 1..m : sent.items[i] \in Seq(Nat)
      BY <1>1, <1>2, <2>1, ElementOfSeq
    <3> HIDE DEF m
    <3>2. SubSeq(sent.items, 1, m)[k] = sent.items[1 + k - 1]
      BY <1>2, <3>1, SubSeqProperties
    <3>3. 1 + k - 1 = k
      BY <3>1
    <3> QED
      BY <2>1, <3>2, <3>3 DEF m
  <2>3. sent.items[k] \in Items(sent.type)
    BY <1>1, <1>2, <2>1 DEF Arrived
  <2> QED
    BY <2>2, <2>3, ItemFacts
<1> QED
  BY <1>1, <1>3

\* An iterator that returns an item stays in step with the host.
LEMMA AdvanceKeeps ==
    ASSUME ProperHeaders, TypeOK, Arrived, InStep, pc = "items", HasNext, Advance,
           pc' \in {"items", "done"}
    PROVE  LET x == sent.items[Len(taken) + 1]
               more == Awaits(sent.type, x[1], Number)
           IN  /\ sent' \in Orders /\ payload' \in Seq(Nat) /\ index' \in Nat /\ left' \in Nat
               /\ taken' \in Seq(Seq(Nat)) /\ Arrived' /\ InStep'
               /\ AwaitedOf(taken) \in Seq(Marks) /\ more \in Seq(Marks)
               /\ AwaitedOf(taken)' = AwaitedOf(taken) \o more
               /\ Len(taken') = Len(taken) + 1 /\ index' = index + Len(x) /\ index \in Nat
               /\ sent' = sent /\ sent.type \in Itemised /\ Number \in Nat
<1> DEFINE m == Len(taken)
           x == sent.items[m + 1]
           b == Len(Before(sent.type, 0))
           more == Awaits(sent.type, x[1], Number)
<1>1. /\ m \in Nat /\ m + 1 <= Len(sent.items) /\ NextItem = x
      /\ x \in Seq(Nat) /\ x[1] \in Nat
      /\ Append(taken, x) = SubSeq(sent.items, 1, m + 1)
      /\ Len(First(sent.items, m + 1)) = Len(First(sent.items, m)) + Len(x)
      /\ Len(First(sent.items, m)) \in Nat
  BY NextItemIsSent
<1>2. /\ sent.type \in Itemised /\ Len(sent.items) \in Nat /\ Len(x) \in Nat
      /\ b \in Nat
  BY <1>1, WholeFacts, LenProperties DEF InStep
<1>3. /\ taken' = Append(taken, x) /\ index' = index + Len(x) /\ left' = left - 1
      /\ sent' = sent /\ payload' = payload
  BY <1>1 DEF Advance
<1>4. /\ taken \in Seq(Seq(Nat)) /\ sent \in Orders /\ payload \in Seq(Nat)
      /\ index \in Nat /\ left \in Nat /\ left > 0
  BY DEF TypeOK, HasNext
<1> HIDE DEF m, x, b, more
<1>5. taken' \in Seq(Seq(Nat)) /\ Len(taken') = m + 1
  BY <1>1, <1>3, <1>4, AppendProperties DEF m
<1>6. index' \in Nat /\ left' \in Nat
  BY <1>2, <1>3, <1>4
<1>7. Arrived'
  BY <1>2, <1>3 DEF Arrived, Whole
<1>8. InStep'
  <2>1. left' = Len(sent.items) - (m + 1)
    BY <1>1, <1>2, <1>3, <1>4 DEF InStep, m
  <2>2. index' = b + Len(First(sent.items, m + 1)) + 1
    <3>1. index = b + Len(First(sent.items, m)) + 1
      BY DEF InStep, m, b
    <3> DEFINE f == Len(First(sent.items, m))
               g == Len(First(sent.items, m + 1))
               l == Len(x)
    <3>2. f \in Nat /\ l \in Nat /\ g = f + l /\ index = b + f + 1 /\ index' = index + l
      BY <1>1, <1>2, <1>3, <3>1
    <3> HIDE DEF f, g, l
    <3>3. index' = b + g + 1
      BY <1>2, <3>2
    <3> QED
      BY <3>3 DEF g
  <2>3. /\ pc' # "idle" => Len(taken') <= Len(sent'.items)
                           /\ taken' = SubSeq(sent'.items, 1, Len(taken'))
        /\ pc' = "items" =>
              /\ left' = Len(sent'.items) - Len(taken')
              /\ index' = Len(Before(sent'.type, 0)) + Len(First(sent'.items, Len(taken'))) + 1
    BY <1>1, <1>3, <1>5, <2>1, <2>2 DEF b
  <2> QED
    BY <1>2, <1>3, <2>3 DEF InStep
<1>9. /\ AwaitedOf(taken) \in Seq(Marks) /\ more \in Seq(Marks)
      /\ AwaitedOf(Append(taken, x)) = AwaitedOf(taken) \o more
  <2>1. \A k \in 1..Len(taken) : taken[k][1] \in Nat
    BY <1>2, TakenFacts
  <2> QED
    BY <1>1, <1>2, <1>4, <2>1, AwaitedAppend DEF Number, m, more
<1>10. AwaitedOf(taken)' = AwaitedOf(Append(taken, x))
  BY <1>3 DEF AwaitedOf
<1>11. sent' \in Orders /\ payload' \in Seq(Nat) /\ Number \in Nat /\ Number = m + 1
  BY <1>1, <1>3, <1>4 DEF Number, m
<1> QED
  BY <1>2, <1>3, <1>4, <1>5, <1>6, <1>7, <1>8, <1>9, <1>10, <1>11, Zenon DEF m, x, more

-----------------------------------------------------------------------------
(* Every action keeps the invariant. *)

LEMMA InitKeeps == Init => IInv
<1> SUFFICES ASSUME Init PROVE IInv
  OBVIOUS
<1>1. TypeOK
  BY EmptySeq DEF Init, TypeOK
<1>2. Arrived /\ InStep /\ Laid /\ AnswersInPlace
  BY DEF Init, Arrived, InStep, Laid, AnswersInPlace
<1> QED
  BY <1>1, <1>2 DEF IInv

LEMMA ResetKeeps == HostReads \/ Restarts => IInv'
<1> SUFFICES ASSUME Reset PROVE IInv'
  BY DEF HostReads, Restarts
<1>1. TypeOK'
  BY EmptySeq DEF Reset, TypeOK
<1>2. Arrived' /\ InStep' /\ Laid' /\ AnswersInPlace'
  BY DEF Reset, Arrived, InStep, Laid, AnswersInPlace
<1> QED
  BY <1>1, <1>2 DEF IInv

LEMMA HostSendsKeeps == IInv /\ HostSends => IInv'
<1> SUFFICES ASSUME IInv, HostSends PROVE IInv'
  OBVIOUS
<1>1. PICK type \in DOMAIN Formats \ Itemised, n \in 0..6 :
        \E bytes \in [1..n -> OtherBytes] :
            /\ sent' = [type |-> type, items |-> <<>>, whole |-> FALSE]
            /\ payload' = bytes
  BY DEF HostSends
<1>2. payload' \in Seq(Nat)
  <2>1. PICK bytes \in [1..n -> OtherBytes] : payload' = bytes
    BY <1>1
  <2>2. n \in Nat
    OBVIOUS
  <2>3. bytes \in [1..n -> Nat]
    <3>1. OtherBytes \subseteq Nat
      BY SizeFacts
    <3> QED
      BY <3>1
  <2> QED
    BY <2>1, <2>2, <2>3
<1>3. /\ pc = "idle" /\ pc' = "received" /\ index' = index /\ left' = left
      /\ taken' = taken /\ taken = <<>>
  BY DEF HostSends, IInv, InStep
<1>4. sent' \in Orders
  <2>1. <<>> \in Seq(Seq(Nat)) /\ FALSE \in BOOLEAN
    BY EmptySeq
  <2> QED
    BY <1>1, <2>1 DEF Orders
<1>5. TypeOK'
  BY <1>2, <1>3, <1>4 DEF IInv, TypeOK
<1>6. sent'.type \notin Itemised /\ sent'.items = <<>>
  BY <1>1
<1>7. InStep'
  <2>1. SubSeq(<<>>, 1, 0) = <<>> /\ Len(<<>>) = 0
    BY SubSeqEmpty
  <2> QED
    BY <1>3, <1>6, <2>1 DEF InStep
<1>8. Arrived' /\ Laid' /\ AnswersInPlace'
  BY <1>3, <1>6 DEF Arrived, Laid, AnswersInPlace
<1> QED
  BY <1>5, <1>7, <1>8 DEF IInv

LEMMA HostSendsItemsKeeps == IInv /\ HostSendsItems => IInv'
<1> SUFFICES ASSUME IInv, HostSendsItems PROVE IInv'
  OBVIOUS
<1>1. PICK type \in Itemised, n \in 1..MaxItems, size \in 0..Room :
        \E items \in [1..n -> Items(type)] :
            LET whole == Before(type, n) \o FlattenSeq(items)
            IN /\ Len(whole) <= Room /\ size <= Len(whole)
               /\ sent' = [type |-> type, items |-> items, whole |-> size = Len(whole)]
               /\ payload' = SubSeq(whole, 1, size)
  BY DEF HostSendsItems
<1>2. PICK items \in [1..n -> Items(type)] :
            LET whole == Before(type, n) \o FlattenSeq(items)
            IN /\ Len(whole) <= Room /\ size <= Len(whole)
               /\ sent' = [type |-> type, items |-> items, whole |-> size = Len(whole)]
               /\ payload' = SubSeq(whole, 1, size)
  BY <1>1
<1>3. /\ pc = "idle" /\ pc' = "received" /\ index' = index /\ left' = left
      /\ taken' = taken /\ taken = <<>>
  BY DEF HostSendsItems, IInv, InStep
<1> DEFINE whole == Before(type, n) \o FlattenSeq(items)
<1>4. /\ n \in Nat /\ items \in Seq(Seq(Nat)) /\ Len(items) = n
      /\ \A k \in 1..n : items[k] \in Items(type)
  <2>1. \A x \in Items(type) : x \in Seq(Nat)
    BY ItemFacts
  <2>2. n \in Nat
    BY <1>1, SizeFacts
  <2>3. items \in [1..n -> Seq(Nat)]
    BY <1>2, <2>1
  <2> QED
    BY <1>2, <2>2, <2>3
<1>5. whole \in Seq(Nat) /\ Len(whole) \in Nat
  <2>1. FlattenSeq(items) \in Seq(Nat)
    BY <1>4, EmptySeq, FlattenAppend
  <2>2. Before(type, n) \in Seq(Nat)
    BY <1>4 DEF Before
  <2> QED
    BY <2>1, <2>2, ConcatProperties, LenProperties
<1>6. /\ sent' = [type |-> type, items |-> items, whole |-> size = Len(whole)]
      /\ payload' = SubSeq(whole, 1, size) /\ Len(whole) <= Room /\ size <= Len(whole)
  BY <1>2
<1> HIDE DEF whole
<1>7. /\ sent' \in Orders /\ sent'.type = type /\ sent'.items = items
      /\ (sent'.whole <=> size = Len(whole))
  BY <1>4, <1>6, ItemisedFacts DEF Orders
<1>8. /\ payload' \in Seq(Nat) /\ Len(payload') = size
      /\ \A i \in 1..size : payload'[i] = whole[i]
  <2>1. size \in Nat /\ size - 1 + 1 = size /\ \A i \in 1..size : whole[i] \in Nat
    BY <1>1, <1>5, <1>6, SizeFacts, ElementOfSeq
  <2>2. /\ SubSeq(whole, 1, size) \in Seq(Nat)
        /\ Len(SubSeq(whole, 1, size)) = IF 1 <= size THEN size - 1 + 1 ELSE 0
        /\ \A i \in 1..(size - 1 + 1) : SubSeq(whole, 1, size)[i] = whole[1 + i - 1]
    BY <2>1, SubSeqProperties
  <2>3. \A i \in 1..size : 1 + i - 1 = i
    BY <2>1
  <2> QED
    BY <1>6, <2>1, <2>2, <2>3
<1>9. TypeOK'
  BY <1>3, <1>7, <1>8 DEF IInv, TypeOK
<1>10. Whole' = whole
  BY <1>4, <1>7 DEF Whole, whole
<1>11. Arrived'
  <2>1. type \in Itemised /\ Len(sent'.items) = n
    BY <1>1, <1>4, <1>7
  <2> QED
    BY <1>3, <1>4, <1>6, <1>7, <1>8, <1>10, <2>1 DEF Arrived
<1>12. InStep'
  <2>1. SubSeq(items, 1, 0) = <<>> /\ Len(<<>>) = 0
    BY SubSeqEmpty
  <2> QED
    BY <1>3, <1>4, <1>7, <2>1 DEF InStep
<1>13. Laid' /\ AnswersInPlace'
  BY <1>3 DEF Laid, AnswersInPlace
<1> QED
  BY <1>9, <1>11, <1>12, <1>13 DEF IInv

LEMMA RefuseKeeps == IInv /\ Refuse => IInv'
<1> SUFFICES ASSUME IInv, Refuse PROVE IInv'
  OBVIOUS
<1>1. /\ pc = "received" /\ pc' = "answered" /\ sent' = sent /\ payload' = payload
      /\ index' = index /\ left' = left /\ taken' = taken
      /\ answer' = [id |-> 255, ok |-> FALSE, data |-> <<>>]
  BY DEF Refuse, Answered
<1>2. answer' \in Answers
  <2>1. <<>> \in Seq(Marks) /\ FALSE \in BOOLEAN
    BY EmptySeq
  <2> QED
    BY <1>1, <2>1 DEF Answers
<1>3. TypeOK'
  BY <1>1, <1>2 DEF IInv, TypeOK
<1>4. Arrived' /\ InStep' /\ Laid'
  BY <1>1 DEF IInv, Arrived, Whole, InStep, Laid
<1>5. AnswersInPlace'
  <2>1. Len(answer'.data) = 0 /\ answer'.id = 255 /\ ~answer'.ok
    BY <1>1
  <2> QED
    BY <1>1, <2>1, SizeFacts DEF AnswersInPlace
<1> QED
  BY <1>3, <1>4, <1>5 DEF IInv

LEMMA PanicsKeeps == IInv /\ Panics => IInv'
<1> SUFFICES ASSUME IInv, Panics PROVE IInv'
  OBVIOUS
<1>1. /\ pc = "received" /\ pc' = "panicked" /\ Asserts(sent.type, payload)
      /\ UNCHANGED <<sent, payload, index, left, taken, answer>>
  BY DEF Panics
<1>2. TypeOK'
  BY <1>1 DEF IInv, TypeOK
<1>3. Arrived' /\ InStep' /\ Laid'
  BY <1>1 DEF IInv, Arrived, Whole, InStep, Laid
<1>4. AnswersInPlace'
  BY <1>1 DEF AnswersInPlace
<1> QED
  BY <1>2, <1>3, <1>4 DEF IInv

\* An answer to a command without items fits its packet.
LEMMA AnswerFits ==
    ASSUME NEW type \in DOMAIN Formats, payload \in Seq(Nat), Parses(type, payload),
           NEW size \in AnswerSizes(type, payload)
    PROVE  size \in Nat /\ size + Begin(type) <= Room
<1>1. /\ Len(payload) \in Nat /\ Len(payload) >= Formats[type].request
      /\ \A i \in 1..Len(payload) : payload[i] \in Nat
  BY ElementOfSeq, LenProperties DEF Parses
<1>2. Begin(type) \in 0..5 /\ Room \in Nat /\ Room >= 15 /\ VersionSize \in Nat /\ VersionSize + 1 <= Room
  BY FormatFacts, SizeFacts
<1>3. CASE type = "Info"
  <2>1. Begin(type) = 1
    BY <1>3 DEF Begin, Formats, Info, Format
  <2>2. size \in {0, 1, 2, 4, 5, VersionSize}
    BY <1>3 DEF AnswerSizes, InfoData
  <2> QED
    BY <1>2, <2>1, <2>2
<1>4. CASE type = "TransferBlock"
  <2>1. Begin(type) = 3 /\ Formats[type].request = 4
    BY <1>4 DEF Begin, Formats, TransferBlock, Format
  <2>2. payload[2] \in Nat /\ payload[3] \in Nat
    BY <1>1, <2>1
  <2> DEFINE most == Least(Room - 3, 4 * (payload[2] + 256 * payload[3]))
  <2>3. most \in Nat /\ most <= Room - 3
    BY <1>2, <2>2 DEF Least
  <2> HIDE DEF most
  <2>4. size \in {4 * n : n \in 0..(most \div 4)} \/ size = 0
    BY <1>4 DEF AnswerSizes, BlockWords, most
  <2>5. CASE size \in {4 * n : n \in 0..(most \div 4)}
    <3>1. PICK n \in 0..(most \div 4) : size = 4 * n
      BY <2>5
    <3>2. most \div 4 \in Nat /\ 4 * (most \div 4) <= most
      BY <2>3
    <3> QED
      BY <1>2, <2>1, <2>3, <3>1, <3>2
  <2> QED
    BY <1>2, <2>1, <2>4, <2>5
<1>5. CASE type = "SWOExtendedStatus"
  <2>1. Begin(type) = 0
    BY <1>5 DEF Begin, Formats, SWOExtendedStatus, Format
  <2>2. size \in Nat /\ size <= 13
    BY <1>5 DEF AnswerSizes, ExtendedFields
  <2> QED
    BY <1>2, <2>1, <2>2
<1>6. CASE type = "SWOData"
  <2>1. Begin(type) = 3 /\ Formats[type].request = 2
    BY <1>6 DEF Begin, Formats, SWOData, Format
  <2>2. payload[1] \in Nat /\ payload[2] \in Nat
    BY <1>1, <2>1
  <2>3. size \in 0..Least(Room - 3, payload[1] + 256 * payload[2])
    BY <1>6 DEF AnswerSizes, TraceBytes
  <2>4. size \in Nat /\ size <= Room - 3
    BY <1>2, <2>2, <2>3 DEF Least
  <2> QED
    BY <1>2, <2>1, <2>4
<1>7. CASE type \notin {"Info", "TransferBlock", "SWOExtendedStatus", "SWOData"}
  <2>1. size = 0
    BY <1>7 DEF AnswerSizes
  <2> QED
    BY <1>2, <2>1
<1> QED
  BY <1>3, <1>4, <1>5, <1>6, <1>7

LEMMA HandleKeeps == IInv /\ Handle => IInv'
<1> SUFFICES ASSUME IInv, Handle PROVE IInv'
  OBVIOUS
<1>1. /\ pc = "received" /\ pc' = "answered" /\ sent.type \notin Itemised
      /\ Parses(sent.type, payload) /\ sent' = sent /\ payload' = payload
      /\ index' = index /\ left' = left /\ taken' = taken
  BY DEF Handle
<1>2. PICK size \in AnswerSizes(sent.type, payload), ok \in BOOLEAN :
        answer' = [id |-> Formats[sent.type].id, ok |-> ok, data |-> Bytes(0, "data", size)]
  BY DEF Handle, Answered
<1>3. sent.type \in DOMAIN Formats /\ payload \in Seq(Nat)
  BY <1>1 DEF IInv, TypeOK, Orders
<1>4. size \in Nat /\ size + Begin(sent.type) <= Room /\ Formats[sent.type].id \in Nat
  BY <1>1, <1>3, AnswerFits, FormatFacts
<1>5. Bytes(0, "data", size) \in Seq(Marks) /\ Len(Bytes(0, "data", size)) = size
  <2>1. "data" \in Parts /\ 0 \in Nat
    BY DEF Parts
  <2> QED
    BY <1>4, <2>1, BytesFacts
<1>6. answer' \in Answers /\ Len(answer'.data) = size
  <2>1. \A s : s \in Seq(Marks) /\ Len(s) = size
                 /\ answer' = [id |-> Formats[sent.type].id, ok |-> ok, data |-> s]
               => answer' \in Answers /\ Len(answer'.data) = size
    BY <1>4 DEF Answers
  <2> QED
    BY <1>2, <1>5, <2>1, Zenon
<1>7. TypeOK'
  BY <1>1, <1>6 DEF IInv, TypeOK
<1>8. Arrived' /\ InStep' /\ Laid'
  BY <1>1 DEF IInv, Arrived, Whole, InStep, Laid
<1>9. AnswersInPlace'
  <2>1. size <= Room /\ Begin(sent.type) \in Nat
    BY <1>3, <1>4, FormatFacts, SizeFacts
  <2> QED
    BY <1>1, <1>4, <1>6, <2>1 DEF AnswersInPlace
<1> QED
  BY <1>7, <1>8, <1>9 DEF IInv

LEMMA IterateKeeps == IInv /\ Iterate => IInv'
<1> SUFFICES ASSUME IInv, Iterate PROVE IInv'
  OBVIOUS
<1> DEFINE b == Len(Before(sent.type, 0))
<1>1. /\ pc = "received" /\ pc' = "items" /\ sent.type \in Itemised
      /\ Parses(sent.type, payload) /\ sent' = sent /\ payload' = payload
      /\ taken' = taken /\ index' = b + 1 /\ left' = payload[b]
      /\ answer' = [id |-> Formats[sent.type].id, ok |-> TRUE, data |-> <<>>]
  BY DEF Iterate, Answered
<1>2. /\ b \in 1..2 /\ Len(sent.items) \in Nat /\ Whole[b] = Len(sent.items)
      /\ sent.items \in Seq(Seq(Nat))
  BY <1>1, WholeFacts DEF IInv
<1>3. taken = <<>> /\ Len(taken) = 0
  BY <1>1 DEF IInv, InStep
<1>4. Len(payload) \in Nat /\ b <= Len(payload)
  <2>1. Len(payload) \in Nat /\ Len(payload) >= Formats[sent.type].request
    BY <1>1, LenProperties DEF IInv, TypeOK, Parses
  <2>2. Formats[sent.type].request = b
    BY <1>1 DEF Itemised, Before, Formats, Format, Transfer, SWDSequence, JTAGSequence
  <2> QED
    BY <2>1, <2>2
<1>5. payload[b] = Len(sent.items)
  <2>1. b \in 1..Len(payload)
    <3> HIDE DEF b
    <3> QED
      BY <1>2, <1>4
  <2> QED
    BY <1>1, <1>2, <2>1 DEF IInv, Arrived
<1>6. answer' \in Answers /\ answer'.ok /\ answer'.data = <<>>
  <2>1. <<>> \in Seq(Marks) /\ TRUE \in BOOLEAN /\ Formats[sent.type].id \in Nat
    BY <1>1, EmptySeq, ItemisedFacts, FormatFacts
  <2> QED
    BY <1>1, <2>1 DEF Answers
<1> HIDE DEF b
<1>7. TypeOK'
  BY <1>1, <1>2, <1>5, <1>6 DEF IInv, TypeOK
<1>8. Arrived'
  BY <1>1 DEF IInv, Arrived, Whole
<1>9. InStep'
  <2>1. Len(First(sent.items, 0)) = 0
    BY <1>2, FirstFacts
  <2>2. b + 0 + 1 = b + 1 /\ Len(sent.items) - 0 = Len(sent.items)
    BY <1>2
  <2>3. /\ left' = Len(sent'.items) - Len(taken')
        /\ index' = Len(Before(sent'.type, 0)) + Len(First(sent'.items, Len(taken'))) + 1
    BY <1>1, <1>3, <1>5, <2>1, <2>2 DEF b
  <2> QED
    BY <1>1, <1>3, <2>3 DEF IInv, InStep
<1>10. Laid'
  <2>1. AwaitedOf(taken)' = <<>>
    <3>1. DOMAIN taken' = {}
      BY <1>1, <1>3
    <3>2. [k \in DOMAIN taken' |-> Awaits(sent'.type, taken'[k][1], k)] = <<>>
      BY <3>1
    <3> QED
      BY <3>2, FlattenEmpty DEF AwaitedOf
  <2>2. Begin(sent.type) \in 1..2 /\ Len(<<>>) = 0
    BY <1>1, ItemisedFacts DEF Itemised
  <2>3. index' >= 2
    BY <1>1, <1>2
  <2>4. Len(answer'.data) = 0 /\ Len(taken') = 0
    BY <1>1, <1>3, <1>6
  <2>5. /\ Len(answer'.data) + Begin(sent'.type) <= Room
        /\ Len(answer'.data) + Len(taken') + 2 <= index'
    BY <1>1, <2>2, <2>3, <2>4, SizeFacts
  <2> QED
    BY <1>6, <2>1, <2>5 DEF Laid
<1>11. AnswersInPlace'
  BY <1>1 DEF AnswersInPlace
<1> QED
  BY <1>7, <1>8, <1>9, <1>10, <1>11 DEF IInv

\* An answer that bytes are added to.
LEMMA AnswerGrows ==
    ASSUME answer \in Answers, NEW t \in Seq(Marks),
           answer' = [answer EXCEPT !.data = @ \o t]
    PROVE  /\ answer' \in Answers /\ answer'.ok = answer.ok
           /\ answer'.data = answer.data \o t
           /\ Len(answer'.data) = Len(answer.data) + Len(t)
           /\ Len(answer.data) \in Nat /\ Len(t) \in Nat
<1>1. answer.data \in Seq(Marks)
  BY DEF Answers
<1>2. PICK s \in Seq(Marks) : s = answer.data \o t
  BY <1>1, ConcatProperties
<1>3. Len(s) = Len(answer.data) + Len(t) /\ Len(answer.data) \in Nat /\ Len(t) \in Nat
  BY <1>1, <1>2, ConcatProperties, LenProperties
<1>4. answer' = [answer EXCEPT !.data = s]
  BY <1>2
<1>5. answer' \in Answers /\ answer'.ok = answer.ok /\ answer'.data = s
  BY <1>2, <1>4 DEF Answers
<1> QED
  BY <1>2, <1>3, <1>5

LEMMA OneTransferKeeps == ProperHeaders /\ IInv /\ OneTransfer => IInv'
<1> SUFFICES ASSUME ProperHeaders, IInv, OneTransfer PROVE IInv'
  OBVIOUS
<1> DEFINE h == NextHeader
           x == sent.items[Len(taken) + 1]
           more == Awaits(sent.type, x[1], Number)
<1>1. /\ pc = "items" /\ sent.type = "Transfer" /\ HasNext /\ Advance
      /\ pc' \in {"items", "done"} /\ RoomLeft >= ResponseLen(h)
      /\ answer' = [answer EXCEPT !.data = @ \o TransferBytes(h)]
  BY DEF OneTransfer, Serves
<1>2. TypeOK /\ Arrived /\ InStep /\ Laid
  BY DEF IInv
<1>3. h = x[1] /\ h \in Headers["Transfer"] /\ h \in Nat
  BY <1>1, <1>2, NextItemIsSent
<1>4. /\ sent' \in Orders /\ payload' \in Seq(Nat) /\ index' \in Nat /\ left' \in Nat
      /\ taken' \in Seq(Seq(Nat)) /\ Arrived' /\ InStep'
      /\ AwaitedOf(taken) \in Seq(Marks) /\ more \in Seq(Marks)
      /\ AwaitedOf(taken)' = AwaitedOf(taken) \o more
      /\ sent' = sent /\ Number \in Nat
  BY <1>1, <1>2, AdvanceKeeps, Zenon
<1>5. /\ ~IsValueMatch(h)
      /\ HasTimestamp(h) => IF IsRead(h) THEN ~IsValueMatch(h) ELSE ~IsMatchMask(h)
  BY <1>3 DEF ProperHeaders
<1>6. TransferBytes(h) = more
  BY <1>1, <1>3, <1>5 DEF TransferBytes, Awaits, If
<1> HIDE DEF h, x, more
<1>7. Len(more) = ResponseLen(h)
  <2> DEFINE time == Bytes(Number, "timestamp", 4)
             data == Bytes(Number, "data", 4)
  <2>1. time \in Seq(Marks) /\ Len(time) = 4 /\ data \in Seq(Marks) /\ Len(data) = 4
    BY <1>4, BytesFacts DEF Parts
  <2>2. more = If(HasTimestamp(h), time) \o If(IsRead(h) /\ ~IsValueMatch(h), data)
    BY <1>1, <1>3 DEF more, Awaits
  <2> HIDE DEF time, data
  <2>3. /\ If(HasTimestamp(h), time) \in Seq(Marks)
        /\ Len(If(HasTimestamp(h), time)) = IF HasTimestamp(h) THEN 4 ELSE 0
        /\ If(IsRead(h) /\ ~IsValueMatch(h), data) \in Seq(Marks)
        /\ Len(If(IsRead(h) /\ ~IsValueMatch(h), data))
              = IF IsRead(h) /\ ~IsValueMatch(h) THEN 4 ELSE 0
    BY <2>1, EmptySeq DEF If
  <2>4. Len(more) = Len(If(HasTimestamp(h), time)) + Len(If(IsRead(h) /\ ~IsValueMatch(h), data))
    BY <2>2, <2>3, ConcatProperties
  <2> QED
    BY <2>3, <2>4 DEF ResponseLen
<1>8. answer \in Answers /\ answer' = [answer EXCEPT !.data = @ \o more]
  BY <1>1, <1>2, <1>6 DEF TypeOK
<1>9. /\ answer' \in Answers /\ answer'.ok = answer.ok
      /\ answer'.data = answer.data \o more
      /\ Len(answer'.data) = Len(answer.data) + Len(more)
      /\ Len(answer.data) \in Nat /\ Len(more) \in Nat
  BY <1>4, <1>8, AnswerGrows
<1>10. answer.ok /\ answer.data = AwaitedOf(taken)
  BY <1>1, <1>2 DEF Laid
<1>11. Len(answer'.data) + Begin(sent.type) <= Room
  <2>1. Room - Begin(sent.type) - Len(answer.data) >= Len(more)
    BY <1>1, <1>7 DEF RoomLeft
  <2>2. Begin(sent.type) \in Nat /\ Room \in Nat
    BY <1>1, ItemisedFacts, SizeFacts
  <2> QED
    BY <1>9, <2>1, <2>2
<1>12. TypeOK'
  BY <1>1, <1>4, <1>9 DEF TypeOK
<1>13. Laid'
  BY <1>1, <1>4, <1>9, <1>10, <1>11 DEF Laid
<1>14. AnswersInPlace'
  BY <1>1 DEF AnswersInPlace
<1> QED
  BY <1>4, <1>12, <1>13, <1>14 DEF IInv

LEMMA NoRoomKeeps == IInv /\ NoRoom => IInv'
<1> SUFFICES ASSUME IInv, NoRoom PROVE IInv'
  OBVIOUS
<1>1. /\ pc = "items" /\ pc' = "done" /\ sent' = sent /\ payload' = payload /\ index' = index
      /\ left' = left /\ taken' = taken /\ answer' = answer
  BY DEF NoRoom, Serves
<1>2. TypeOK' /\ Arrived' /\ InStep' /\ AnswersInPlace'
  BY <1>1 DEF IInv, TypeOK, Arrived, Whole, InStep, AnswersInPlace
<1>3. Laid'
  BY <1>1 DEF IInv, Laid, AwaitedOf
<1> QED
  BY <1>2, <1>3 DEF IInv

LEMMA FailsKeeps == IInv /\ Fails => IInv'
<1> SUFFICES ASSUME IInv, Fails PROVE IInv'
  OBVIOUS
<1>1. /\ pc = "items" /\ pc' = "answered" /\ sent' = sent /\ payload' = payload /\ index' = index
      /\ left' = left /\ taken' = taken
      /\ answer' = [answer EXCEPT !.ok = FALSE,
                      !.data = IF sent.type = "JTAGSequence" THEN <<>> ELSE @]
  BY DEF Fails, Serves
<1>2. answer \in Answers /\ sent.type \in Itemised
  BY <1>1 DEF IInv, TypeOK, InStep
<1>3. answer' \in Answers /\ ~answer'.ok /\ answer'.data \in {<<>>, answer.data}
  <2>1. PICK s \in Seq(Marks) : s = IF sent.type = "JTAGSequence" THEN <<>> ELSE answer.data
    BY <1>2, EmptySeq DEF Answers
  <2>2. answer' = [answer EXCEPT !.ok = FALSE, !.data = s]
    BY <1>1, <2>1
  <2>3. answer' \in Answers /\ ~answer'.ok /\ answer'.data = s
    BY <1>2, <2>2 DEF Answers
  <2> QED
    BY <2>1, <2>3
<1>4. TypeOK' /\ Arrived' /\ InStep' /\ Laid'
  BY <1>1, <1>3 DEF IInv, TypeOK, Arrived, Whole, InStep, Laid
<1>5. AnswersInPlace'
  <2>1. Len(answer.data) + Begin(sent.type) <= Room /\ Len(answer.data) \in Nat
    BY <1>1, <1>2, LenProperties DEF IInv, Laid, Answers
  <2>2. Len(answer'.data) \in {0, Len(answer.data)} /\ Begin(sent.type) \in 0..5 /\ Room >= 15 /\ Room \in Nat
    BY <1>2, <1>3, ItemisedFacts, FormatFacts, SizeFacts
  <2>3. Len(answer'.data) + (IF answer'.id = 255 THEN 0 ELSE Begin(sent.type)) <= Room
    BY <2>1, <2>2
  <2> QED
    BY <1>1, <1>3, <2>3 DEF AnswersInPlace
<1> QED
  BY <1>4, <1>5 DEF IInv

LEMMA CommitKeeps == IInv /\ Commit => IInv'
<1> SUFFICES ASSUME IInv, Commit PROVE IInv'
  OBVIOUS
<1>1. /\ pc \in {"items", "done"} /\ pc' = "answered" /\ sent' = sent /\ payload' = payload
      /\ index' = index /\ left' = left /\ taken' = taken /\ answer' = answer
  BY DEF Commit
<1>2. answer \in Answers /\ sent.type \in Itemised /\ Len(answer.data) \in Nat
  BY <1>1, LenProperties DEF IInv, TypeOK, InStep, Answers
<1>3. TypeOK' /\ Arrived' /\ InStep' /\ Laid'
  BY <1>1 DEF IInv, TypeOK, Arrived, Whole, InStep, Laid
<1>4. AnswersInPlace'
  <2> DEFINE awaited == AwaitedOf(taken)
  <2>1. awaited' = awaited
    BY <1>1 DEF AwaitedOf
  <2>2. /\ Len(answer.data) + Begin(sent.type) <= Room
        /\ \/ answer.data = awaited
           \/ /\ sent.type = "SWDSequence" /\ Len(answer.data) < Len(awaited)
              /\ Len(awaited) + Begin(sent.type) > Room
    BY <1>1 DEF IInv, Laid
  <2> HIDE DEF awaited
  <2>3. Begin(sent.type) \in Nat /\ Room \in Nat
    BY <1>2, ItemisedFacts, SizeFacts
  <2>4. Len(answer.data) + (IF answer.id = 255 THEN 0 ELSE Begin(sent.type)) <= Room
    BY <1>2, <2>2, <2>3
  <2>5. IF Len(awaited) + Begin(sent.type) <= Room
        THEN answer.data = awaited
        ELSE sent.type = "SWDSequence" /\ Len(answer.data) < Len(awaited)
    <3>1. CASE Len(awaited) + Begin(sent.type) <= Room
      <4>1. CASE Len(awaited) + Begin(sent.type) > Room
        <5>1. awaited \in Seq(Marks)
          <6>1. /\ taken \in Seq(Seq(Nat)) /\ Len(taken) \in Nat
                /\ \A k \in 1..Len(taken) : taken[k][1] \in Nat
            BY <1>1, <1>2, TakenFacts DEF IInv
          <6>2. <<0>> \in Seq(Nat) /\ <<0>>[1] \in Nat
            OBVIOUS
          <6> QED
            BY <1>2, <6>1, <6>2, AwaitedAppend, Zenon DEF awaited
        <5> QED
          BY <2>3, <3>1, <4>1, <5>1, LenProperties
      <4> QED
        BY <2>2, <3>1, <4>1
    <3>2. CASE ~(Len(awaited) + Begin(sent.type) <= Room)
      BY <2>2, <3>2
    <3> QED
      BY <3>1, <3>2
  <2> QED
    BY <1>1, <2>1, <2>4, <2>5 DEF AnswersInPlace, awaited
<1> QED
  BY <1>3, <1>4 DEF IInv

LEMMA SwdSequenceKeeps == ProperHeaders /\ IInv /\ SwdSequence => IInv'
<1> SUFFICES ASSUME ProperHeaders, IInv, SwdSequence PROVE IInv'
  OBVIOUS
<1> DEFINE h == NextHeader
           x == sent.items[Len(taken) + 1]
           size == ByteCount(SeqBits(h))
           data == Bytes(Number, "data", size)
           awaited == AwaitedOf(taken)
           more == Awaits(sent.type, x[1], Number)
<1>1. /\ pc = "items" /\ sent.type = "SWDSequence" /\ HasNext /\ Advance /\ pc' = pc
      /\ answer' = IF Len(NextItem) = 1 /\ RoomLeft >= size
                   THEN [answer EXCEPT !.data = @ \o data] ELSE answer
  BY DEF SwdSequence, Serves
<1>2. TypeOK /\ Arrived /\ InStep /\ Laid
  BY DEF IInv
<1>3. /\ h = x[1] /\ h \in Headers["SWDSequence"] /\ h \in Nat
      /\ NextItem = x /\ Len(x) = HostData("SWDSequence", h) + 1
  <2>1. /\ NextHeader = x[1] /\ x[1] \in Headers[sent.type] /\ x[1] \in Nat /\ NextItem = x
        /\ Len(x) = HostData(sent.type, x[1]) + 1
    BY <1>1, <1>2, NextItemIsSent
  <2> QED
    BY <1>1, <2>1
<1>4. /\ sent' \in Orders /\ payload' \in Seq(Nat) /\ index' \in Nat /\ left' \in Nat
      /\ taken' \in Seq(Seq(Nat)) /\ Arrived' /\ InStep'
      /\ awaited \in Seq(Marks) /\ more \in Seq(Marks)
      /\ awaited' = awaited \o more
      /\ sent' = sent /\ Number \in Nat
  BY <1>1, <1>2, AdvanceKeeps, Zenon
<1>5. /\ SeqBits(h) # 0 /\ Or64(SeqBits(h)) = SeqBits(h)
      /\ size \in Nat /\ size > 0
  <2>1. SeqBits(h) # 0 /\ SeqBits(h) \in Nat
    BY <1>3, BitFacts DEF ProperHeaders
  <2>2. SeqBits(h) > 0
    BY <2>1
  <2> QED
    BY <2>1, <2>2, BitFacts DEF Or64
<1>6. /\ more = IF IsInput(h) THEN data ELSE <<>>
      /\ Len(x) = IF IsInput(h) THEN 1 ELSE size + 1
  BY <1>1, <1>3, <1>5 DEF Awaits, If, HostData
<1>7. data \in Seq(Marks) /\ Len(data) = size
  <2>1. "data" \in Parts
    BY DEF Parts
  <2> HIDE DEF size
  <2> QED
    BY <1>4, <1>5, <2>1, BytesFacts
<1> HIDE DEF h, x, size, data, awaited, more
<1>8. answer \in Answers /\ answer.data \in Seq(Marks)
  BY <1>1, <1>2 DEF TypeOK, Answers
<1>9. /\ answer.ok /\ Len(answer.data) + 1 <= Room
      /\ \/ answer.data = awaited
         \/ Len(answer.data) < Len(awaited) /\ Len(awaited) + 1 > Room
  BY <1>1, <1>2, ItemisedFacts DEF Laid, awaited
<1>10. /\ Len(answer.data) \in Nat /\ Len(awaited) \in Nat /\ Room \in Nat
       /\ RoomLeft = Room - 1 - Len(answer.data)
  BY <1>1, <1>4, <1>8, LenProperties, SizeFacts, ItemisedFacts DEF RoomLeft
<1> DEFINE Fine(s, want) ==
             /\ Len(s) + 1 <= Room
             /\ s = want \/ (Len(s) < Len(want) /\ Len(want) + 1 > Room)
<1>11. answer' \in Answers /\ answer'.ok /\ Fine(answer'.data, awaited')
  <2>1. CASE ~IsInput(h)
    <3>1. Len(x) # 1
      BY <1>5, <1>6, <2>1
    <3>2. answer' = answer
      BY <1>1, <1>3, <3>1
    <3>3. awaited' = awaited
      BY <1>4, <1>6, <2>1, ConcatEmptySeq
    <3>4. Fine(answer.data, awaited)
      BY <1>9
    <3> HIDE DEF Fine
    <3> QED
      BY <1>8, <1>9, <3>2, <3>3, <3>4
  <2>2. CASE IsInput(h) /\ RoomLeft >= size
    <3>1. answer' = [answer EXCEPT !.data = @ \o data] /\ awaited' = awaited \o data
      BY <1>1, <1>3, <1>4, <1>6, <2>2
    <3>2. /\ answer' \in Answers /\ answer'.ok = answer.ok
          /\ answer'.data = answer.data \o data
          /\ Len(answer'.data) = Len(answer.data) + size
      BY <1>7, <1>8, <3>1, AnswerGrows
    <3>3. Len(awaited') = Len(awaited) + size
      BY <1>4, <1>7, <3>1, ConcatProperties
    <3>4. Len(answer'.data) + 1 <= Room
      BY <1>5, <1>10, <2>2, <3>2
    <3>5. CASE answer.data = awaited
      <4>1. answer'.data = awaited'
        BY <3>1, <3>2, <3>5
      <4> QED
        BY <1>9, <3>2, <3>4, <4>1
    <3>6. CASE Len(answer.data) < Len(awaited) /\ Len(awaited) + 1 > Room
      <4>1. Len(answer'.data) < Len(awaited') /\ Len(awaited') + 1 > Room
        BY <1>5, <1>10, <3>2, <3>3, <3>6
      <4> QED
        BY <1>9, <3>2, <3>4, <4>1
    <3> QED
      BY <1>9, <3>5, <3>6
  <2>3. CASE IsInput(h) /\ ~(RoomLeft >= size)
    <3>1. answer' = answer /\ awaited' = awaited \o data
      BY <1>1, <1>4, <1>6, <2>3
    <3>2. Len(awaited') = Len(awaited) + size
      BY <1>4, <1>7, <3>1, ConcatProperties
    <3>3. Len(answer.data) < Len(awaited') /\ Len(awaited') + 1 > Room
      BY <1>5, <1>9, <1>10, <2>3, <3>2
    <3> QED
      BY <1>8, <1>9, <3>1, <3>3
  <2> QED
    BY <2>1, <2>2, <2>3
<1>12. TypeOK'
  BY <1>1, <1>4, <1>11 DEF TypeOK
<1>13. Laid'
  BY <1>1, <1>4, <1>11, ItemisedFacts DEF Laid, awaited
<1>14. AnswersInPlace'
  BY <1>1 DEF AnswersInPlace
<1> QED
  BY <1>4, <1>12, <1>13, <1>14 DEF IInv

LEMMA JtagSequenceKeeps == ProperHeaders /\ IInv /\ JtagSequence => IInv'
<1> SUFFICES ASSUME ProperHeaders, IInv, JtagSequence PROVE IInv'
  OBVIOUS
<1> DEFINE h == NextHeader
           x == sent.items[Len(taken) + 1]
           size == IF IsInput(h) THEN Len(NextItem) - 1 ELSE 0
           data == Bytes(Number, "data", size)
           awaited == AwaitedOf(taken)
           more == Awaits(sent.type, x[1], Number)
<1>1. /\ pc = "items" /\ sent.type = "JTAGSequence" /\ HasNext
      /\ IF RoomLeft >= size
         THEN Advance /\ pc' = pc /\ answer' = [answer EXCEPT !.data = @ \o data]
         ELSE pc' = "panicked"
  BY DEF JtagSequence, Serves
<1>2. TypeOK /\ Arrived /\ InStep /\ Laid
  BY DEF IInv
<1>3. /\ h = x[1] /\ h \in Nat /\ NextItem = x
      /\ Len(x) = HostData("JTAGSequence", h) + 1 /\ HostData("JTAGSequence", h) \in Nat
      /\ index + Len(x) - 1 <= Len(payload)
  <2>1. /\ NextHeader = x[1] /\ x[1] \in Nat /\ NextItem = x
        /\ Len(x) = HostData(sent.type, x[1]) + 1
        /\ index + Len(x) - 1 <= Len(payload)
    BY <1>1, <1>2, NextItemIsSent
  <2> QED
    BY <1>1, <2>1, HostDataFacts DEF Itemised
<1>4. HostData("JTAGSequence", h) = ByteCount(Or64(SeqBits(h)))
  BY DEF HostData
<1>5. size \in Nat /\ size <= Len(x) - 1 /\ Len(x) \in Nat
  BY <1>3
<1>6. more = If(IsInput(h), Bytes(Number, "data", Len(x) - 1))
  BY <1>1, <1>3, <1>4 DEF Awaits
<1>7. answer \in Answers /\ answer.data \in Seq(Marks) /\ Len(answer.data) \in Nat
  BY <1>1, <1>2, LenProperties DEF TypeOK, Answers
<1>8. Len(answer.data) + Len(taken) + 2 <= index /\ answer.ok /\ answer.data = awaited
  BY <1>1, <1>2 DEF Laid
<1>9. /\ Len(taken) \in Nat /\ index \in Nat /\ Room \in Nat /\ Begin("JTAGSequence") = 1
      /\ Len(payload) \in Nat /\ Len(payload) <= Room
  <2>1. Len(payload) \in Nat /\ index \in Nat /\ Len(taken) \in Nat
    BY <1>2, LenProperties DEF TypeOK
  <2>2. Len(payload) <= Len(Whole) /\ Len(Whole) <= Room
    BY <1>1, <1>2 DEF Arrived, Itemised
  <2>3. Len(Whole) \in Nat
    <3>1. sent.type \in Itemised
      BY <1>1 DEF Itemised
    <3>2. Whole \in Seq(Nat)
      BY <1>1, <1>2, <3>1, WholeFacts
    <3> QED
      BY <3>2, LenProperties
  <2> QED
    BY <2>1, <2>2, <2>3, SizeFacts, ItemisedFacts
<1> HIDE DEF h, x, size, data, awaited, more
<1>10. RoomLeft = Room - 1 - Len(answer.data)
  BY <1>1, <1>9 DEF RoomLeft
<1>11. RoomLeft >= size
  <2> DEFINE l == Len(x)
             p == Len(payload)
             a == Len(answer.data)
             t == Len(taken)
  <2>1. /\ l \in Nat /\ p \in Nat /\ a \in Nat /\ t \in Nat /\ index \in Nat /\ Room \in Nat
        /\ index + l - 1 <= p /\ p <= Room /\ a + t + 2 <= index
        /\ size \in Nat /\ size <= l - 1 /\ RoomLeft = Room - 1 - a
    BY <1>3, <1>5, <1>7, <1>8, <1>9, <1>10
  <2> HIDE DEF l, p, a, t
  <2> QED
    BY <2>1
<1>12. /\ Advance /\ pc' = pc /\ answer' = [answer EXCEPT !.data = @ \o data]
  BY <1>1, <1>11
<1>13. /\ sent' \in Orders /\ payload' \in Seq(Nat) /\ index' \in Nat /\ left' \in Nat
       /\ taken' \in Seq(Seq(Nat)) /\ Arrived' /\ InStep'
       /\ awaited \in Seq(Marks) /\ more \in Seq(Marks)
       /\ awaited' = awaited \o more
       /\ Len(taken') = Len(taken) + 1 /\ index' = index + Len(x)
       /\ sent' = sent /\ Number \in Nat
  <2>1. pc' \in {"items", "done"}
    BY <1>1, <1>12
  <2> QED
    BY <1>1, <1>2, <1>12, <2>1, AdvanceKeeps, Zenon DEF x, awaited, more
<1>14. data \in Seq(Marks) /\ Len(data) = size
  <2>1. "data" \in Parts
    BY DEF Parts
  <2> QED
    BY <1>5, <1>13, <2>1, BytesFacts DEF data
<1>15. data = more
  <2>1. CASE IsInput(h)
    BY <1>3, <1>6, <2>1 DEF data, size, If
  <2>2. CASE ~IsInput(h)
    <3>1. size = 0 /\ more = <<>>
      BY <1>6, <2>2 DEF size, If
    <3> QED
      BY <1>14, <3>1, EmptySeq
  <2> QED
    BY <2>1, <2>2
<1>16. /\ answer' \in Answers /\ answer'.ok = answer.ok
       /\ answer'.data = answer.data \o data
       /\ Len(answer'.data) = Len(answer.data) + size
  BY <1>7, <1>12, <1>14, AnswerGrows
<1>17. /\ Len(answer'.data) + 1 <= Room
       /\ Len(answer'.data) + Len(taken') + 2 <= index'
  <2>1. Len(answer'.data) + 1 <= Room
    BY <1>5, <1>7, <1>9, <1>10, <1>11, <1>16
  <2>2. Len(answer'.data) + Len(taken') + 2 <= index'
    <3> DEFINE l == Len(x)
               a == Len(answer.data)
               t == Len(taken)
    <3>1. /\ l \in Nat /\ a \in Nat /\ t \in Nat /\ index \in Nat /\ size \in Nat
          /\ a + t + 2 <= index /\ size <= l - 1
          /\ Len(answer'.data) = a + size /\ Len(taken') = t + 1 /\ index' = index + l
      BY <1>5, <1>7, <1>8, <1>9, <1>13, <1>16
    <3> HIDE DEF l, a, t
    <3> QED
      BY <3>1
  <2> QED
    BY <2>1, <2>2
<1>18. TypeOK'
  BY <1>1, <1>12, <1>13, <1>16 DEF TypeOK
<1>19. Laid'
  BY <1>1, <1>8, <1>9, <1>12, <1>13, <1>15, <1>16, <1>17 DEF Laid, awaited
<1>20. AnswersInPlace'
  BY <1>1, <1>12 DEF AnswersInPlace
<1> QED
  BY <1>13, <1>18, <1>19, <1>20 DEF IInv

LEMMA Inductive == ProperHeaders /\ IInv /\ [Next]_vars => IInv'
<1> SUFFICES ASSUME ProperHeaders, IInv, [Next]_vars PROVE IInv'
  OBVIOUS
<1>1. CASE UNCHANGED vars
  <2>1. /\ pc' = pc /\ sent' = sent /\ payload' = payload /\ index' = index
        /\ left' = left /\ taken' = taken /\ answer' = answer
    BY <1>1 DEF vars
  <2>2. TypeOK' /\ Arrived' /\ InStep'
    BY <2>1 DEF IInv, TypeOK, Arrived, Whole, InStep
  <2>3. Laid' /\ AnswersInPlace'
    BY <2>1 DEF IInv, Laid, AnswersInPlace, AwaitedOf
  <2> QED
    BY <2>2, <2>3 DEF IInv
<1>2. CASE HostSendsItems
  BY <1>2, HostSendsItemsKeeps
<1>3. CASE HostSends
  BY <1>3, HostSendsKeeps
<1>4. CASE Refuse
  BY <1>4, RefuseKeeps
<1>5. CASE Handle
  BY <1>5, HandleKeeps
<1>6. CASE Iterate
  BY <1>6, IterateKeeps
<1>7. CASE OneTransfer
  BY <1>7, OneTransferKeeps
<1>8. CASE NoRoom
  BY <1>8, NoRoomKeeps
<1>9. CASE Fails
  BY <1>9, FailsKeeps
<1>10. CASE SwdSequence
  BY <1>10, SwdSequenceKeeps
<1>11. CASE JtagSequence
  BY <1>11, JtagSequenceKeeps
<1>12. CASE Commit
  BY <1>12, CommitKeeps
<1>13. CASE HostReads \/ Restarts
  BY <1>13, ResetKeeps
<1>14. CASE Panics
  BY <1>14, PanicsKeeps
<1> QED
  BY <1>1, <1>2, <1>3, <1>4, <1>5, <1>6, <1>7, <1>8, <1>9, <1>10, <1>11, <1>12, <1>13, <1>14
     DEF Next

\* The invariant: the items taken are the first ones the host sent, the iterator
\* stands behind them, and the answer holds what is awaited for them.
THEOREM CommandsInvariant == ASSUME ProperHeaders PROVE Spec => []IInv
BY InitKeeps, Inductive, PTL DEF Spec

\* The dispatcher executes the items the host wrote, in their order and with their
\* data, and all of them from a packet that is whole (the iterators' next): an
\* iterator that ends by itself on such a packet stands at its end, since an item
\* left would have been found.
THEOREM DispatcherTakesWhatIsSent == ASSUME ProperHeaders PROVE Spec => []TakenAsSent
<1>1. IInv => TakenAsSent
  <2> SUFFICES ASSUME IInv, pc # "idle" PROVE TakenAsSent
    BY DEF TakenAsSent
  <2> DEFINE m == Len(taken)
             n == Len(sent.items)
             x == sent.items[m + 1]
             b == Len(Before(sent.type, 0))
  <2>1. TypeOK /\ Arrived /\ InStep
    BY DEF IInv
  <2>2. sent.items \in Seq(Seq(Nat)) /\ taken \in Seq(Seq(Nat)) /\ n \in Nat /\ m \in Nat
    BY <2>1, LenProperties DEF TypeOK, Orders
  <2>3. m <= n /\ taken = SubSeq(sent.items, 1, m)
    BY <2>1 DEF InStep
  <2>4. IsPrefix(taken, sent.items)
    <3> HIDE DEF m, n
    <3> QED
      BY <2>2, <2>3 DEF IsPrefix, m, n
  <2>5. ASSUME pc = "items", ~HasNext, sent.whole PROVE taken = sent.items
    <3>1. CASE m = n
      BY <2>2, <2>3, <3>1, SubSeqFull
    <3>2. CASE m # n
      <4>1. m \in 0..(n - 1) /\ m + 1 \in 1..n
        BY <2>2, <2>3, <3>2
      <4>2. /\ sent.type \in Itemised /\ left = n - m
            /\ index = b + Len(First(sent.items, m)) + 1
        BY <2>1, <2>5 DEF InStep
      <4>3. /\ b \in 1..2 /\ Len(Whole) = b + Len(FlattenSeq(sent.items))
            /\ FlattenSeq(sent.items) \in Seq(Nat)
            /\ \A i \in 1..Len(FlattenSeq(sent.items)) : Whole[b + i] = FlattenSeq(sent.items)[i]
        BY <2>1, <2>5, <4>2, WholeFacts
      <4>4. /\ Len(payload) = Len(Whole) /\ \A i \in 1..Len(payload) : payload[i] = Whole[i]
            /\ x \in Items(sent.type)
        BY <2>1, <2>5, <4>1, <4>2 DEF Arrived
      <4>5. /\ x \in Seq(Nat) /\ x[1] \in Headers[sent.type] /\ x[1] \in Nat
            /\ Len(x) = HostData(sent.type, x[1]) + 1
            /\ HostData(sent.type, x[1]) \in Nat
            /\ DataLen(sent.type, x[1]) = HostData(sent.type, x[1])
        BY <4>2, <4>4, ItemFacts, HostDataFacts, DataAgreed
      <4> DEFINE start == Len(First(sent.items, m))
                 flat == FlattenSeq(sent.items)
                 d == HostData(sent.type, x[1])
      <4>6. /\ start + Len(x) <= Len(flat)
            /\ \A i \in 1..Len(x) : flat[start + i] = x[i]
        BY <2>2, <4>1, FlattenPlaces
      <4>7. start \in Nat /\ Len(flat) \in Nat
        <5>1. m \in 0..n
          BY <2>2, <4>1
        <5>2. First(sent.items, m) \in Seq(Nat)
          BY <2>2, <5>1, FirstFacts
        <5> QED
          BY <4>3, <5>2, LenProperties
      <4> HIDE DEF m, n, x, b, start, flat, d
      <4>8. /\ b \in 1..2 /\ Len(payload) = b + Len(flat) /\ index = b + start + 1
            /\ d \in Nat /\ Len(x) = d + 1 /\ start + Len(x) <= Len(flat) /\ left > 0
        BY <2>2, <4>1, <4>2, <4>3, <4>4, <4>5, <4>6 DEF start, flat, d
      <4>9. /\ index = b + (start + 1) /\ start + 1 \in 1..Len(flat)
            /\ index \in 1..Len(payload) /\ index + d <= Len(payload) /\ 1 \in 1..Len(x)
        BY <4>7, <4>8
      <4>10. payload[index] = x[1]
        BY <4>3, <4>4, <4>6, <4>9 DEF flat
      <4>11. HasNext
        BY <4>5, <4>8, <4>9, <4>10 DEF HasNext, d
      <4> QED
        BY <2>5, <4>11
    <3> QED
      BY <3>1, <3>2
  <2> QED
    BY <2>4, <2>5 DEF TakenAsSent
<1> QED
  BY <1>1, CommandsInvariant, PTL

\* The host finds in the answer what it awaits where it awaits it, no answer is
\* longer than its packet, and no list of items slices past the end of one: what
\* stops the firmware is only a request it asserts against (the commits of the
\* handlers).
THEOREM AnswersStandInPlace == ASSUME ProperHeaders PROVE Spec => []AnswersInPlace
<1>1. IInv => AnswersInPlace
  BY DEF IInv
<1> QED
  BY <1>1, CommandsInvariant, PTL
=============================================================================

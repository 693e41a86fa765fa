------------------------ MODULE PacketPipelineProofs ------------------------
(***************************************************************************)
(* Theorems about PacketPipeline, for every size of the buffer and of its  *)
(* packets, and every number of packets.                                   *)
(*                                                                         *)
(* That no length is read inside a packet needs to know where each packet  *)
(* ends, and so what Offset, a recursive function, computes for every      *)
(* queue: the first sections prove that, by induction, and what a packet   *)
(* appended or taken does to it.  That no task is forgotten needs the      *)
(* ring's wraps to come late: only then is there a packet to read where    *)
(* the move to the start makes room.  The order of the responses is an     *)
(* invariant of the numbers of all packets under way.                      *)
(***************************************************************************)
EXTENDS PacketPipeline, SequenceTheorems, WellFoundedInduction, TLAPS

-----------------------------------------------------------------------------
(* Induction over the naturals, with a set for the property. *)

LEMMA SetInduction ==
    ASSUME NEW S \in SUBSET Nat, 0 \in S, \A n \in Nat : n \in S => n + 1 \in S
    PROVE  S = Nat
<1> DEFINE T == Nat \ S
           R == OpToRel(<, Nat)
<1>1. IsWellFoundedOn(R, Nat)
  BY NatLessThanWellFounded
<1>2. SUFFICES ASSUME T # {} PROVE FALSE
  OBVIOUS
<1>3. PICK x \in T : \A y \in T : ~(<<y, x>> \in R)
  <2> HIDE DEF R
  <2> QED
    BY <1>1, <1>2, WFMin
<1>4. \A y \in T : ~(y < x)
  BY <1>3 DEF OpToRel
<1>5. x \in Nat \ {0} /\ x - 1 \in Nat \ T
  BY <1>4
<1> QED
  BY <1>5

-----------------------------------------------------------------------------
(* Offset. *)

Sums(w, n, f) == f[0] = 0 /\ \A k \in 0..(n - 1) : f[k + 1] = f[k] + w[k + 1]

\* Numbers have running sums.
LEMMA SumsExist ==
    ASSUME NEW w \in [Nat -> Nat], NEW n \in Nat
    PROVE  \E f \in [Nat -> Nat] : Sums(w, n, f)
<1> DEFINE S == {j \in Nat : \E f \in [Nat -> Nat] : Sums(w, j, f)}
<1>1. 0 \in S
  <2> DEFINE g == [k \in Nat |-> 0]
  <2>1. g \in [Nat -> Nat] /\ Sums(w, 0, g)
    BY DEF Sums
  <2> QED
    BY <2>1
<1>2. ASSUME NEW m \in Nat, NEW f \in [Nat -> Nat], Sums(w, m, f)
      PROVE  \E g \in [Nat -> Nat] : Sums(w, m + 1, g)
  <2> DEFINE g == [f EXCEPT ![m + 1] = f[m] + w[m + 1]]
  <2>1. g \in [Nat -> Nat]
    OBVIOUS
  <2>2. /\ g[m + 1] = f[m] + w[m + 1]
        /\ \A k \in 0..m : g[k] = f[k]
    OBVIOUS
  <2> HIDE DEF g
  <2>3. ASSUME NEW k \in 0..m PROVE g[k + 1] = g[k] + w[k + 1]
    <3>1. CASE k = m
      BY <2>2, <3>1
    <3>2. CASE k # m
      <4>1. k \in 0..(m - 1) /\ k + 1 \in 0..m
        BY <3>2
      <4> QED
        BY <1>2, <2>2, <4>1 DEF Sums
    <3> QED
      BY <3>1, <3>2
  <2>4. Sums(w, m + 1, g)
    BY <1>2, <2>2, <2>3 DEF Sums
  <2> QED
    BY <2>1, <2>4
<1>3. \A j \in Nat : j \in S <=> \E f \in [Nat -> Nat] : Sums(w, j, f)
  OBVIOUS
<1>4. S = Nat
  <2>1. S \in SUBSET Nat
    OBVIOUS
  <2> HIDE DEF S
  <2>2. ASSUME NEW m \in Nat, m \in S PROVE m + 1 \in S
    <3>1. PICK f \in [Nat -> Nat] : Sums(w, m, f)
      BY <1>3, <2>2
    <3>2. \E g \in [Nat -> Nat] : Sums(w, m + 1, g)
      BY <1>2, <3>1
    <3>3. m + 1 \in Nat
      OBVIOUS
    <3> QED
      BY <1>3, <3>2, <3>3
  <2> QED
    BY <1>1, <2>1, <2>2, SetInduction
<1> QED
  BY <1>3, <1>4

\* They are the only ones.
LEMMA SumsUnique ==
    \A w \in [Nat -> Nat], n \in Nat : \A f, g :
        Sums(w, n, f) /\ Sums(w, n, g) => \A k \in 0..n : f[k] = g[k]
<1> SUFFICES ASSUME NEW w \in [Nat -> Nat], NEW n \in Nat, NEW f, NEW g,
                    Sums(w, n, f), Sums(w, n, g)
             PROVE  \A k \in 0..n : f[k] = g[k]
  OBVIOUS
<1> DEFINE S == {j \in Nat : j <= n => f[j] = g[j]}
<1>1. S \in SUBSET Nat /\ 0 \in S
  BY DEF Sums
<1>2. ASSUME NEW m \in Nat, m \in S PROVE m + 1 \in S
  <2>1. CASE m + 1 <= n
    <3>1. m \in 0..(n - 1) /\ f[m] = g[m]
      BY <1>2, <2>1
    <3>2. f[m + 1] = g[m + 1]
      BY <3>1 DEF Sums
    <3> QED
      BY <3>2
  <2>2. CASE ~(m + 1 <= n)
    BY <2>2
  <2> QED
    BY <2>1, <2>2
<1>3. \A j \in Nat : j \in S <=> (j <= n => f[j] = g[j])
  OBVIOUS
<1> HIDE DEF S
<1>4. S = Nat
  BY <1>1, <1>2, SetInduction
<1> QED
  BY <1>3, <1>4

\* A queue's weights, beyond its end too.
Weight(q) == [k \in Nat |-> IF k \in 1..Len(q) THEN Stored(q[k]) ELSE 0]

LEMMA WeightType ==
    ASSUME NEW q \in Seq(Packets)
    PROVE  /\ Len(q) \in Nat /\ Weight(q) \in [Nat -> Nat]
           /\ \A k \in 1..Len(q) : Weight(q)[k] = Stored(q[k]) /\ Stored(q[k]) >= Header
<1>1. Len(q) \in Nat /\ \A k \in 1..Len(q) : q[k] \in Packets
  BY LenProperties, ElementOfSeq
<1>2. \A p \in Packets : Stored(p) \in Nat /\ Stored(p) >= Header
  BY PacketAssumption DEF Packets, Stored
<1>3. \A k \in Nat : (IF k \in 1..Len(q) THEN Stored(q[k]) ELSE 0) \in Nat
  BY <1>1, <1>2
<1> QED
  BY <1>1, <1>2, <1>3 DEF Weight

\* Offset is what its recursive definition says it is.
LEMMA OffsetSums ==
    ASSUME NEW q \in Seq(Packets)
    PROVE  /\ Sums(Weight(q), Len(q), Offset(q))
           /\ \A k \in 0..Len(q) : Offset(q)[k] \in Nat
<1> DEFINE Rec(e) == e = [k \in 0..Len(q) |-> IF k = 0 THEN 0 ELSE e[k - 1] + Stored(q[k])]
<1>1. /\ Len(q) \in Nat /\ Weight(q) \in [Nat -> Nat]
      /\ \A k \in 1..Len(q) : Weight(q)[k] = Stored(q[k])
  BY WeightType
<1>2. PICK f \in [Nat -> Nat] : Sums(Weight(q), Len(q), f)
  BY <1>1, SumsExist
<1> DEFINE r == [k \in 0..Len(q) |-> f[k]]
<1>3. \A k \in 0..Len(q) : f[k] = IF k = 0 THEN 0 ELSE r[k - 1] + Stored(q[k])
  <2>1. f[0] = 0
    BY <1>2 DEF Sums
  <2>2. ASSUME NEW k \in 1..Len(q) PROVE f[k] = r[k - 1] + Stored(q[k])
    <3>1. k - 1 \in 0..(Len(q) - 1) /\ k - 1 \in 0..Len(q) /\ (k - 1) + 1 = k
      BY <1>1
    <3>2. f[(k - 1) + 1] = f[k - 1] + Weight(q)[(k - 1) + 1]
      BY <1>2, <3>1 DEF Sums
    <3> QED
      BY <1>1, <3>1, <3>2
  <2> HIDE DEF r
  <2> QED
    BY <1>1, <2>1, <2>2
<1>4. Rec(r)
  BY <1>3
<1>5. Rec(Offset(q))
  <2>1. Offset(q) = CHOOSE e : Rec(e)
    BY DEF Offset
  <2> HIDE DEF Rec, r
  <2> QED
    BY <1>4, <2>1
<1>6. Sums(Weight(q), Len(q), Offset(q))
  <2> DEFINE e == Offset(q)
  <2>1. Rec(e)
    BY <1>5
  <2> HIDE DEF e
  <2>2. e[0] = 0
    BY <1>1, <2>1
  <2>3. ASSUME NEW k \in 0..(Len(q) - 1) PROVE e[k + 1] = e[k] + Weight(q)[k + 1]
    <3>1. k + 1 \in 1..Len(q) /\ k + 1 \in 0..Len(q) /\ k + 1 # 0 /\ (k + 1) - 1 = k
      BY <1>1
    <3>2. e[k + 1] = e[(k + 1) - 1] + Stored(q[k + 1])
      BY <2>1, <3>1
    <3> QED
      BY <1>1, <3>1, <3>2
  <2> QED
    BY <2>2, <2>3 DEF Sums, e
<1>7. \A k \in 0..Len(q) : Offset(q)[k] = f[k]
  <2> HIDE DEF Rec, r
  <2>1. \A a, b : Sums(Weight(q), Len(q), a) /\ Sums(Weight(q), Len(q), b)
                  => \A k \in 0..Len(q) : a[k] = b[k]
    BY <1>1, SumsUnique, Zenon
  <2> QED
    BY <1>2, <1>6, <2>1, Zenon
<1>8. \A k \in 0..Len(q) : f[k] \in Nat
  BY <1>1
<1> QED
  BY <1>6, <1>7, <1>8

\* It is the only one to sum the queue's weights.
LEMMA OffsetUnique ==
    ASSUME NEW q \in Seq(Packets), NEW f, Sums(Weight(q), Len(q), f)
    PROVE  \A k \in 0..Len(q) : f[k] = Offset(q)[k]
<1>1. \A a, b : Sums(Weight(q), Len(q), a) /\ Sums(Weight(q), Len(q), b)
                => \A k \in 0..Len(q) : a[k] = b[k]
  BY WeightType, SumsUnique, Zenon
<1> QED
  BY <1>1, OffsetSums, Zenon

\* A packet queued ends where it must, and moves no other.
LEMMA OffsetAppend ==
    ASSUME NEW q \in Seq(Packets), NEW p \in Packets
    PROVE  LET s == Append(q, p)
           IN  /\ s \in Seq(Packets) /\ Len(s) = Len(q) + 1
               /\ \A k \in 0..Len(q) : Offset(s)[k] = Offset(q)[k]
               /\ Offset(s)[Len(q) + 1] = Offset(q)[Len(q)] + Stored(p)
<1> DEFINE s == Append(q, p)
<1>1. /\ Len(q) \in Nat /\ s \in Seq(Packets) /\ Len(s) = Len(q) + 1
      /\ s[Len(q) + 1] = p /\ \A k \in 1..Len(q) : s[k] = q[k]
  BY AppendProperties, LenProperties
<1> HIDE DEF s
<1>2. /\ \A k \in 1..Len(q) : Weight(s)[k] = Weight(q)[k]
      /\ Weight(s)[Len(q) + 1] = Stored(p)
  <2>1. /\ \A k \in 1..Len(s) : Weight(s)[k] = Stored(s[k])
        /\ \A k \in 1..Len(q) : Weight(q)[k] = Stored(q[k])
    BY <1>1, WeightType, Zenon
  <2>2. Len(q) + 1 \in 1..Len(s) /\ \A k \in 1..Len(q) : k \in 1..Len(s)
    BY <1>1
  <2> QED
    BY <1>1, <2>1, <2>2, Zenon
<1>3. /\ Offset(s)[0] = 0
      /\ \A k \in 0..Len(q) : Offset(s)[k + 1] = Offset(s)[k] + Weight(s)[k + 1]
  <2>1. Sums(Weight(s), Len(s), Offset(s))
    BY <1>1, OffsetSums
  <2>2. 0..(Len(s) - 1) = 0..Len(q)
    BY <1>1
  <2> QED
    BY <2>1, <2>2 DEF Sums
<1>4. Sums(Weight(q), Len(q), Offset(s))
  <2>1. \A k \in 0..(Len(q) - 1) : k \in 0..Len(q) /\ k + 1 \in 1..Len(q)
    BY <1>1
  <2> QED
    BY <1>2, <1>3, <2>1 DEF Sums
<1>5. \A k \in 0..Len(q) : Offset(s)[k] = Offset(q)[k]
  BY <1>4, OffsetUnique
<1>6. Offset(s)[Len(q) + 1] = Offset(q)[Len(q)] + Stored(p)
  <2>1. Len(q) \in 0..Len(q)
    BY <1>1
  <2> QED
    BY <1>2, <1>3, <1>5, <2>1
<1> QED
  BY <1>1, <1>5, <1>6 DEF s

\* Taking the first packet moves all the others forward by its size.
LEMMA OffsetTail ==
    ASSUME NEW q \in Seq(Packets), q # <<>>
    PROVE  /\ Tail(q) \in Seq(Packets) /\ Len(Tail(q)) = Len(q) - 1
           /\ Head(q) \in Packets /\ Offset(q)[1] = Stored(Head(q))
           /\ \A k \in 0..Len(Tail(q)) :
                 Offset(Tail(q))[k] = Offset(q)[k + 1] - Stored(Head(q))
<1> DEFINE s == Tail(q)
           f == [k \in Nat |-> Offset(q)[k + 1] - Stored(q[1])]
<1>1. /\ Len(q) \in Nat \ {0} /\ s \in Seq(Packets) /\ Len(s) = Len(q) - 1
      /\ \A k \in 1..Len(s) : s[k] = q[k + 1]
      /\ Head(q) = q[1] /\ q[1] \in Packets
  BY HeadTailProperties, EmptySeq, LenProperties, ElementOfSeq
<1> HIDE DEF s
<1>2. Stored(q[1]) \in Nat
  BY <1>1, PacketAssumption DEF Packets, Stored
<1>3. /\ Offset(q)[0] = 0
      /\ \A k \in 0..(Len(q) - 1) : Offset(q)[k + 1] = Offset(q)[k] + Weight(q)[k + 1]
      /\ \A k \in 0..Len(q) : Offset(q)[k] \in Nat
  BY OffsetSums DEF Sums
<1>4. \A k \in 1..Len(q) : Weight(q)[k] = Stored(q[k])
  BY WeightType
<1>5. Offset(q)[1] = Stored(q[1])
  <2>1. 0 \in 0..(Len(q) - 1) /\ 1 \in 1..Len(q) /\ 0 + 1 = 1
    BY <1>1
  <2>2. Offset(q)[0 + 1] = Offset(q)[0] + Weight(q)[0 + 1]
    BY <1>3, <2>1
  <2> QED
    BY <1>2, <1>3, <1>4, <2>1, <2>2
<1>6. Sums(Weight(s), Len(s), f)
  <2>1. f[0] = 0
    <3>1. f[0] = Offset(q)[0 + 1] - Stored(q[1])
      OBVIOUS
    <3> QED
      BY <1>2, <1>5, <3>1
  <2>2. ASSUME NEW k \in 0..(Len(s) - 1) PROVE f[k + 1] = f[k] + Weight(s)[k + 1]
    <3>1. /\ k + 1 \in 1..Len(s) /\ k + 1 \in 0..(Len(q) - 1) /\ (k + 1) + 1 \in 1..Len(q)
          /\ k + 1 \in 0..Len(q) /\ (k + 1) + 1 \in 0..Len(q)
      BY <1>1
    <3>2. Weight(s)[k + 1] = Weight(q)[(k + 1) + 1]
      <4>1. Weight(s)[k + 1] = Stored(s[k + 1])
        BY <1>1, <3>1, WeightType
      <4> QED
        BY <1>1, <1>4, <3>1, <4>1
    <3>3. Offset(q)[(k + 1) + 1] = Offset(q)[k + 1] + Weight(q)[(k + 1) + 1]
      BY <1>3, <3>1
    <3>4. f[k + 1] = Offset(q)[(k + 1) + 1] - Stored(q[1]) /\ f[k] = Offset(q)[k + 1] - Stored(q[1])
      BY <3>1
    <3>5. Offset(q)[k + 1] \in Nat /\ Offset(q)[(k + 1) + 1] \in Nat
      BY <1>3, <3>1
    <3>6. Weight(q)[(k + 1) + 1] \in Nat
      BY <3>1, WeightType
    <3> HIDE DEF f
    <3> QED
      BY <1>2, <3>2, <3>3, <3>4, <3>5, <3>6
  <2> HIDE DEF f
  <2> QED
    BY <2>1, <2>2 DEF Sums
<1>7. \A k \in 0..Len(s) : f[k] = Offset(s)[k]
  <2> HIDE DEF f
  <2> QED
    BY <1>1, <1>6, OffsetUnique
<1>8. \A k \in 0..Len(s) : Offset(s)[k] = Offset(q)[k + 1] - Stored(q[1])
  <2>1. \A k \in 0..Len(s) : f[k] = Offset(q)[k + 1] - Stored(q[1])
    BY <1>1
  <2> HIDE DEF f
  <2> QED
    BY <1>7, <2>1
<1> QED
  BY <1>1, <1>5, <1>8 DEF s

\* A packet ends at least a header after the one before it.
LEMMA OffsetGrows ==
    ASSUME NEW q \in Seq(Packets), NEW m \in 0..Len(q)
    PROVE  \A k \in 0..Len(q) : k > m => Offset(q)[k] >= Offset(q)[m] + Header
<1> DEFINE S == {j \in Nat : m + 1 + j <= Len(q) => Offset(q)[m + 1 + j] >= Offset(q)[m] + Header}
<1>1. /\ Len(q) \in Nat /\ Header \in Nat
      /\ \A k \in 0..Len(q) : Offset(q)[k] \in Nat
      /\ \A k \in 0..(Len(q) - 1) : Offset(q)[k + 1] >= Offset(q)[k] + Header
  <2>1. ASSUME NEW k \in 0..(Len(q) - 1) PROVE Offset(q)[k + 1] >= Offset(q)[k] + Header
    <3>1. k + 1 \in 1..Len(q) /\ k \in 0..Len(q) /\ k + 1 \in 0..Len(q)
      BY WeightType
    <3>2. Offset(q)[k + 1] = Offset(q)[k] + Stored(q[k + 1])
      BY <3>1, WeightType, OffsetSums DEF Sums
    <3>3. Stored(q[k + 1]) >= Header /\ Offset(q)[k] \in Nat /\ Offset(q)[k + 1] \in Nat
      BY <3>1, WeightType, OffsetSums
    <3>4. Header \in Nat /\ Stored(q[k + 1]) \in Nat
      <4>1. q[k + 1] \in Packets
        BY <3>1, ElementOfSeq
      <4> QED
        BY <4>1, PacketAssumption DEF Packets, Stored
    <3> QED
      BY <3>2, <3>3, <3>4
  <2> QED
    BY <2>1, WeightType, OffsetSums, PacketAssumption
<1>2. S \in SUBSET Nat /\ 0 \in S
  BY <1>1
<1>3. ASSUME NEW j \in Nat, j \in S PROVE j + 1 \in S
  <2>1. CASE m + 1 + (j + 1) <= Len(q)
    <3>1. m + 1 + j \in 0..(Len(q) - 1) /\ m + 1 + j \in 0..Len(q)
      BY <1>1, <2>1
    <3>2. Offset(q)[m + 1 + j] >= Offset(q)[m] + Header
      BY <1>1, <1>3, <3>1
    <3>3. Offset(q)[(m + 1 + j) + 1] >= Offset(q)[m + 1 + j] + Header
      BY <1>1, <3>1
    <3>4. /\ (m + 1 + j) + 1 = m + 1 + (j + 1) /\ (m + 1 + j) + 1 \in 0..Len(q)
          /\ Offset(q)[(m + 1 + j) + 1] \in Nat /\ Offset(q)[m + 1 + j] \in Nat
          /\ Offset(q)[m] \in Nat
      BY <1>1, <2>1, <3>1
    <3>5. Offset(q)[m + 1 + (j + 1)] >= Offset(q)[m] + Header
      BY <1>1, <3>2, <3>3, <3>4
    <3> QED
      BY <3>5
  <2>2. CASE ~(m + 1 + (j + 1) <= Len(q))
    BY <2>2
  <2> QED
    BY <2>1, <2>2
<1>4. \A j \in Nat : j \in S <=>
        (m + 1 + j <= Len(q) => Offset(q)[m + 1 + j] >= Offset(q)[m] + Header)
  OBVIOUS
<1> HIDE DEF S
<1>5. S = Nat
  BY <1>2, <1>3, SetInduction
<1> SUFFICES ASSUME NEW k \in 0..Len(q), k > m PROVE Offset(q)[k] >= Offset(q)[m] + Header
  OBVIOUS
<1>6. PICK j \in Nat : m + 1 + j = k
  <2>1. k - m - 1 \in Nat /\ m + 1 + (k - m - 1) = k
    BY <1>1
  <2> QED
    BY <2>1
<1>7. m + 1 + j <= Len(q) /\ j \in S
  BY <1>1, <1>5, <1>6
<1> QED
  BY <1>4, <1>6, <1>7
-----------------------------------------------------------------------------
(* The inductive invariant. *)

TypeOK ==
    /\ usbUp \in BOOLEAN /\ aborted \in BOOLEAN
    /\ sent \in 0..MaxSent /\ got \in Nat
    /\ outSlot \in SUBSET Packets /\ inSlot \in SUBSET Nat /\ gone \in SUBSET Nat
    /\ reader \in {"disabled", "granting", "reading"}
    /\ dispatcher \in {"waiting", "handling", "writing"}
    /\ ring \in Q!Rings /\ queue \in Seq(Packets)
    /\ produceSignal \in BOOLEAN /\ consumeSignal \in BOOLEAN

\* Ring r holds the packets of q: together they are the bytes in it, the wrap is
\* between two of them, and it comes only where a grant would not fit any more.
Holds(r, q) ==
    /\ r \in Q!Rings /\ Q!WellFormed(r)
    /\ Q!Used(r) = Offset(q)[Len(q)]
    /\ \E k \in 0..Len(q) : Q!Contiguous(r) = Offset(q)[k]
    /\ Q!Inverted(r) => r.last + Grant > BufferSize

\* What the two tasks have in hand is in the ring.
InHand ==
    /\ dispatcher # "waiting" => HasPacket(ring)
    /\ reader = "reading" => Q!CanGrant(ring, Grant)

\* The packets are numbered from the host's last answer on: first the response
\* in the endpoint, then the queue, then the request in the endpoint, and what is
\* in none of them is gone.
Numbered ==
    /\ \A n \in inSlot : got < n /\ n <= sent /\ inSlot = {n}
    /\ \A i \in 1..Len(queue) :
          /\ got < queue[i].n /\ queue[i].n <= sent
          /\ \A n \in inSlot : n < queue[i].n
          /\ \A j \in 1..Len(queue) : i < j => queue[i].n < queue[j].n
    /\ \A p \in outSlot :
          /\ got < p.n /\ p.n <= sent /\ outSlot = {p}
          /\ \A n \in inSlot : n < p.n
          /\ \A i \in 1..Len(queue) : queue[i].n < p.n
    /\ got <= sent
    /\ \A n \in (got + 1)..sent :
          \/ n \in gone \/ n \in inSlot
          \/ \E i \in 1..Len(queue) : queue[i].n = n
          \/ \E p \in outSlot : p.n = n

IInv ==
    /\ TypeOK /\ Holds(ring, queue) /\ InHand
    /\ ReaderIsWoken /\ StallsOnlyOnEmpty /\ Numbered

\* What has no response is counted as gone from the moment it was sent.
InPipeline == outSlot \cup {queue[i] : i \in 1..Len(queue)}
Quiet == \A p \in InPipeline : p.kind # "command" => p.n \in gone
-----------------------------------------------------------------------------
(* What the operations on the ring do to the packets in it. *)

LEMMA GrantFacts ==
    /\ BufferSize \in Nat /\ Header \in Nat \ {0} /\ MaxPacket \in Nat
    /\ Grant \in Nat /\ BufferSize >= 2 * Grant + Header
    /\ \A p \in Packets : Stored(p) \in 0..Grant /\ Stored(p) >= Header /\ p.size \in Nat
<1>1. /\ BufferSize \in Nat /\ Header \in Nat \ {0} /\ MaxPacket \in Nat
      /\ Grant \in Nat /\ BufferSize >= 2 * Grant + Header
  BY PacketAssumption DEF Grant
<1>2. ASSUME NEW p \in Packets
      PROVE  Stored(p) \in 0..Grant /\ Stored(p) >= Header /\ p.size \in Nat
  <2>1. p.size \in 0..MaxPacket
    BY DEF Packets
  <2> QED
    BY <1>1, <2>1 DEF Stored, Grant
<1> QED
  BY <1>1, <1>2

\* What can be read are whole packets from the first on, and none only when the
\* queue is empty.
LEMMA ReadableFacts ==
    ASSUME NEW r, NEW q \in Seq(Packets), Holds(r, q)
    PROVE  /\ Q!Readable(r) \in Nat
           /\ \E k \in 0..Len(q) : Q!Readable(r) = Offset(q)[k]
           /\ Q!Readable(r) > 0 => q # <<>>
           /\ q # <<>> => Q!Readable(r) >= Stored(Head(q))
<1>1. /\ r \in Q!Rings /\ Q!WellFormed(r) /\ BufferSize \in Nat /\ Header \in Nat \ {0}
      /\ Q!Used(r) = Offset(q)[Len(q)]
  BY GrantFacts DEF Holds
<1>2. PICK k \in 0..Len(q) : Q!Contiguous(r) = Offset(q)[k]
  BY DEF Holds
<1>3. /\ Q!Readable(r) \in Nat /\ Q!Used(r) \in Nat
      /\ Q!Readable(r) = 0 => Q!Used(r) = 0
      /\ Q!Readable(r) <= Q!Used(r)
  BY <1>1, Q!CountFacts
<1>4. Q!Readable(r) = Q!Contiguous(r) \/ Q!Readable(r) = Q!Used(r)
  BY <1>1 DEF Q!Readable, Q!Settled, Q!Contiguous, Q!Used, Q!Inverted, Q!Rings
<1>5. /\ Len(q) \in 0..Len(q) /\ 0 \in 0..Len(q) /\ Offset(q)[0] = 0
      /\ \A j \in 0..Len(q) : Offset(q)[j] \in Nat
  BY OffsetSums, LenProperties DEF Sums
<1>6. PICK j \in 0..Len(q) : Q!Readable(r) = Offset(q)[j]
  BY <1>1, <1>2, <1>4, <1>5
<1>7. Q!Readable(r) > 0 => q # <<>>
  <2>1. SUFFICES ASSUME q = <<>> PROVE Q!Readable(r) = 0
    BY <1>3
  <2>2. j = 0
    BY <1>6, <2>1, EmptySeq
  <2> QED
    BY <1>5, <1>6, <2>2
<1>8. ASSUME q # <<>> PROVE Q!Readable(r) >= Stored(Head(q))
  <2>1. /\ Len(q) \in Nat \ {0} /\ Offset(q)[1] = Stored(Head(q)) /\ Stored(Head(q)) \in Nat
        /\ 1 \in 0..Len(q) /\ Len(q) > 0
    BY <1>8, EmptySeq, OffsetTail, GrantFacts
  <2>2. Offset(q)[Len(q)] >= Offset(q)[0] + Header
    BY <1>5, <2>1, OffsetGrows
  <2>3. Q!Readable(r) > 0
    BY <1>1, <1>3, <1>5, <2>2
  <2>4. j \in 1..Len(q)
    BY <1>5, <1>6, <2>1, <2>3
  <2>5. CASE j = 1
    BY <1>6, <2>1, <2>5
  <2>6. CASE j > 1
    <3>1. Offset(q)[j] >= Offset(q)[1] + Header
      BY <2>1, <2>6, OffsetGrows
    <3>2. Q!Readable(r) >= Stored(Head(q)) + Header
      BY <1>6, <2>1, <3>1
    <3> QED
      BY <1>1, <1>3, <2>1, <3>2
  <2> QED
    BY <2>4, <2>5, <2>6
<1> QED
  BY <1>3, <1>6, <1>7, <1>8

LEMMA HoldsSettled ==
    ASSUME NEW r, NEW q \in Seq(Packets), Holds(r, q)
    PROVE  /\ Holds(Q!Settled(r), q)
           /\ Q!Readable(Q!Settled(r)) = Q!Readable(r)
           /\ Q!CanGrant(r, Grant) => Q!CanGrant(Q!Settled(r), Grant)
<1>1. /\ r \in Q!Rings /\ Q!WellFormed(r) /\ BufferSize \in Nat /\ Grant \in Nat
      /\ Q!Used(r) = Offset(q)[Len(q)]
      /\ Q!Inverted(r) => r.last + Grant > BufferSize
  BY GrantFacts DEF Holds
<1> DEFINE t == Q!Settled(r)
<1>2. /\ Q!WellFormed(t) /\ Q!Used(t) = Q!Used(r) /\ Q!Readable(t) = Q!Readable(r)
      /\ t.last = r.last /\ (Q!Inverted(t) => Q!Inverted(r))
      /\ Q!CanGrant(r, Grant) => Q!CanGrant(t, Grant)
  BY <1>1, Q!SettledFacts
<1>3. Q!Contiguous(t) = Q!Readable(r)
  BY DEF Q!Readable
<1> HIDE DEF t
<1>4. PICK k \in 0..Len(q) : Q!Readable(r) = Offset(q)[k]
  BY ReadableFacts
<1>5. t \in Q!Rings
  BY <1>2 DEF Q!WellFormed
<1>6. Holds(t, q)
  BY <1>1, <1>2, <1>3, <1>4, <1>5 DEF Holds
<1> QED
  BY <1>2, <1>6 DEF t

\* A packet committed is in the ring behind the others.
LEMMA HoldsCommitted ==
    ASSUME NEW r, NEW q \in Seq(Packets), Holds(r, q), Q!CanGrant(r, Grant), NEW p \in Packets
    PROVE  LET c == Q!Committed(r, Grant, Header + p.size)
           IN  Holds(c, Append(q, p)) /\ Q!Readable(c) >= Q!Readable(r)
<1> DEFINE c == Q!Committed(r, Grant, Header + p.size)
           s == Append(q, p)
<1>1. /\ r \in Q!Rings /\ Q!WellFormed(r) /\ BufferSize \in Nat /\ Grant \in Nat
      /\ Q!Used(r) = Offset(q)[Len(q)]
      /\ Q!Inverted(r) => r.last + Grant > BufferSize
      /\ Header + p.size \in 0..Grant
  BY GrantFacts DEF Holds, Stored
<1>2. /\ Q!WellFormed(c)
      /\ Q!Used(c) = Q!Used(r) + (Header + p.size)
      /\ Q!Readable(c) >= Q!Readable(r)
      /\ Q!Inverted(c) => Q!Contiguous(c) = Q!Contiguous(r)
      /\ Q!Inverted(r) => c.last = r.last
      /\ ~Q!Inverted(r) /\ Q!Inverted(c) => c.last + Grant > BufferSize
  BY <1>1, Q!CommittedFacts
<1> HIDE DEF c
<1>3. c \in Q!Rings
  BY <1>2 DEF Q!WellFormed
<1>4. ~Q!Inverted(c) => Q!Contiguous(c) = Q!Used(c)
  BY <1>1, <1>2, <1>3, Q!CountFacts
<1>5. /\ Len(s) = Len(q) + 1 /\ Len(q) \in Nat
      /\ \A k \in 0..Len(q) : Offset(s)[k] = Offset(q)[k]
      /\ Offset(s)[Len(q) + 1] = Offset(q)[Len(q)] + (Header + p.size)
  BY OffsetAppend, LenProperties DEF Stored
<1> HIDE DEF s
<1>6. Q!Used(c) = Offset(s)[Len(s)]
  BY <1>1, <1>2, <1>5
<1>7. \E k \in 0..Len(s) : Q!Contiguous(c) = Offset(s)[k]
  <2>1. CASE Q!Inverted(c)
    <3>1. PICK k \in 0..Len(q) : Q!Contiguous(r) = Offset(q)[k]
      BY DEF Holds
    <3>2. k \in 0..Len(s)
      BY <1>5
    <3> QED
      BY <1>2, <1>5, <2>1, <3>1, <3>2
  <2>2. CASE ~Q!Inverted(c)
    <3>1. Len(s) \in 0..Len(s)
      BY <1>5
    <3> QED
      BY <1>4, <1>6, <2>2, <3>1
  <2> QED
    BY <2>1, <2>2
<1>8. Q!Inverted(c) => c.last + Grant > BufferSize
  BY <1>1, <1>2
<1>9. Holds(c, s)
  BY <1>2, <1>3, <1>6, <1>7, <1>8 DEF Holds
<1> QED
  BY <1>2, <1>9 DEF c, s

\* A grant given back leaves them as they were.
LEMMA HoldsDropped ==
    ASSUME NEW r, NEW q \in Seq(Packets), Holds(r, q), Q!CanGrant(r, Grant)
    PROVE  LET c == Q!Committed(r, Grant, 0)
           IN  Holds(c, q) /\ Q!Readable(c) = Q!Readable(r)
<1> DEFINE c == Q!Committed(r, Grant, 0)
<1>1. /\ r \in Q!Rings /\ Q!WellFormed(r) /\ BufferSize \in Nat /\ Grant \in Nat
      /\ Q!Used(r) = Offset(q)[Len(q)]
      /\ Q!Inverted(r) => r.last + Grant > BufferSize
      /\ 0 \in 0..Grant
  BY GrantFacts DEF Holds
<1>2. /\ Q!WellFormed(c)
      /\ Q!Used(c) = Q!Used(r) + 0
      /\ Q!Readable(c) = Q!Readable(r)
      /\ Q!Inverted(c) => Q!Contiguous(c) = Q!Contiguous(r)
      /\ Q!Inverted(r) => c.last = r.last
      /\ ~Q!Inverted(r) /\ Q!Inverted(c) => c.last + Grant > BufferSize
  BY <1>1, Q!CommittedFacts
<1> HIDE DEF c
<1>3. c \in Q!Rings
  BY <1>2 DEF Q!WellFormed
<1>4. ~Q!Inverted(c) => Q!Contiguous(c) = Q!Used(c)
  BY <1>1, <1>2, <1>3, Q!CountFacts
<1>5. Q!Used(c) = Q!Used(r)
  BY <1>1, <1>2, Q!CountFacts
<1>6. \E k \in 0..Len(q) : Q!Contiguous(c) = Offset(q)[k]
  <2>1. Len(q) \in 0..Len(q)
    BY LenProperties
  <2> QED
    BY <1>1, <1>2, <1>4, <1>5, <2>1 DEF Holds
<1>7. Q!Inverted(c) => c.last + Grant > BufferSize
  BY <1>1, <1>2
<1>8. Holds(c, q)
  BY <1>1, <1>2, <1>3, <1>5, <1>6, <1>7 DEF Holds
<1> QED
  BY <1>2, <1>8 DEF c

\* The first packet released leaves the others.
LEMMA HoldsReleased ==
    ASSUME NEW r, NEW q \in Seq(Packets), Holds(r, q), Q!Readable(r) > 0
    PROVE  LET c == Q!Released(r, Header + Head(q).size)
           IN  /\ Holds(c, Tail(q))
               /\ Q!CanGrant(r, Grant) => Q!CanGrant(c, Grant)
<1> DEFINE n == Header + Head(q).size
           c == Q!Released(r, n)
           s == Tail(q)
<1>1. /\ r \in Q!Rings /\ Q!WellFormed(r) /\ BufferSize \in Nat /\ Grant \in Nat
      /\ Q!Used(r) = Offset(q)[Len(q)]
      /\ Q!Inverted(r) => r.last + Grant > BufferSize
  BY GrantFacts DEF Holds
<1>2. /\ q # <<>> /\ Q!Readable(r) \in Nat /\ Q!Readable(r) >= n
  BY ReadableFacts DEF Stored
<1>3. PICK k \in 0..Len(q) : Q!Readable(r) = Offset(q)[k]
  BY ReadableFacts
<1>4. /\ Len(q) \in Nat \ {0} /\ s \in Seq(Packets) /\ Len(s) = Len(q) - 1
      /\ n \in Nat
      /\ \A j \in 0..Len(s) : Offset(s)[j] = Offset(q)[j + 1] - n
  BY <1>2, EmptySeq, OffsetTail, GrantFacts DEF Stored
<1> HIDE DEF n, s
<1>5. n \in 0..Q!Readable(r)
  BY <1>2, <1>4
<1>6. /\ Q!WellFormed(c) /\ Q!Used(c) = Q!Used(r) - n
      /\ Q!Contiguous(c) = Q!Readable(r) - n
      /\ c.last = r.last /\ Q!Inverted(c) = Q!Inverted(Q!Settled(r))
      /\ Q!CanGrant(r, Grant) => Q!CanGrant(c, Grant)
  BY <1>1, <1>5, Q!ReleasedFacts
<1> HIDE DEF c
<1>7. c \in Q!Rings
  BY <1>6 DEF Q!WellFormed
<1>8. Q!Used(c) = Offset(s)[Len(s)]
  <2>1. Len(s) \in 0..Len(s) /\ Len(s) + 1 = Len(q)
    BY <1>4
  <2> QED
    BY <1>1, <1>4, <1>6, <2>1
<1>9. \E j \in 0..Len(s) : Q!Contiguous(c) = Offset(s)[j]
  <2>1. Offset(q)[0] = 0
    BY OffsetSums DEF Sums
  <2>2. k # 0
    BY <1>2, <1>3, <2>1
  <2>3. k - 1 \in 0..Len(s) /\ (k - 1) + 1 = k
    BY <1>4, <2>2
  <2>4. Offset(s)[k - 1] = Offset(q)[k] - n
    BY <1>4, <2>3
  <2> QED
    BY <1>3, <1>6, <2>3, <2>4
<1>10. Q!Inverted(c) => c.last + Grant > BufferSize
  <2>1. Q!Inverted(Q!Settled(r)) => Q!Inverted(r)
    BY <1>1, Q!SettledFacts
  <2> QED
    BY <1>1, <1>6, <2>1
<1>11. Holds(c, s)
  BY <1>6, <1>7, <1>8, <1>9, <1>10 DEF Holds
<1> QED
  BY <1>6, <1>11 DEF c, n, s

\* Over an empty packet alone, or none, the dispatcher goes to sleep.
LEMMA FetchFacts ==
    ASSUME NEW r, NEW q \in Seq(Packets), Holds(r, q), NEW signal \in BOOLEAN, Fetch(r, signal)
    PROVE  /\ Holds(ring', q)
           /\ Q!CanGrant(r, Grant) => Q!CanGrant(ring', Grant)
           /\ dispatcher' \in {"waiting", "handling", "writing"} /\ produceSignal' \in BOOLEAN
           /\ dispatcher' # "waiting" => HasPacket(ring')
           /\ dispatcher' = "waiting" => ~HasPacket(r)
           /\ dispatcher' = "waiting" /\ q # <<>> =>
                Head(q).size = 0 /\ Q!Readable(ring') = Header
<1>1. ring' = Q!Settled(r)
  BY DEF Fetch
<1>2. /\ Holds(ring', q) /\ Q!Readable(ring') = Q!Readable(r)
      /\ Q!CanGrant(r, Grant) => Q!CanGrant(ring', Grant)
  BY <1>1, HoldsSettled
<1>3. /\ dispatcher' \in {"waiting", "handling", "writing"} /\ produceSignal' \in BOOLEAN
      /\ dispatcher' # "waiting" => HasPacket(r)
      /\ dispatcher' = "waiting" => ~HasPacket(r)
  BY DEF Fetch
<1>4. dispatcher' # "waiting" => HasPacket(ring')
  BY <1>2, <1>3 DEF HasPacket
<1>5. ASSUME dispatcher' = "waiting", q # <<>>
      PROVE  Head(q).size = 0 /\ Q!Readable(ring') = Header
  <2>1. /\ Head(q) \in Packets /\ Q!Readable(r) >= Header + Head(q).size
        /\ Q!Readable(r) \in Nat
    BY <1>5, OffsetTail, ReadableFacts DEF Stored
  <2>2. ~(Q!Readable(r) > Header)
    BY <1>3, <1>5 DEF HasPacket
  <2>3. Head(q).size \in Nat /\ Header \in Nat
    BY <2>1, GrantFacts
  <2> QED
    BY <1>2, <2>1, <2>2, <2>3
<1> QED
  BY <1>2, <1>3, <1>4, <1>5

\* The reader sleeps only when a grant would not fit.
LEMMA AskGrantFacts ==
    ASSUME NEW r, NEW signal \in BOOLEAN, AskGrant(r, signal)
    PROVE  /\ reader' \in {"granting", "reading"} /\ consumeSignal' \in BOOLEAN
           /\ reader' = "reading" <=> Q!CanGrant(r, Grant)
BY DEF AskGrant

-----------------------------------------------------------------------------
(* The invariant holds, one action after the other. *)

LEMMA InitInvariant == Init => IInv
<1> SUFFICES ASSUME Init PROVE IInv
  OBVIOUS
<1>1. queue \in Seq(Packets) /\ Len(queue) = 0 /\ queue = <<>>
  BY EmptySeq DEF Init
<1>2. /\ Q!WellFormed(ring) /\ Q!Used(ring) = 0 /\ ~Q!Inverted(ring)
  BY Q!EmptyFacts, GrantFacts DEF Init
<1>3. ring \in Q!Rings
  BY <1>2 DEF Q!WellFormed
<1>4. Q!Contiguous(ring) = 0
  BY <1>2, <1>3, Q!CountFacts, GrantFacts
<1>5. Offset(queue)[0] = 0
  BY <1>1, OffsetSums DEF Sums
<1>6. 0 \in 0..Len(queue)
  BY <1>1
<1>7. Holds(ring, queue)
  BY <1>1, <1>2, <1>3, <1>4, <1>5, <1>6 DEF Holds
<1>8. TypeOK
  <2>1. sent \in 0..MaxSent /\ got \in Nat
    BY PacketAssumption DEF Init
  <2>2. outSlot \in SUBSET Packets /\ inSlot \in SUBSET Nat /\ gone \in SUBSET Nat
    BY DEF Init
  <2> QED
    BY <1>1, <1>3, <2>1, <2>2, Zenon DEF Init, TypeOK
<1>9. Numbered
  BY <1>1 DEF Init, Numbered
<1> QED
  BY <1>1, <1>7, <1>8, <1>9 DEF Init, IInv, InHand, ReaderIsWoken, StallsOnlyOnEmpty

\* What only the ring, the queue and the two tasks decide.
Tasks ==
    /\ Holds(ring, queue) /\ InHand /\ ReaderIsWoken /\ StallsOnlyOnEmpty

LEMMA TasksUnchanged ==
    ASSUME Tasks, UNCHANGED <<bufVars, reader, dispatcher>>
    PROVE  Tasks'
BY DEF Tasks, InHand, ReaderIsWoken, StallsOnlyOnEmpty, bufVars, HasPacket

LEMMA TypeOfPacket ==
    ASSUME TypeOK, sent < MaxSent, NEW size \in Sizes, NEW kind \in Kinds
    PROVE  [n |-> sent + 1, size |-> size, kind |-> kind] \in Packets
<1>1. sent + 1 \in 1..MaxSent /\ size \in 0..MaxPacket
  BY PacketAssumption DEF TypeOK
<1> QED
  BY <1>1 DEF Packets

LEMMA HostSendsKeeps ==
    ASSUME IInv, NEW size \in Sizes, NEW kind \in Kinds, HostSends(size, kind)
    PROVE  IInv'
<1> DEFINE p == [n |-> sent + 1, size |-> size, kind |-> kind]
<1>1. p \in Packets /\ p.n = sent + 1
  BY TypeOfPacket DEF HostSends, IInv
<1> HIDE DEF p
<1>2. /\ outSlot' = {p} /\ outSlot = {} /\ sent' = sent + 1 /\ sent < MaxSent
      /\ UNCHANGED <<got, usbUp, inSlot, reader, ring, queue, produceSignal, consumeSignal,
                     dispatcher, aborted>>
      /\ gone \subseteq gone' /\ gone' \subseteq gone \cup {sent + 1}
  BY DEF HostSends, p, bufVars
<1>3. TypeOK'
  <2>1. sent' \in 0..MaxSent
    BY <1>2, PacketAssumption DEF IInv, TypeOK
  <2>2. sent + 1 \in Nat
    BY PacketAssumption DEF IInv, TypeOK
  <2>3. gone' \in SUBSET Nat
    BY <1>2, <2>2 DEF IInv, TypeOK
  <2> QED
    BY <1>1, <1>2, <2>1, <2>3 DEF IInv, TypeOK
<1>4. Tasks'
  BY <1>2, TasksUnchanged DEF IInv, Tasks, bufVars
<1>5. Numbered'
  <2> USE DEF IInv, Numbered
  <2>1. /\ sent \in Nat /\ got \in Nat /\ inSlot \subseteq Nat /\ got <= sent
        /\ \A i \in 1..Len(queue) : queue[i].n \in Nat
    <3>1. \A i \in 1..Len(queue) : queue[i] \in Packets
      BY ElementOfSeq DEF TypeOK
    <3> QED
      BY <3>1, PacketAssumption DEF TypeOK, Packets
  <2>2. \A n \in inSlot : got < n /\ n <= sent + 1 /\ inSlot = {n} /\ n < p.n
    BY <1>1, <2>1
  <2>3. \A i \in 1..Len(queue) :
          /\ got < queue[i].n /\ queue[i].n <= sent + 1 /\ queue[i].n < p.n
          /\ \A n \in inSlot : n < queue[i].n
          /\ \A j \in 1..Len(queue) : i < j => queue[i].n < queue[j].n
    BY <1>1, <2>1
  <2>4. got < p.n /\ p.n <= sent + 1 /\ got <= sent + 1
    BY <1>1, <2>1
  <2>5. ASSUME NEW n \in (got + 1)..(sent + 1)
        PROVE  n \in gone' \/ n \in inSlot \/ (\E i \in 1..Len(queue) : queue[i].n = n) \/ p.n = n
    <3>1. CASE n = sent + 1
      BY <1>1, <3>1
    <3>2. CASE n # sent + 1
      <4>1. n \in (got + 1)..sent
        BY <2>1, <3>2
      <4> QED
        BY <1>2, <4>1
    <3> QED
      BY <3>1, <3>2
  <2> QED
    BY <1>2, <2>2, <2>3, <2>4, <2>5
<1> QED
  BY <1>3, <1>4, <1>5 DEF IInv, Tasks

LEMMA HostReadsKeeps ==
    ASSUME IInv, HostReads
    PROVE  IInv'
<1>1. PICK m \in inSlot : got' = m
  BY DEF HostReads
<1>2. /\ inSlot' = {}
      /\ UNCHANGED <<sent, usbUp, outSlot, reader, ring, queue, produceSignal, consumeSignal,
                     dispatcher, aborted, gone>>
  BY DEF HostReads, bufVars
<1>3. TypeOK'
  BY <1>1, <1>2 DEF IInv, TypeOK
<1>4. Tasks'
  BY <1>2, TasksUnchanged DEF IInv, Tasks, bufVars
<1>5. Numbered'
  <2>1. /\ sent \in Nat /\ got \in Nat /\ m \in Nat /\ got < m /\ m <= sent /\ inSlot = {m}
    BY DEF IInv, TypeOK, Numbered
  <2>2. \A i \in 1..Len(queue) :
          /\ m < queue[i].n /\ queue[i].n <= sent
          /\ \A j \in 1..Len(queue) : i < j => queue[i].n < queue[j].n
    BY DEF IInv, Numbered
  <2>3. \A p \in outSlot :
          /\ m < p.n /\ p.n <= sent /\ outSlot = {p}
          /\ \A i \in 1..Len(queue) : queue[i].n < p.n
    BY DEF IInv, Numbered
  <2>4. ASSUME NEW n \in (m + 1)..sent
        PROVE  n \in gone \/ (\E i \in 1..Len(queue) : queue[i].n = n) \/ \E p \in outSlot : p.n = n
    <3>1. n \in (got + 1)..sent /\ n # m
      BY <2>1
    <3> QED
      BY <2>1, <3>1 DEF IInv, Numbered
  <2> QED
    BY <1>1, <1>2, <2>1, <2>2, <2>3, <2>4 DEF Numbered
<1> QED
  BY <1>3, <1>4, <1>5 DEF IInv, Tasks

LEMMA UsbChangesKeeps ==
    ASSUME IInv, UsbChanges
    PROVE  IInv'
<1>1. /\ outSlot' = {} /\ inSlot' = {} /\ gone' = gone \cup {p.n : p \in outSlot} \cup inSlot
      /\ usbUp' \in BOOLEAN
      /\ UNCHANGED <<sent, got, reader, ring, queue, produceSignal, consumeSignal,
                     dispatcher, aborted>>
  BY DEF UsbChanges, bufVars, hostVars
<1>2. TypeOK'
  <2>1. \A p \in outSlot : p.n \in Nat
    BY PacketAssumption DEF IInv, TypeOK, Packets
  <2> QED
    BY <1>1, <2>1 DEF IInv, TypeOK
<1>3. Tasks'
  BY <1>1, TasksUnchanged DEF IInv, Tasks, bufVars
<1>4. Numbered'
  BY <1>1 DEF IInv, Numbered
<1> QED
  BY <1>2, <1>3, <1>4 DEF IInv, Tasks

LEMMA GrantingKeeps ==
    ASSUME IInv, ReaderStarts \/ ReaderGranted
    PROVE  IInv'
<1>1. PICK signal \in BOOLEAN : AskGrant(ring, signal)
  BY DEF ReaderStarts, ReaderGranted, IInv, TypeOK
<1>2. UNCHANGED <<sent, got, usbUp, outSlot, inSlot, ring, queue, produceSignal, dispatcher,
                  aborted, gone>>
  BY DEF ReaderStarts, ReaderGranted, hostVars, usbVars
<1>3. /\ reader' \in {"granting", "reading"} /\ consumeSignal' \in BOOLEAN
      /\ reader' = "reading" <=> Q!CanGrant(ring, Grant)
  BY <1>1, AskGrantFacts
<1>4. TypeOK'
  BY <1>2, <1>3 DEF IInv, TypeOK
<1>5. Tasks'
  BY <1>2, <1>3 DEF IInv, Tasks, InHand, ReaderIsWoken, StallsOnlyOnEmpty, HasPacket
<1>6. Numbered'
  BY <1>2 DEF IInv, Numbered
<1> QED
  BY <1>4, <1>5, <1>6 DEF IInv, Tasks

LEMMA ReaderFailsKeeps ==
    ASSUME IInv, ReaderFails
    PROVE  IInv'
<1>1. /\ Holds(ring, queue) /\ queue \in Seq(Packets) /\ Q!CanGrant(ring, Grant)
  BY DEF IInv, TypeOK, InHand, ReaderFails
<1>2. /\ reader' = "disabled" /\ ring' = Q!Committed(ring, Grant, 0)
      /\ UNCHANGED <<sent, got, usbUp, outSlot, inSlot, queue, produceSignal, consumeSignal,
                     dispatcher, aborted, gone>>
  BY DEF ReaderFails, hostVars, usbVars
<1>3. Holds(ring', queue) /\ Q!Readable(ring') = Q!Readable(ring)
  BY <1>1, <1>2, HoldsDropped
<1>4. TypeOK'
  BY <1>2, <1>3 DEF IInv, TypeOK, Holds
<1>5. Tasks'
  BY <1>2, <1>3 DEF IInv, Tasks, InHand, ReaderIsWoken, StallsOnlyOnEmpty, HasPacket
<1>6. Numbered'
  BY <1>2 DEF IInv, Numbered
<1> QED
  BY <1>4, <1>5, <1>6 DEF IInv, Tasks

LEMMA ReaderReadsKeeps ==
    ASSUME IInv, Quiet, ReaderReads
    PROVE  IInv'
<1>1. /\ Holds(ring, queue) /\ queue \in Seq(Packets) /\ Q!CanGrant(ring, Grant)
      /\ consumeSignal \in BOOLEAN
  BY DEF IInv, TypeOK, InHand, ReaderReads
<1>2. PICK p \in outSlot :
          IF IsAbort(p)
          THEN /\ aborted' = TRUE /\ ring' = Q!Committed(ring, Grant, 0)
               /\ UNCHANGED <<queue, produceSignal>>
          ELSE /\ ring' = Q!Committed(ring, Grant, Header + p.size)
               /\ queue' = Append(queue, p) /\ produceSignal' = TRUE
               /\ UNCHANGED aborted
  BY DEF ReaderReads, Commit
<1>3. /\ outSlot' = {} /\ outSlot = {p} /\ p \in Packets /\ p.n \in Nat
      /\ UNCHANGED <<sent, got, usbUp, inSlot, dispatcher, gone>>
  BY PacketAssumption DEF ReaderReads, hostVars, IInv, Numbered, TypeOK, Packets
<1>4. /\ reader' \in {"granting", "reading"} /\ consumeSignal' \in BOOLEAN
      /\ reader' = "reading" <=> Q!CanGrant(ring', Grant)
  BY <1>1, AskGrantFacts DEF ReaderReads
<1>5. CASE IsAbort(p)
  <2>1. Holds(ring', queue) /\ Q!Readable(ring') = Q!Readable(ring)
    BY <1>1, <1>2, <1>5, HoldsDropped
  <2>2. TypeOK'
    BY <1>2, <1>3, <1>4, <1>5, <2>1 DEF IInv, TypeOK, Holds
  <2>3. Tasks'
    BY <1>2, <1>3, <1>4, <1>5, <2>1
       DEF IInv, Tasks, InHand, ReaderIsWoken, StallsOnlyOnEmpty, HasPacket
  <2>4. Numbered'
    <3>1. p.n \in gone
      BY <1>3, <1>5 DEF IsAbort, Quiet, InPipeline
    <3> QED
      BY <1>2, <1>3, <1>5, <3>1 DEF IInv, Numbered
  <2> QED
    BY <2>2, <2>3, <2>4 DEF IInv, Tasks
<1>6. CASE ~IsAbort(p)
  <2>1. /\ ring' = Q!Committed(ring, Grant, Header + p.size)
        /\ queue' = Append(queue, p) /\ produceSignal' = TRUE
        /\ UNCHANGED <<aborted, gone>>
    BY <1>2, <1>3, <1>6
  <2>2. Holds(ring', queue') /\ Q!Readable(ring') >= Q!Readable(ring)
    BY <1>1, <1>3, <2>1, HoldsCommitted
  <2>3. /\ queue' \in Seq(Packets) /\ Len(queue') = Len(queue) + 1 /\ Len(queue) \in Nat
        /\ queue'[Len(queue) + 1] = p /\ \A i \in 1..Len(queue) : queue'[i] = queue[i]
    BY <1>1, <1>3, <2>1, AppendProperties, LenProperties
  <2>4. TypeOK'
    BY <1>3, <1>4, <2>1, <2>2, <2>3 DEF IInv, TypeOK, Holds
  <2>5. Tasks'
    <3>1. ASSUME HasPacket(ring) PROVE HasPacket(ring')
      <4>1. Q!Readable(ring) \in Nat /\ Q!Readable(ring') \in Nat /\ Header \in Nat
        BY <1>1, <2>2, <2>3, ReadableFacts, GrantFacts
      <4> QED
        BY <2>2, <3>1, <4>1 DEF HasPacket
    <3> QED
      BY <1>3, <1>4, <2>1, <2>2, <3>1
         DEF IInv, Tasks, InHand, ReaderIsWoken, StallsOnlyOnEmpty
  <2>6. Numbered'
    <3>1. /\ \A i \in 1..Len(queue) :
               /\ got < queue[i].n /\ queue[i].n <= sent /\ queue[i].n < p.n
               /\ \A n \in inSlot : n < queue[i].n
               /\ \A j \in 1..Len(queue) : i < j => queue[i].n < queue[j].n
          /\ got < p.n /\ p.n <= sent /\ \A n \in inSlot : n < p.n
      BY <1>3 DEF IInv, Numbered
    <3>2. \A i \in 1..Len(queue') : i \in 1..Len(queue) \/ i = Len(queue) + 1
      BY <2>3
    <3>3. /\ Len(queue) + 1 \in 1..Len(queue') /\ \A i \in 1..Len(queue) : i \in 1..Len(queue')
          /\ \A i \in 1..Len(queue') : ~(Len(queue) + 1 < i)
      BY <2>3
    <3>4. ASSUME NEW i \in 1..Len(queue')
          PROVE  /\ got < queue'[i].n /\ queue'[i].n <= sent
                 /\ \A n \in inSlot : n < queue'[i].n
                 /\ \A j \in 1..Len(queue') : i < j => queue'[i].n < queue'[j].n
      <4>1. CASE i \in 1..Len(queue)
        BY <2>3, <3>1, <3>2, <4>1
      <4>2. CASE i = Len(queue) + 1
        BY <2>3, <3>1, <3>3, <4>2
      <4> QED
        BY <3>2, <4>1, <4>2
    <3>5. ASSUME NEW n \in (got + 1)..sent
          PROVE  n \in gone \/ n \in inSlot \/ \E i \in 1..Len(queue') : queue'[i].n = n
      <4>1. n \in gone \/ n \in inSlot \/ (\E i \in 1..Len(queue) : queue[i].n = n) \/ n = p.n
        BY <1>3 DEF IInv, Numbered
      <4> QED
        BY <2>3, <3>3, <4>1, Zenon
    <3>6. (\A n \in inSlot : got < n /\ n <= sent /\ inSlot = {n}) /\ got <= sent
      BY DEF IInv, Numbered
    <3> QED
      BY <1>3, <2>1, <3>4, <3>5, <3>6 DEF Numbered
  <2> QED
    BY <2>4, <2>5, <2>6 DEF IInv, Tasks
<1> QED
  BY <1>5, <1>6

\* A reader that waits for room is told of the room the move to the start gives:
\* where it gives any, a packet is there to read.
LEMMA MovesTellTheReader ==
    ASSUME NEW r, NEW q \in Seq(Packets), Holds(r, q),
           Q!CanGrant(Q!Settled(r), Grant), ~Q!CanGrant(r, Grant)
    PROVE  HasPacket(r)
<1>1. /\ r \in Q!Rings /\ Q!WellFormed(r)
      /\ BufferSize \in Nat /\ Header \in Nat /\ Grant \in Nat /\ BufferSize >= 2 * Grant + Header
      /\ Q!Inverted(r) => r.last + Grant > BufferSize
  BY GrantFacts DEF Holds
<1>2. Q!Inverted(r) /\ r.read = r.last
  BY DEF Q!Settled
<1>3. r.read \in Nat /\ r.write \in Nat /\ r.last \in Nat
  BY <1>1 DEF Q!Rings
<1>4. r.write + Grant >= r.read
  BY <1>1, <1>2, <1>3 DEF Q!CanGrant
<1>5. r.write > Header
  BY <1>1, <1>2, <1>3, <1>4
<1>6. Q!Readable(r) = r.write
  <2>1. r \in [read : 0..BufferSize, write : 0..BufferSize, last : 0..BufferSize]
    BY <1>1 DEF Q!Rings
  <2>2. Q!Settled(r).read = 0 /\ Q!Settled(r).write = r.write
    BY <1>2, <2>1 DEF Q!Settled
  <2>3. ~Q!Inverted(Q!Settled(r))
    BY <1>3, <2>2 DEF Q!Inverted
  <2> QED
    BY <1>3, <2>2, <2>3 DEF Q!Readable, Q!Contiguous
<1> QED
  BY <1>5, <1>6 DEF HasPacket

LEMMA DispatcherWakesKeeps ==
    ASSUME IInv, DispatcherWakes
    PROVE  IInv'
<1>1. Holds(ring, queue) /\ queue \in Seq(Packets)
  BY DEF IInv, TypeOK
<1>2. /\ dispatcher = "waiting" /\ Fetch(ring, FALSE)
      /\ UNCHANGED <<sent, got, usbUp, outSlot, inSlot, reader, queue, consumeSignal, aborted,
                     gone>>
  BY DEF DispatcherWakes, hostVars, usbVars
<1>3. /\ Holds(ring', queue)
      /\ Q!CanGrant(ring, Grant) => Q!CanGrant(ring', Grant)
      /\ dispatcher' \in {"waiting", "handling", "writing"} /\ produceSignal' \in BOOLEAN
      /\ dispatcher' # "waiting" => HasPacket(ring')
      /\ dispatcher' = "waiting" => ~HasPacket(ring)
      /\ dispatcher' = "waiting" /\ queue # <<>> =>
           Head(queue).size = 0 /\ Q!Readable(ring') = Header
  BY <1>1, <1>2, FetchFacts
<1>4. TypeOK'
  BY <1>2, <1>3 DEF IInv, TypeOK, Holds
<1>5. ReaderIsWoken'
  <2>1. ring' = Q!Settled(ring)
    BY <1>2 DEF Fetch
  <2>2. CASE dispatcher' = "waiting"
    <3>1. Q!CanGrant(ring', Grant) => Q!CanGrant(ring, Grant)
      BY <1>1, <1>3, <2>1, <2>2, MovesTellTheReader
    <3> QED
      BY <1>2, <3>1 DEF IInv, ReaderIsWoken
  <2>3. CASE dispatcher' # "waiting"
    BY <2>3 DEF ReaderIsWoken
  <2> QED
    BY <2>2, <2>3
<1>6. Tasks'
  BY <1>2, <1>3, <1>5 DEF IInv, Tasks, InHand, StallsOnlyOnEmpty, HasPacket
<1>7. Numbered'
  BY <1>2 DEF IInv, Numbered
<1> QED
  BY <1>4, <1>6, <1>7 DEF IInv, Tasks

LEMMA HandledKeeps ==
    ASSUME IInv, Handled
    PROVE  IInv'
<1>1. /\ dispatcher = "handling" /\ dispatcher' = "writing"
      /\ UNCHANGED <<sent, got, usbUp, outSlot, inSlot, reader, ring, queue, produceSignal,
                     consumeSignal, aborted, gone>>
  BY DEF Handled, hostVars, usbVars, bufVars
<1>2. TypeOK'
  BY <1>1 DEF IInv, TypeOK
<1>3. Tasks'
  BY <1>1 DEF IInv, Tasks, InHand, ReaderIsWoken, StallsOnlyOnEmpty, HasPacket
<1>4. Numbered'
  BY <1>1 DEF IInv, Numbered
<1> QED
  BY <1>2, <1>3, <1>4 DEF IInv, Tasks

\* The packet in hand is answered or lost: it leaves the queue and the ring.
LEMMA ReleaseKeeps ==
    ASSUME IInv, dispatcher = "writing", ReleaseAndFetch, reader' = reader
    PROVE  /\ Tasks'
           /\ queue \in Seq(Packets) /\ queue # <<>> /\ queue' = Tail(queue)
           /\ ring' \in Q!Rings /\ consumeSignal' \in BOOLEAN /\ produceSignal' \in BOOLEAN
           /\ dispatcher' \in {"waiting", "handling", "writing"}
<1>1. Holds(ring, queue) /\ queue \in Seq(Packets) /\ produceSignal \in BOOLEAN
  BY DEF IInv, TypeOK
<1>2. queue # <<>> /\ Q!Readable(ring) > 0
  <2>1. Q!Readable(ring) > Header
    BY DEF IInv, InHand, HasPacket
  <2>2. Q!Readable(ring) \in Nat /\ (Q!Readable(ring) > 0 => queue # <<>>)
    BY <1>1, ReadableFacts
  <2> QED
    BY <2>1, <2>2, GrantFacts
<1> DEFINE c == Q!Released(ring, Header + Head(queue).size)
<1>3. Holds(c, Tail(queue)) /\ (Q!CanGrant(ring, Grant) => Q!CanGrant(c, Grant))
  BY <1>1, <1>2, HoldsReleased
<1>4. Fetch(c, produceSignal) /\ queue' = Tail(queue) /\ consumeSignal' = TRUE
  BY DEF ReleaseAndFetch, ReleasedPacket, ReleaseSignals
<1> HIDE DEF c
<1>5. Tail(queue) \in Seq(Packets)
  BY <1>1, <1>2, OffsetTail
<1>6. /\ Holds(ring', Tail(queue))
      /\ Q!CanGrant(c, Grant) => Q!CanGrant(ring', Grant)
      /\ dispatcher' \in {"waiting", "handling", "writing"} /\ produceSignal' \in BOOLEAN
      /\ dispatcher' # "waiting" => HasPacket(ring')
      /\ dispatcher' = "waiting" /\ Tail(queue) # <<>> =>
           Head(Tail(queue)).size = 0 /\ Q!Readable(ring') = Header
  BY <1>1, <1>3, <1>4, <1>5, FetchFacts
<1>7. Tasks'
  BY <1>3, <1>4, <1>6 DEF IInv, Tasks, InHand, ReaderIsWoken, StallsOnlyOnEmpty, HasPacket
<1> QED
  BY <1>1, <1>2, <1>4, <1>6, <1>7 DEF Holds

\* What the numbering says of the queue without its first packet.
LEMMA TailNumbered ==
    ASSUME TypeOK, Numbered, queue # <<>>
    PROVE  /\ Tail(queue) \in Seq(Packets)
           /\ Head(queue).n \in Nat /\ got < Head(queue).n /\ Head(queue).n <= sent
           /\ \A n \in inSlot : n < Head(queue).n
           /\ \A p \in outSlot : Head(queue).n < p.n
           /\ \A i \in 1..Len(Tail(queue)) :
                 /\ got < Tail(queue)[i].n /\ Tail(queue)[i].n <= sent
                 /\ Head(queue).n < Tail(queue)[i].n
                 /\ \A n \in inSlot : n < Tail(queue)[i].n
                 /\ \A p \in outSlot : Tail(queue)[i].n < p.n
                 /\ \A j \in 1..Len(Tail(queue)) : i < j => Tail(queue)[i].n < Tail(queue)[j].n
           /\ \A n : (\E i \in 1..Len(queue) : queue[i].n = n) =>
                 n = Head(queue).n \/ \E i \in 1..Len(Tail(queue)) : Tail(queue)[i].n = n
<1> DEFINE s == Tail(queue)
<1>1. /\ Len(queue) \in Nat \ {0} /\ s \in Seq(Packets) /\ Len(s) = Len(queue) - 1
      /\ \A i \in 1..Len(s) : s[i] = queue[i + 1]
      /\ Head(queue) = queue[1] /\ queue[1] \in Packets
  BY HeadTailProperties, EmptySeq, LenProperties, ElementOfSeq DEF TypeOK
<1> HIDE DEF s
<1>2. /\ 1 \in 1..Len(queue)
      /\ \A i \in 1..Len(s) : i + 1 \in 1..Len(queue) /\ 1 < i + 1
      /\ \A i, j \in 1..Len(s) : i < j => i + 1 < j + 1
      /\ \A i \in 1..Len(queue) : i = 1 \/ (i - 1 \in 1..Len(s) /\ (i - 1) + 1 = i)
  BY <1>1
<1>3. queue[1].n \in Nat
  BY <1>1, PacketAssumption DEF Packets
<1>4. ASSUME NEW i \in 1..Len(s)
      PROVE  /\ got < s[i].n /\ s[i].n <= sent
             /\ queue[1].n < s[i].n
             /\ \A n \in inSlot : n < s[i].n
             /\ \A p \in outSlot : s[i].n < p.n
             /\ \A j \in 1..Len(s) : i < j => s[i].n < s[j].n
  <2>1. /\ i + 1 \in 1..Len(queue) /\ 1 \in 1..Len(queue) /\ 1 < i + 1 /\ s[i] = queue[i + 1]
        /\ \A j \in 1..Len(s) : i < j =>
             i + 1 < j + 1 /\ j + 1 \in 1..Len(queue) /\ s[j] = queue[j + 1]
    BY <1>1, <1>2
  <2> QED
    BY <2>1, Zenon DEF Numbered
<1>5. /\ got < queue[1].n /\ queue[1].n <= sent
      /\ \A n \in inSlot : n < queue[1].n
      /\ \A p \in outSlot : queue[1].n < p.n
  BY <1>2 DEF Numbered
<1>6. ASSUME NEW n, NEW i \in 1..Len(queue), queue[i].n = n
      PROVE  n = queue[1].n \/ \E j \in 1..Len(s) : s[j].n = n
  BY <1>1, <1>2, <1>6
<1> QED
  BY <1>1, <1>3, <1>4, <1>5, <1>6 DEF s

LEMMA RespondsKeeps ==
    ASSUME IInv, Responds
    PROVE  IInv'
<1>1. /\ inSlot = {} /\ inSlot' = {Head(queue).n}
      /\ UNCHANGED <<sent, got, usbUp, outSlot, reader, aborted, gone>>
  BY DEF Responds, hostVars
<1>2. /\ Tasks'
      /\ queue \in Seq(Packets) /\ queue # <<>> /\ queue' = Tail(queue)
      /\ ring' \in Q!Rings /\ consumeSignal' \in BOOLEAN /\ produceSignal' \in BOOLEAN
      /\ dispatcher' \in {"waiting", "handling", "writing"}
  BY <1>1, ReleaseKeeps DEF Responds
<1>3. TypeOK /\ Numbered
  BY DEF IInv
<1> DEFINE h == Head(queue).n
           s == Tail(queue)
<1>4. /\ s \in Seq(Packets)
      /\ h \in Nat /\ got < h /\ h <= sent /\ \A p \in outSlot : h < p.n
      /\ \A i \in 1..Len(s) :
            /\ got < s[i].n /\ s[i].n <= sent /\ h < s[i].n
            /\ \A p \in outSlot : s[i].n < p.n
            /\ \A j \in 1..Len(s) : i < j => s[i].n < s[j].n
      /\ \A n : (\E i \in 1..Len(queue) : queue[i].n = n) =>
            n = h \/ \E i \in 1..Len(s) : s[i].n = n
  BY <1>2, <1>3, TailNumbered
<1>5. queue' = s /\ inSlot' = {h}
  BY <1>1, <1>2
<1> HIDE DEF h, s
<1>6. TypeOK'
  BY <1>1, <1>2, <1>3, <1>4, <1>5 DEF TypeOK
<1>7. Numbered'
  <2>1. \A n \in (got + 1)..sent :
          n \in gone \/ n = h \/ (\E i \in 1..Len(s) : s[i].n = n) \/ \E p \in outSlot : p.n = n
    <3>1. \A n \in (got + 1)..sent :
            n \in gone \/ (\E i \in 1..Len(queue) : queue[i].n = n) \/ \E p \in outSlot : p.n = n
      BY <1>1, <1>3 DEF Numbered
    <3> QED
      BY <1>4, <3>1, Zenon
  <2>2. (\A p \in outSlot : got < p.n /\ p.n <= sent /\ outSlot = {p}) /\ got <= sent
    BY <1>3 DEF Numbered
  <2> QED
    BY <1>1, <1>4, <1>5, <2>1, <2>2 DEF Numbered
<1> QED
  BY <1>2, <1>6, <1>7 DEF IInv, Tasks

LEMMA ResponseLostKeeps ==
    ASSUME IInv, ResponseLost
    PROVE  IInv'
<1>1. /\ gone' = gone \cup {Head(queue).n}
      /\ UNCHANGED <<sent, got, usbUp, outSlot, inSlot, reader, aborted>>
  BY DEF ResponseLost, hostVars, usbVars
<1>2. /\ Tasks'
      /\ queue \in Seq(Packets) /\ queue # <<>> /\ queue' = Tail(queue)
      /\ ring' \in Q!Rings /\ consumeSignal' \in BOOLEAN /\ produceSignal' \in BOOLEAN
      /\ dispatcher' \in {"waiting", "handling", "writing"}
  BY <1>1, ReleaseKeeps DEF ResponseLost
<1>3. TypeOK /\ Numbered
  BY DEF IInv
<1> DEFINE h == Head(queue).n
           s == Tail(queue)
<1>4. /\ s \in Seq(Packets) /\ h \in Nat
      /\ \A i \in 1..Len(s) :
            /\ got < s[i].n /\ s[i].n <= sent
            /\ \A n \in inSlot : n < s[i].n
            /\ \A p \in outSlot : s[i].n < p.n
            /\ \A j \in 1..Len(s) : i < j => s[i].n < s[j].n
      /\ \A n : (\E i \in 1..Len(queue) : queue[i].n = n) =>
            n = h \/ \E i \in 1..Len(s) : s[i].n = n
  BY <1>2, <1>3, TailNumbered
<1>5. queue' = s /\ gone' = gone \cup {h}
  BY <1>1, <1>2
<1> HIDE DEF h, s
<1>6. TypeOK'
  BY <1>1, <1>2, <1>3, <1>4, <1>5 DEF TypeOK
<1>7. Numbered'
  <2>1. \A n \in (got + 1)..sent :
          \/ n \in gone \/ n = h \/ n \in inSlot
          \/ (\E i \in 1..Len(s) : s[i].n = n) \/ \E p \in outSlot : p.n = n
    <3>1. \A n \in (got + 1)..sent :
            \/ n \in gone \/ n \in inSlot
            \/ (\E i \in 1..Len(queue) : queue[i].n = n) \/ \E p \in outSlot : p.n = n
      BY <1>3 DEF Numbered
    <3> QED
      BY <1>4, <3>1, Zenon
  <2>2. /\ \A n \in inSlot : got < n /\ n <= sent /\ inSlot = {n}
        /\ \A p \in outSlot :
             got < p.n /\ p.n <= sent /\ outSlot = {p} /\ \A n \in inSlot : n < p.n
        /\ got <= sent
    BY <1>3 DEF Numbered
  <2> QED
    BY <1>1, <1>4, <1>5, <2>1, <2>2 DEF Numbered
<1> QED
  BY <1>2, <1>6, <1>7 DEF IInv, Tasks

\* A packet that is not answered is released all the same: it is gone.
LEMMA UnansweredKeeps ==
    ASSUME IInv, Quiet, Unanswered
    PROVE  IInv'
<1>1. UNCHANGED <<sent, got, usbUp, outSlot, inSlot, reader, aborted, gone>>
  BY DEF Unanswered, hostVars, usbVars
<1>2. /\ Tasks'
      /\ queue \in Seq(Packets) /\ queue # <<>> /\ queue' = Tail(queue)
      /\ ring' \in Q!Rings /\ consumeSignal' \in BOOLEAN /\ produceSignal' \in BOOLEAN
      /\ dispatcher' \in {"waiting", "handling", "writing"}
  BY <1>1, ReleaseKeeps DEF Unanswered
<1>3. TypeOK /\ Numbered
  BY DEF IInv
<1> DEFINE h == Head(queue).n
           s == Tail(queue)
<1>4. /\ s \in Seq(Packets)
      /\ \A i \in 1..Len(s) :
            /\ got < s[i].n /\ s[i].n <= sent
            /\ \A n \in inSlot : n < s[i].n
            /\ \A p \in outSlot : s[i].n < p.n
            /\ \A j \in 1..Len(s) : i < j => s[i].n < s[j].n
      /\ \A n : (\E i \in 1..Len(queue) : queue[i].n = n) =>
            n = h \/ \E i \in 1..Len(s) : s[i].n = n
  BY <1>2, <1>3, TailNumbered
<1>5. h \in gone
  <2>1. Head(queue) \in InPipeline
    BY <1>2, HeadTailProperties, LenProperties, EmptySeq DEF InPipeline
  <2> QED
    BY <2>1 DEF Quiet, Unanswered, HasResponse
<1>6. queue' = s
  BY <1>2
<1> HIDE DEF h, s
<1>7. TypeOK'
  BY <1>1, <1>2, <1>3, <1>4, <1>6 DEF TypeOK
<1>8. Numbered'
  <2>1. \A n \in (got + 1)..sent :
          \/ n \in gone \/ n \in inSlot
          \/ (\E i \in 1..Len(s) : s[i].n = n) \/ \E p \in outSlot : p.n = n
    <3>1. \A n \in (got + 1)..sent :
            \/ n \in gone \/ n \in inSlot
            \/ (\E i \in 1..Len(queue) : queue[i].n = n) \/ \E p \in outSlot : p.n = n
      BY <1>3 DEF Numbered
    <3> QED
      BY <1>4, <1>5, <3>1, Zenon
  <2>2. /\ \A n \in inSlot : got < n /\ n <= sent /\ inSlot = {n}
        /\ \A p \in outSlot :
             got < p.n /\ p.n <= sent /\ outSlot = {p} /\ \A n \in inSlot : n < p.n
        /\ got <= sent
    BY <1>3 DEF Numbered
  <2> QED
    BY <1>1, <1>4, <1>6, <2>1, <2>2 DEF Numbered
<1> QED
  BY <1>2, <1>7, <1>8 DEF IInv, Tasks

\* Nothing enters the pipeline but what the host sends, and what is gone stays so.
LEMMA QuietKeeps ==
    ASSUME IInv, Quiet, [Next]_vars
    PROVE  Quiet'
<1>1. /\ queue \in Seq(Packets) /\ Len(queue) \in Nat
  BY LenProperties DEF IInv, TypeOK
<1>2. SUFFICES ASSUME ~(gone \subseteq gone' /\ InPipeline' \subseteq InPipeline)
               PROVE  Quiet'
  BY DEF Quiet
<1>3. CASE \E size \in Sizes, kind \in Kinds : HostSends(size, kind)
  <2>1. PICK size \in Sizes, kind \in Kinds : HostSends(size, kind)
    BY <1>3
  <2> DEFINE p == [n |-> sent + 1, size |-> size, kind |-> kind]
  <2>2. /\ queue' = queue /\ outSlot' = {p} /\ p.n = sent + 1 /\ p.kind = kind
        /\ gone' = IF kind = "command" THEN gone ELSE gone \cup {sent + 1}
    BY <2>1 DEF HostSends, bufVars
  <2> HIDE DEF p
  <2>3. InPipeline' \subseteq InPipeline \cup {p}
    BY <2>2 DEF InPipeline
  <2> QED
    BY <2>2, <2>3 DEF Quiet
<1>4. CASE ReaderReads
  <2>1. PICK p \in outSlot : queue' = queue \/ queue' = Append(queue, p)
    BY <1>4 DEF ReaderReads
  <2>2. outSlot' = {} /\ gone' = gone /\ p \in Packets
    BY <1>4 DEF ReaderReads, IInv, TypeOK
  <2>3. \A i \in 1..Len(queue') : queue'[i] \in InPipeline
    <3>1. CASE queue' = queue
      BY <3>1 DEF InPipeline
    <3>2. CASE queue' = Append(queue, p)
      <4>1. /\ Len(queue') = Len(queue) + 1 /\ queue'[Len(queue) + 1] = p
            /\ \A i \in 1..Len(queue) : queue'[i] = queue[i]
        BY <1>1, <2>2, <3>2, AppendProperties
      <4>2. \A i \in 1..Len(queue') : i \in 1..Len(queue) \/ i = Len(queue) + 1
        BY <1>1, <4>1
      <4> QED
        BY <4>1, <4>2 DEF InPipeline
    <3> QED
      BY <2>1, <3>1, <3>2
  <2> QED
    BY <1>2, <2>2, <2>3 DEF InPipeline
<1>5. CASE Responds \/ ResponseLost \/ Unanswered
  <2>1. /\ queue' = Tail(queue) /\ outSlot' = outSlot /\ gone \subseteq gone'
        /\ dispatcher = "writing"
    BY <1>5 DEF Responds, ResponseLost, Unanswered, ReleaseAndFetch, usbVars
  <2>2. queue # <<>>
    <3>1. Q!Readable(ring) > Header
      BY <2>1 DEF IInv, InHand, HasPacket
    <3>2. Q!Readable(ring) \in Nat /\ (Q!Readable(ring) > 0 => queue # <<>>)
      BY <1>1, ReadableFacts DEF IInv
    <3> QED
      BY <3>1, <3>2, GrantFacts
  <2>3. \A i \in 1..Len(queue') : i + 1 \in 1..Len(queue) /\ queue'[i] = queue[i + 1]
    BY <1>1, <2>1, <2>2, HeadTailProperties, EmptySeq, LenProperties
  <2> QED
    BY <1>2, <2>1, <2>3 DEF InPipeline
<1>6. CASE UNCHANGED <<outSlot, queue, gone>>
  BY <1>2, <1>6 DEF InPipeline
<1>7. CASE UsbChanges
  BY <1>2, <1>7 DEF UsbChanges, bufVars, InPipeline
<1> QED
  BY <1>3, <1>4, <1>5, <1>6, <1>7 DEF Next, HostReads, ReaderTask, DispatchTask, ReaderStarts,
     ReaderGranted, ReaderFails, DispatcherWakes, Handled, vars, usbVars, bufVars

LEMMA NextKeeps == IInv /\ Quiet /\ [Next]_vars => IInv' /\ Quiet'
<1> SUFFICES ASSUME IInv, Quiet, [Next]_vars PROVE IInv'
  BY QuietKeeps
<1>1. CASE UNCHANGED vars
  <2>1. Tasks'
    BY <1>1, TasksUnchanged DEF vars, IInv, Tasks, bufVars
  <2> QED
    BY <1>1, <2>1 DEF vars, hostVars, usbVars, bufVars, IInv, Tasks, TypeOK, Numbered
<1>2. CASE Next
  BY <1>2, HostSendsKeeps, HostReadsKeeps, UsbChangesKeeps, GrantingKeeps, ReaderReadsKeeps,
     ReaderFailsKeeps, DispatcherWakesKeeps, HandledKeeps, RespondsKeeps, ResponseLostKeeps,
     UnansweredKeeps
     DEF Next, ReaderTask, DispatchTask
<1> QED
  BY <1>1, <1>2

\* What holds of every reachable state.
THEOREM Invariance == Spec => [](IInv /\ Quiet)
<1>1. Init => Quiet
  BY DEF Init, Quiet, InPipeline
<1> QED
  BY <1>1, InitInvariant, NextKeeps, PTL DEF Spec

\* RingHoldsQueue: after any number of packets, aborts, wraps and unplugs, the
\* ring holds the queued packets and no length is read inside one.
THEOREM LengthsInPlace == Spec => []RingHoldsQueue
<1>1. IInv => RingHoldsQueue
  <2> SUFFICES ASSUME IInv PROVE RingHoldsQueue
    OBVIOUS
  <2>1. /\ Holds(ring, queue) /\ queue \in Seq(Packets)
        /\ Q!WellFormed(ring) /\ Q!Used(ring) = Offset(queue)[Len(queue)]
        /\ reader = "reading" => Q!CanGrant(ring, Grant)
    BY DEF IInv, TypeOK, InHand, Holds
  <2>2. PICK k \in 0..Len(queue) : Q!Readable(ring) = Offset(queue)[k]
    BY <2>1, ReadableFacts
  <2>3. ASSUME dispatcher # "waiting" PROVE k > 0
    <3>1. Q!Readable(ring) > Header
      BY <2>3 DEF IInv, InHand, HasPacket
    <3>2. Offset(queue)[0] = 0
      BY <2>1, OffsetSums DEF Sums
    <3> QED
      BY <2>2, <3>1, <3>2, GrantFacts
  <2> QED
    BY <2>1, <2>2, <2>3 DEF RingHoldsQueue
<1> QED
  BY <1>1, Invariance, PTL

\* ReaderIsWoken: no room for a packet is missed by a reader that sleeps, however
\* the ring got it: by a release, or by the move to its start.
THEOREM ReaderNotForgotten == Spec => []ReaderIsWoken
<1>1. IInv => ReaderIsWoken
  BY DEF IInv
<1> QED
  BY <1>1, Invariance, PTL

\* StallsOnlyOnEmpty: no packet but an empty one is left in the buffer by a
\* dispatcher that sleeps with no signal to wake it.
THEOREM EmptyStalls == Spec => []StallsOnlyOnEmpty
<1>1. IInv => StallsOnlyOnEmpty
  BY DEF IInv
<1> QED
  BY <1>1, Invariance, PTL

\* WrapStallIsFinal: once the dispatcher sleeps on an empty packet before the
\* wrap, every step leaves it there.
THEOREM NoWayOut == Spec => WrapStallIsFinal
<1>1. IInv /\ [Next]_vars => (Stalled => Stalled')
  <2> SUFFICES ASSUME IInv, [Next]_vars, Stalled PROVE Stalled'
    OBVIOUS
  <2>1. /\ dispatcher = "waiting" /\ queue # <<>> /\ Q!Readable(ring) = Header
        /\ Q!Inverted(Q!Settled(ring)) /\ Holds(ring, queue) /\ queue \in Seq(Packets)
        /\ ring \in Q!Rings
    BY DEF Stalled, IInv, TypeOK
  <2>2. Q!Settled(ring) = ring /\ Q!Inverted(ring) /\ ring.read # ring.last
    <3>1. ASSUME Q!Settled(ring) # ring PROVE FALSE
      <4>1. ~Q!Inverted(Q!Settled(ring))
        BY <2>1, <3>1, Q!SettledFacts, GrantFacts DEF Holds
      <4> QED
        BY <2>1, <4>1
    <3>2. ASSUME Q!Inverted(ring), ring.read = ring.last PROVE FALSE
      <4>1. Q!Settled(ring).read = 0
        BY <2>1, <3>2 DEF Q!Settled, Q!Rings
      <4>2. ring.write < 0
        BY <2>1, <3>1, <4>1 DEF Q!Inverted
      <4> QED
        BY <2>1, <4>2, GrantFacts DEF Q!Rings
    <3> QED
      BY <2>1, <3>1, <3>2
  <2>3. Q!Contiguous(ring) = Header
    BY <2>1, <2>2 DEF Q!Readable
  <2>4. CASE ReaderReads \/ ReaderFails
    <3>1. PICK used \in 0..Grant : ring' = Q!Committed(ring, Grant, used)
      <4>1. CASE ReaderFails
        BY <4>1, GrantFacts DEF ReaderFails
      <4>2. CASE ReaderReads
        <5>1. PICK p \in outSlot :
                \/ ring' = Q!Committed(ring, Grant, 0)
                \/ ring' = Q!Committed(ring, Grant, Stored(p))
          BY <4>2 DEF ReaderReads, Stored
        <5>2. p \in Packets
          BY DEF IInv, TypeOK
        <5>3. 0 \in 0..Grant /\ Stored(p) \in 0..Grant
          BY <5>2, GrantFacts
        <5> QED
          BY <5>1, <5>3
      <4> QED
        BY <2>4, <4>1, <4>2
    <3>2. Q!CanGrant(ring, Grant)
      BY <2>4 DEF IInv, InHand, ReaderReads, ReaderFails
    <3>3. /\ Q!Inverted(ring') /\ ring'.last = ring.last /\ ring'.read = ring.read
          /\ Q!Contiguous(ring') = Q!Contiguous(ring)
      BY <2>1, <2>2, <3>1, <3>2, Q!CommittedFacts, GrantFacts DEF Holds
    <3>4. Q!Settled(ring') = ring'
      BY <2>2, <3>3 DEF Q!Settled
    <3>5. Q!Readable(ring') = Header
      BY <2>3, <3>3, <3>4 DEF Q!Readable
    <3>6. dispatcher' = "waiting" /\ queue' # <<>>
      <4>1. CASE ReaderFails
        BY <2>1, <4>1 DEF ReaderFails
      <4>2. CASE ReaderReads
        <5>1. dispatcher' = "waiting"
          BY <2>1, <4>2 DEF ReaderReads
        <5>2. queue' = queue \/ \E p \in outSlot : queue' = Append(queue, p)
          BY <4>2 DEF ReaderReads
        <5>3. \A p \in outSlot : Append(queue, p) # <<>>
          BY <2>1, AppendProperties DEF IInv, TypeOK
        <5> QED
          BY <2>1, <5>1, <5>2, <5>3
      <4> QED
        BY <2>4, <4>1, <4>2
    <3> QED
      BY <3>3, <3>4, <3>5, <3>6 DEF Stalled
  <2>5. CASE DispatcherWakes
    <3>1. ring' = ring /\ queue' = queue
      BY <2>2, <2>5 DEF DispatcherWakes, Fetch
    <3>2. ~HasPacket(ring)
      BY <2>1, GrantFacts DEF HasPacket
    <3>3. dispatcher' = "waiting"
      BY <2>5, <3>2 DEF DispatcherWakes, Fetch
    <3> QED
      BY <2>1, <3>1, <3>3 DEF Stalled
  <2>6. CASE UNCHANGED <<dispatcher, queue, ring>>
    BY <2>1, <2>6 DEF Stalled
  <2>7. ~Handled /\ ~Responds /\ ~ResponseLost /\ ~Unanswered
    BY <2>1 DEF Handled, Responds, ResponseLost, Unanswered
  <2> QED
    BY <2>4, <2>5, <2>6, <2>7 DEF Next, HostSends, HostReads, UsbChanges, ReaderTask, DispatchTask,
       ReaderStarts, ReaderGranted, vars, bufVars
<1> QED
  BY <1>1, Invariance, PTL DEF Spec, WrapStallIsFinal

\* ResponsesInOrder: what the host reads next answers the oldest request that is
\* neither lost nor of the kinds that have no response.
THEOREM InOrder == Spec => ResponsesInOrder
<1>1. IInv /\ [Next]_vars => (got' # got => got' > got /\ (got + 1)..(got' - 1) \subseteq gone)
  <2> SUFFICES ASSUME IInv, [Next]_vars, got' # got
               PROVE  got' > got /\ (got + 1)..(got' - 1) \subseteq gone
    OBVIOUS
  <2>1. HostReads
    BY DEF Next, HostSends, UsbChanges, ReaderTask, DispatchTask, ReaderStarts, ReaderGranted,
       ReaderReads, ReaderFails, DispatcherWakes, Handled, Responds, ResponseLost, Unanswered, vars, hostVars
  <2>2. PICK m \in inSlot : got' = m
    BY <2>1 DEF HostReads
  <2>3. /\ got \in Nat /\ m \in Nat /\ sent \in Nat /\ got < m /\ m <= sent /\ inSlot = {m}
        /\ \A i \in 1..Len(queue) : m < queue[i].n
        /\ \A p \in outSlot : m < p.n
    <3>1. sent \in Nat
      BY PacketAssumption DEF IInv, TypeOK
    <3> QED
      BY <2>2, <3>1 DEF IInv, TypeOK, Numbered
  <2>4. ASSUME NEW n \in (got + 1)..(m - 1) PROVE n \in gone
    <3>1. n \in (got + 1)..sent /\ n # m /\ ~(m < n)
      BY <2>3
    <3>2. \/ n \in gone \/ n \in inSlot
          \/ (\E i \in 1..Len(queue) : queue[i].n = n) \/ \E p \in outSlot : p.n = n
      BY <3>1 DEF IInv, Numbered
    <3> QED
      BY <2>3, <3>1, <3>2
  <2> QED
    BY <2>2, <2>3, <2>4
<1> QED
  BY <1>1, Invariance, PTL DEF Spec, ResponsesInOrder
=============================================================================

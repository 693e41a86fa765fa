------------------------------ MODULE BBQueue ------------------------------
(***************************************************************************)
(* The ring of the bbqueue crate, as its users in this repository meet it: *)
(* one producer, which asks for n contiguous bytes and commits some of     *)
(* them, and one consumer, which sees contiguous bytes and releases some.  *)
(* A write that does not fit before the end wraps to the start, and "last" *)
(* remembers where the data before the wrap ends.  The bytes themselves    *)
(* are not modelled: what decides who waits for whom is the geometry.      *)
(***************************************************************************)
EXTENDS Naturals

CONSTANT Size      \* the bytes of the ring

Rings == [read : 0..Size, write : 0..Size, last : 0..Size]

EmptyRing == [read |-> 0, write |-> 0, last |-> 0]

Inverted(r) == r.write < r.read

\* Where the next n bytes go: right after the others if they fit before the
\* end, at the start of the ring if they do not.
Start(r, n) == IF Inverted(r) \/ r.write + n <= Size THEN r.write ELSE 0

\* grant_exact(n) succeeds: an inverted ring is never filled up to "read".
CanGrant(r, n) ==
    IF Inverted(r) THEN r.write + n < r.read
                   ELSE r.write + n <= Size \/ n < r.read

\* "used" bytes of a grant of n are committed; none, when it is dropped.
Committed(r, n, used) ==
    LET new == Start(r, n) + used
    IN  [r EXCEPT !.write = new,
                  !.last  = IF new < r.write /\ r.write # Size THEN r.write
                            ELSE IF new > r.last THEN Size ELSE r.last]

\* A reader at the end of the data before the wrap moves to the start.
Settled(r) == IF Inverted(r) /\ r.read = r.last THEN [r EXCEPT !.read = 0] ELSE r

\* The bytes before the wrap, if there is one.
Contiguous(r) == IF Inverted(r) THEN r.last - r.read ELSE r.write - r.read

\* The contiguous bytes read() grants; with none it fails.
Readable(r) == Contiguous(Settled(r))

\* All the bytes in the ring, which split_read() grants in two parts.
Used(r) == Contiguous(r) + (IF Inverted(r) THEN r.write ELSE 0)

Released(r, n) == [Settled(r) EXCEPT !.read = @ + n]

SplitReleased(r, n) ==
    IF n <= Readable(r) THEN Released(r, n)
                        ELSE [Settled(r) EXCEPT !.read = n - Readable(r)]

\* What every ring in use satisfies.
WellFormed(r) ==
    /\ r \in Rings
    /\ r.write <= r.last
    /\ Inverted(r) => r.read <= r.last

-----------------------------------------------------------------------------
(***************************************************************************)
(* What the operations do to a ring that is well-formed.                   *)
(***************************************************************************)

\* A ring is empty when it is made.
LEMMA EmptyFacts ==
    ASSUME Size \in Nat
    PROVE  WellFormed(EmptyRing) /\ Used(EmptyRing) = 0 /\ ~Inverted(EmptyRing)
BY DEF WellFormed, EmptyRing, Rings, Inverted, Used, Contiguous

\* The counts are numbers, and the bytes that can be read are some of those
\* there are, and none only when there are none.
LEMMA CountFacts ==
    ASSUME Size \in Nat, NEW r \in Rings, WellFormed(r)
    PROVE  /\ Contiguous(r) \in Nat /\ Readable(r) \in Nat /\ Used(r) \in Nat
           /\ Contiguous(r) <= Used(r) /\ Readable(r) <= Used(r)
           /\ Readable(r) = 0 => Used(r) = 0
           /\ ~Inverted(r) => Contiguous(r) = Used(r)
BY DEF WellFormed, Rings, Inverted, Used, Contiguous, Readable, Settled

\* The reader moves to the start: no byte comes or goes, and no room is lost.
LEMMA SettledFacts ==
    ASSUME Size \in Nat, NEW r \in Rings, WellFormed(r), NEW n \in Nat
    PROVE  /\ WellFormed(Settled(r))
           /\ Used(Settled(r)) = Used(r) /\ Readable(Settled(r)) = Readable(r)
           /\ Settled(r) = r \/ (Settled(r).read = 0 /\ ~Inverted(Settled(r)))
           /\ Settled(r).last = r.last /\ (Inverted(Settled(r)) => Inverted(r))
           /\ CanGrant(r, n) => CanGrant(Settled(r), n)
BY DEF WellFormed, Rings, Inverted, Used, Contiguous, Readable, Settled, CanGrant

\* A commit adds the bytes used, behind those that are there: it neither moves
\* nor splits what the reader sees, and one of no bytes changes nothing there.
LEMMA CommittedFacts ==
    ASSUME Size \in Nat, NEW r \in Rings, WellFormed(r), NEW n \in Nat, NEW used \in 0..n,
           CanGrant(r, n)
    PROVE  /\ WellFormed(Committed(r, n, used))
           /\ Used(Committed(r, n, used)) = Used(r) + used
           /\ Readable(Committed(r, n, used)) >= Readable(r)
           /\ Inverted(Committed(r, n, used)) =>
                Contiguous(Committed(r, n, used)) = Contiguous(r)
           /\ used = 0 => Readable(Committed(r, n, used)) = Readable(r)
           /\ Inverted(r) => /\ Inverted(Committed(r, n, used))
                             /\ Committed(r, n, used).last = r.last
           /\ ~Inverted(r) /\ Inverted(Committed(r, n, used)) =>
                Committed(r, n, used).last + n > Size
           /\ Committed(r, n, used).read = r.read
<1> DEFINE new == Start(r, n) + used
           c == Committed(r, n, used)
<1>1. /\ r.read \in 0..Size /\ r.write \in 0..Size /\ r.last \in 0..Size
      /\ r = [read |-> r.read, write |-> r.write, last |-> r.last]
  BY DEF Rings
<1>2. /\ c.read = r.read /\ c.write = new
      /\ c.last = IF new < r.write /\ r.write # Size THEN r.write
                  ELSE IF new > r.last THEN Size ELSE r.last
  BY <1>1 DEF Committed
<1>3. new \in 0..Size
  BY <1>1 DEF Start, CanGrant, WellFormed, Inverted
<1>4. c \in Rings
  <2>1. \A w, l \in 0..Size : [r EXCEPT !.write = w, !.last = l] \in Rings
    BY DEF Rings
  <2> DEFINE last == IF new < r.write /\ r.write # Size THEN r.write
                     ELSE IF new > r.last THEN Size ELSE r.last
  <2>2. last \in 0..Size
    BY <1>1, <1>3
  <2>3. c = [r EXCEPT !.write = new, !.last = last]
    BY DEF Committed
  <2> HIDE DEF c, new, last
  <2> QED
    BY <1>3, <2>1, <2>2, <2>3
<1> HIDE DEF c
<1>5. /\ Used(c) = Used(r) + used
      /\ c.write <= c.last /\ (Inverted(c) => c.read <= c.last)
      /\ Inverted(c) => Contiguous(c) = Contiguous(r)
  BY <1>1, <1>2 DEF Start, CanGrant, WellFormed, Inverted, Used, Contiguous
<1>6. Readable(c) >= Readable(r) /\ (used = 0 => Readable(c) = Readable(r))
  BY <1>1, <1>2, <1>4 DEF Start, CanGrant, WellFormed, Inverted, Readable, Settled, Contiguous
<1>7. /\ Inverted(r) => Inverted(c) /\ c.last = r.last
      /\ ~Inverted(r) /\ Inverted(c) => c.last + n > Size
  BY <1>1, <1>2 DEF Start, CanGrant, WellFormed, Inverted
<1> QED
  BY <1>2, <1>4, <1>5, <1>6, <1>7 DEF WellFormed, c

\* A release takes the bytes from the front, and room that was there stays.
LEMMA ReleasedFacts ==
    ASSUME Size \in Nat, NEW r \in Rings, WellFormed(r), NEW n \in 0..Readable(r), NEW g \in Nat
    PROVE  /\ WellFormed(Released(r, n))
           /\ Used(Released(r, n)) = Used(r) - n
           /\ Contiguous(Released(r, n)) = Readable(r) - n
           /\ Released(r, n).last = r.last
           /\ Inverted(Released(r, n)) = Inverted(Settled(r))
           /\ CanGrant(r, g) => CanGrant(Released(r, n), g)
BY DEF WellFormed, Rings, Inverted, Used, Contiguous, Readable, Settled, CanGrant, Released

LEMMA SplitReleasedFacts ==
    ASSUME Size \in Nat, NEW r \in Rings, WellFormed(r), NEW n \in 0..Used(r), NEW g \in Nat
    PROVE  /\ WellFormed(SplitReleased(r, n))
           /\ Used(SplitReleased(r, n)) = Used(r) - n
           /\ CanGrant(r, g) => CanGrant(SplitReleased(r, n), g)
BY DEF WellFormed, Rings, Inverted, Used, Contiguous, Readable, Settled, CanGrant,
   Released, SplitReleased
=============================================================================

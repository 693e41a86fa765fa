--------------------------- MODULE SwoTraceProofs ---------------------------
(***************************************************************************)
(* Theorems about SwoTrace, for every size of the buffer, of its blocks    *)
(* and of a packet, and every number of trace bytes.                       *)
(*                                                                         *)
(* The safety invariants of SwoTrace hold together or not at all: the      *)
(* bytes of a pending write are in the buffer only if every release takes  *)
(* what is there, a task that sleeps was told of all that happened to the  *)
(* ring since only if nothing else moves it, and the counts fit only if a  *)
(* packet is as long as it was when its write began.  What the ring does   *)
(* is in the lemmas of BBQueue.                                            *)
(***************************************************************************)
EXTENDS SwoTrace, TLAPS

TypeOK ==
    /\ transport \in Transports /\ transportNews \in BOOLEAN
    /\ wanted \in BOOLEAN /\ controlNews \in BOOLEAN
    /\ producer \in {"idle", "reading", "overrun"}
    /\ bulk \in {"off", "enabling", "writing", "waiting"} /\ packet \in 0..MaxPacket
    /\ buffered \in Nat /\ overrun \in BOOLEAN
    /\ producerNews \in BOOLEAN /\ bulkNews \in BOOLEAN /\ usbUp \in BOOLEAN
    /\ index \in Nat /\ delivered \in Nat /\ discarded \in Nat

IInv ==
    /\ TypeOK /\ CountCoversBuffer /\ GrantsHold
    /\ BulkIsWoken /\ ProducerIsWoken

-----------------------------------------------------------------------------
(* The pieces the actions are made of. *)

LEMMA MinFacts ==
    ASSUME NEW x \in Nat, NEW y \in Nat
    PROVE  Min({x, y}) = IF x <= y THEN x ELSE y
<1> DEFINE m == IF x <= y THEN x ELSE y
<1>1. m \in {x, y} /\ \A z \in {x, y} : m <= z
  OBVIOUS
<1> QED
  BY <1>1 DEF Min

LEMMA ProduceFacts ==
    ASSUME NEW over \in BOOLEAN, NEW news \in BOOLEAN, NEW otherNews \in BOOLEAN,
           Produce(over, news, otherNews)
    PROVE  /\ producer' \in {"reading", "overrun"}
           /\ producer' = "reading" <=> Q!CanGrant(ring', Block)
           /\ overrun' \in BOOLEAN /\ producerNews' \in BOOLEAN /\ bulkNews' \in BOOLEAN
           /\ otherNews => bulkNews'
BY DEF Produce

\* The bulk task leaves the bytes where they are, and sleeps on an empty ring.
LEMMA ConsumeFacts ==
    ASSUME NEW r \in Q!Rings, Q!WellFormed(r), NEW news \in BOOLEAN, Consume(r, news)
    PROVE  /\ Q!WellFormed(ring') /\ Q!Used(ring') = Q!Used(r)
           /\ Q!CanGrant(r, Block) => Q!CanGrant(ring', Block)
           /\ ring' = r \/ ring'.read = 0
           /\ bulk' \in {"writing", "waiting"} /\ packet' \in 0..MaxPacket
           /\ bulk' = "writing" => packet' \in 1..Q!Readable(ring')
           /\ bulk' = "waiting" => Q!Used(ring') = 0
           /\ bulkNews' \in BOOLEAN
<1> USE SizesAssumption
<1>1. /\ Q!WellFormed(ring') /\ Q!Used(ring') = Q!Used(r)
      /\ Q!Readable(ring') = Q!Readable(r)
      /\ ring' = r \/ ring'.read = 0
      /\ Q!CanGrant(r, Block) => Q!CanGrant(ring', Block)
  BY Q!SettledFacts DEF Consume
<1>2. Q!Readable(r) \in Nat /\ (Q!Readable(r) = 0 => Q!Used(r) = 0)
  BY Q!CountFacts
<1>3. Packet(r) \in 0..MaxPacket /\ (Q!Readable(r) > 0 => Packet(r) \in 1..Q!Readable(r))
  BY <1>2, MinFacts DEF Packet
<1>4. CASE Q!Readable(r) > 0
  BY <1>1, <1>3, <1>4 DEF Consume
<1>5. CASE Q!Readable(r) = 0
  <2>1. 0 \in 0..MaxPacket
    OBVIOUS
  <2>2. bulk' = "waiting" /\ packet' = 0 /\ bulkNews' = FALSE
    BY <1>5 DEF Consume
  <2> QED
    BY <1>1, <1>2, <1>5, <2>1, <2>2
<1> QED
  BY <1>2, <1>4, <1>5

\* A transfer that starts empties the ring, or waits for USB.
LEMMA StreamFacts ==
    ASSUME IInv, Stream
    PROVE  /\ Q!WellFormed(ring') /\ discarded' \in Nat
           /\ Q!Used(ring') + discarded' = Q!Used(ring) + discarded
           /\ Q!CanGrant(ring, Block) => Q!CanGrant(ring', Block)
           /\ ring' = ring \/ Q!Used(ring') = 0
           /\ bulk' \in {"enabling", "writing", "waiting"} /\ packet' \in 0..MaxPacket
           /\ bulk' = "writing" => packet' \in 1..Q!Readable(ring')
           /\ bulk' = "waiting" => Q!Used(ring') = 0
           /\ bulkNews' \in BOOLEAN
<1> USE SizesAssumption
<1>1. Q!WellFormed(ring) /\ ring \in Q!Rings /\ bulkNews \in BOOLEAN /\ discarded \in Nat
  BY DEF IInv, GrantsHold, TypeOK, Q!WellFormed
<1>2. Q!Used(ring) \in Nat
  BY <1>1, Q!CountFacts
<1> DEFINE r == Q!SplitReleased(ring, Q!Used(ring))
<1>3. /\ Q!WellFormed(r) /\ r \in Q!Rings /\ Q!Used(r) = 0
      /\ Q!CanGrant(ring, Block) => Q!CanGrant(r, Block)
  BY <1>1, <1>2, Q!SplitReleasedFacts DEF Q!WellFormed
<1>4. CASE usbUp
  <2>1. Consume(r, bulkNews) /\ discarded' = discarded + Q!Used(ring)
    BY <1>4 DEF Stream
  <2> HIDE DEF r
  <2> QED
    BY <1>1, <1>2, <1>3, <2>1, ConsumeFacts
<1>5. CASE ~usbUp
  BY <1>1, <1>2, <1>5 DEF Stream
<1> QED
  BY <1>4, <1>5

LEMMA StreamLeaves ==
    ASSUME IInv, Stream, transportNews' \in BOOLEAN,
           UNCHANGED <<transport, wanted, controlNews, producer, buffered, overrun, producerNews,
                       usbUp, index, delivered>>
    PROVE  IInv'
<1>1. /\ Q!WellFormed(ring') /\ discarded' \in Nat
      /\ Q!Used(ring') + discarded' = Q!Used(ring) + discarded
      /\ Q!CanGrant(ring, Block) => Q!CanGrant(ring', Block)
      /\ ring' = ring \/ Q!Used(ring') = 0
      /\ bulk' \in {"enabling", "writing", "waiting"} /\ packet' \in 0..MaxPacket
      /\ bulk' = "writing" => packet' \in 1..Q!Readable(ring')
      /\ bulk' = "waiting" => Q!Used(ring') = 0
      /\ bulkNews' \in BOOLEAN
  BY StreamFacts
<1>2. Q!Used(ring) \in Nat /\ Q!Used(ring') \in Nat
  BY <1>1, SizesAssumption, Q!CountFacts DEF IInv, GrantsHold, Q!WellFormed
<1>3. TypeOK' /\ GrantsHold' /\ BulkIsWoken' /\ ProducerIsWoken'
  BY <1>1 DEF IInv, TypeOK, GrantsHold, BulkIsWoken, ProducerIsWoken
<1>4. CountCoversBuffer'
  BY <1>1, <1>2 DEF IInv, TypeOK, CountCoversBuffer
<1> QED
  BY <1>3, <1>4 DEF IInv

-----------------------------------------------------------------------------
(* The command handlers and USB. *)

LEMMA SwoTransportStep == ASSUME IInv, NEW t \in Transports, SwoTransport(t) PROVE IInv'
BY DEF IInv, TypeOK, CountCoversBuffer, GrantsHold, BulkIsWoken, ProducerIsWoken,
   SwoTransport, bulkVars, statusVars, ghosts

LEMMA SwoControlStep == ASSUME IInv, NEW on \in BOOLEAN, SwoControl(on) PROVE IInv'
BY DEF IInv, TypeOK, CountCoversBuffer, GrantsHold, BulkIsWoken, ProducerIsWoken,
   SwoControl, bulkVars, statusVars, ghosts

LEMMA UsbChangesStep == ASSUME IInv, UsbChanges PROVE IInv'
BY DEF IInv, TypeOK, CountCoversBuffer, GrantsHold, BulkIsWoken, ProducerIsWoken,
   UsbChanges, bulkVars, statusVars, ghosts

LEMMA SwoDataStep == ASSUME IInv, NEW n \in 0..MaxData, SwoData(n) PROVE IInv'
<1> USE SizesAssumption
<1> DEFINE taken == Min({n, Q!Used(ring)})
<1>1. Q!WellFormed(ring) /\ ring \in Q!Rings /\ n \in Nat
  BY DEF IInv, GrantsHold, Q!WellFormed
<1>2. Q!Used(ring) \in Nat
  BY <1>1, Q!CountFacts
<1>3. taken \in 0..Q!Used(ring)
  BY <1>1, <1>2, MinFacts
<1> HIDE DEF taken
<1>4. /\ Q!WellFormed(ring') /\ Q!Used(ring') = Q!Used(ring) - taken
      /\ Q!CanGrant(ring, Block) => Q!CanGrant(ring', Block)
  BY <1>1, <1>3, Q!SplitReleasedFacts DEF SwoData, taken
<1>5. /\ buffered' = buffered - taken /\ delivered' = delivered + taken
      /\ bulk' \in {"off", "enabling"} /\ producerNews' = TRUE /\ bulkNews' = TRUE
      /\ UNCHANGED <<transport, transportNews, wanted, controlNews, producer, bulk, packet,
                     overrun, usbUp, index, discarded>>
  BY DEF SwoData, DataCounted, LockFree, taken, bulkVars
<1>6. CountCoversBuffer' /\ TypeOK'
  BY <1>2, <1>3, <1>4, <1>5 DEF IInv, TypeOK, CountCoversBuffer
<1>7. GrantsHold' /\ BulkIsWoken' /\ ProducerIsWoken'
  BY <1>4, <1>5 DEF IInv, GrantsHold, BulkIsWoken, ProducerIsWoken
<1> QED
  BY <1>6, <1>7 DEF IInv

-----------------------------------------------------------------------------
(* SWOTask. *)

LEMMA PortReadsStep == ASSUME IInv, NEW n \in 0..Block, PortReads(n) PROVE IInv'
<1> USE SizesAssumption
<1>1. /\ Q!WellFormed(ring) /\ ring \in Q!Rings /\ Q!CanGrant(ring, Block)
      /\ overrun \in BOOLEAN /\ producerNews \in BOOLEAN /\ bulkNews \in BOOLEAN
  BY DEF IInv, GrantsHold, PortReads, TypeOK, Q!WellFormed
<1>2. /\ Q!Used(ring) \in Nat
      /\ Q!WellFormed(ring') /\ Q!Used(ring') = Q!Used(ring) + n
      /\ Q!Readable(ring) \in Nat /\ Q!Readable(ring') \in Nat
      /\ Q!Readable(ring') >= Q!Readable(ring)
  <2>1. ring' = Q!Committed(ring, Block, n)
    BY DEF PortReads
  <2>2. Q!WellFormed(ring') /\ Q!Used(ring') = Q!Used(ring) + n
        /\ Q!Readable(ring') >= Q!Readable(ring)
    BY <1>1, <2>1, Q!CommittedFacts
  <2> QED
    BY <1>1, <2>2, Q!CountFacts DEF Q!WellFormed
<1>3. /\ producer' \in {"reading", "overrun"}
      /\ producer' = "reading" <=> Q!CanGrant(ring', Block)
      /\ overrun' \in BOOLEAN /\ producerNews' \in BOOLEAN /\ bulkNews' \in BOOLEAN
      /\ n > 0 \/ bulkNews => bulkNews'
  BY <1>1, ProduceFacts DEF PortReads, CommitTold
<1>4. /\ buffered' = buffered + n /\ index' = index + n
      /\ UNCHANGED <<transport, transportNews, wanted, controlNews, bulk, packet, usbUp,
                     delivered, discarded>>
  BY DEF PortReads, bulkVars, ghosts
<1>5. CountCoversBuffer' /\ TypeOK'
  BY <1>2, <1>3, <1>4 DEF IInv, TypeOK, CountCoversBuffer
<1>6. GrantsHold' /\ BulkIsWoken' /\ ProducerIsWoken'
  BY <1>2, <1>3, <1>4 DEF IInv, TypeOK, GrantsHold, BulkIsWoken, ProducerIsWoken
<1> QED
  BY <1>5, <1>6 DEF IInv

LEMMA ProducerWakesStep == ASSUME IInv, ProducerWakes PROVE IInv'
<1>1. /\ ring' = ring /\ producer' \in {"reading", "overrun"}
      /\ producer' = "reading" <=> Q!CanGrant(ring', Block)
      /\ overrun' \in BOOLEAN /\ producerNews' \in BOOLEAN /\ bulkNews' \in BOOLEAN
      /\ bulkNews => bulkNews'
  BY ProduceFacts DEF IInv, TypeOK, ProducerWakes
<1> QED
  BY <1>1 DEF IInv, TypeOK, CountCoversBuffer, GrantsHold, BulkIsWoken, ProducerIsWoken,
     ProducerWakes, bulkVars, ghosts

LEMMA ControlChangesStep == ASSUME IInv, ControlChanges PROVE IInv'
<1> USE SizesAssumption
<1>1. /\ Q!WellFormed(ring) /\ ring \in Q!Rings
      /\ producer = "reading" => Q!CanGrant(ring, Block)
  BY DEF IInv, GrantsHold, Q!WellFormed
<1>2. /\ Q!WellFormed(ring') /\ Q!Used(ring') = Q!Used(ring)
      /\ Q!Readable(ring') = Q!Readable(ring)
  BY <1>1, Q!CommittedFacts, Q!CountFacts DEF ControlChanges
<1>3. /\ \/ /\ producer' \in {"reading", "overrun"}
            /\ producer' = "reading" <=> Q!CanGrant(ring', Block)
         \/ producer' = "idle"
      /\ overrun' \in BOOLEAN /\ producerNews' \in BOOLEAN /\ bulkNews' = TRUE
  BY ProduceFacts DEF IInv, TypeOK, ControlChanges
<1>4. /\ controlNews' = FALSE
      /\ UNCHANGED <<transport, transportNews, wanted, bulk, packet, buffered, usbUp, index,
                     delivered, discarded>>
  BY DEF ControlChanges, bulkVars, ghosts
<1>5. CountCoversBuffer' /\ TypeOK'
  BY <1>2, <1>3, <1>4 DEF IInv, TypeOK, CountCoversBuffer
<1>6. GrantsHold' /\ BulkIsWoken' /\ ProducerIsWoken'
  BY <1>2, <1>3, <1>4 DEF IInv, GrantsHold, BulkIsWoken, ProducerIsWoken
<1> QED
  BY <1>5, <1>6 DEF IInv

-----------------------------------------------------------------------------
(* SWOBulkTask. *)

LEMMA TransportChangesStep == ASSUME IInv, TransportChanges PROVE IInv'
<1> USE SizesAssumption
<1>1. /\ transportNews' = FALSE
      /\ UNCHANGED <<transport, wanted, controlNews, producer, buffered, overrun, producerNews,
                     usbUp, index, delivered>>
  BY DEF TransportChanges
<1>2. CASE transport = "USBBulkEndpoint"
  <2>1. Stream
    BY <1>2 DEF TransportChanges
  <2> QED
    BY <1>1, <2>1, StreamLeaves
<1>3. CASE transport # "USBBulkEndpoint"
  <2>1. 0 \in 0..MaxPacket
    OBVIOUS
  <2>2. bulk' = "off" /\ packet' = 0 /\ UNCHANGED <<ring, bulkNews, discarded>>
    BY <1>3 DEF TransportChanges
  <2>3. TypeOK'
    BY <1>1, <2>1, <2>2 DEF IInv, TypeOK
  <2> QED
    BY <1>1, <2>2, <2>3 DEF IInv, CountCoversBuffer, GrantsHold, BulkIsWoken, ProducerIsWoken
<1> QED
  BY <1>2, <1>3

LEMMA BulkStartsStep == ASSUME IInv, BulkStarts PROVE IInv'
BY StreamLeaves DEF BulkStarts, IInv, TypeOK

LEMMA BulkFailsStep == ASSUME IInv, BulkFails PROVE IInv'
BY StreamLeaves DEF BulkFails, IInv, TypeOK

LEMMA BulkWakesStep == ASSUME IInv, BulkWakes PROVE IInv'
<1>1. ring \in Q!Rings /\ Q!WellFormed(ring) /\ Consume(ring, FALSE)
  BY DEF IInv, GrantsHold, Q!WellFormed, BulkWakes
<1>2. /\ Q!WellFormed(ring') /\ Q!Used(ring') = Q!Used(ring)
      /\ Q!CanGrant(ring, Block) => Q!CanGrant(ring', Block)
      /\ ring' = ring \/ ring'.read = 0
      /\ bulk' \in {"writing", "waiting"} /\ packet' \in 0..MaxPacket
      /\ bulk' = "writing" => packet' \in 1..Q!Readable(ring')
      /\ bulk' = "waiting" => Q!Used(ring') = 0
      /\ bulkNews' \in BOOLEAN
  BY <1>1, ConsumeFacts
<1> QED
  BY <1>2 DEF IInv, TypeOK, CountCoversBuffer, GrantsHold, BulkIsWoken, ProducerIsWoken,
     BulkWakes, ghosts

LEMMA BulkWritesStep == ASSUME IInv, BulkWrites PROVE IInv'
<1> USE SizesAssumption
<1> DEFINE r == Q!Released(ring, packet)
<1>1. /\ Q!WellFormed(ring) /\ ring \in Q!Rings
      /\ packet \in 1..Q!Readable(ring)
  BY DEF IInv, GrantsHold, BulkWrites, Q!WellFormed
<1>2. /\ Q!Readable(ring) \in Nat /\ Q!Used(ring) \in Nat
      /\ Q!Readable(ring) <= Q!Used(ring)
  BY <1>1, Q!CountFacts
<1>3. /\ Q!WellFormed(r) /\ r \in Q!Rings /\ Q!Used(r) = Q!Used(ring) - packet
      /\ Q!CanGrant(ring, Block) => Q!CanGrant(r, Block)
  BY <1>1, <1>2, Q!ReleasedFacts DEF Q!WellFormed
<1>4. Consume(r, TRUE)
  BY DEF BulkWrites
<1> HIDE DEF r
<1>5. /\ Q!WellFormed(ring') /\ Q!Used(ring') = Q!Used(ring) - packet
      /\ Q!CanGrant(ring, Block) => Q!CanGrant(ring', Block)
      /\ bulk' \in {"writing", "waiting"} /\ packet' \in 0..MaxPacket
      /\ bulk' = "writing" => packet' \in 1..Q!Readable(ring')
      /\ bulk' = "waiting" => Q!Used(ring') = 0
      /\ bulkNews' \in BOOLEAN
  BY <1>3, <1>4, ConsumeFacts
<1>6. /\ buffered' = buffered - packet /\ delivered' = delivered + packet
      /\ producerNews' = TRUE
      /\ UNCHANGED <<transport, transportNews, wanted, controlNews, producer, overrun, usbUp,
                     index, discarded>>
  BY DEF BulkWrites, BulkReleaseNews
<1>7. CountCoversBuffer' /\ TypeOK'
  BY <1>1, <1>2, <1>5, <1>6 DEF IInv, TypeOK, CountCoversBuffer
<1>8. GrantsHold' /\ BulkIsWoken' /\ ProducerIsWoken'
  BY <1>5, <1>6 DEF IInv, GrantsHold, BulkIsWoken, ProducerIsWoken
<1> QED
  BY <1>7, <1>8 DEF IInv

-----------------------------------------------------------------------------
(* The theorems. *)

LEMMA Initial == ASSUME Init PROVE IInv
<1>1. 0 \in 0..MaxPacket /\ BufferSize \in Nat
  BY SizesAssumption
<1>2. TypeOK
  BY <1>1 DEF Init, TypeOK, Transports
<1>3. Q!WellFormed(ring) /\ Q!Used(ring) = 0
  BY <1>1, Q!EmptyFacts DEF Init
<1> QED
  BY <1>2, <1>3 DEF Init, IInv, CountCoversBuffer, GrantsHold, BulkIsWoken, ProducerIsWoken

LEMMA Inductive == ASSUME IInv, [Next]_vars PROVE IInv'
<1>1. CASE Next
  BY <1>1, SwoTransportStep, SwoControlStep, SwoDataStep, PortReadsStep, ProducerWakesStep,
     ControlChangesStep, TransportChangesStep, BulkStartsStep, BulkWritesStep, BulkFailsStep,
     BulkWakesStep, UsbChangesStep DEF Next, SwoTask, BulkTask
<1>2. CASE UNCHANGED vars
  BY <1>2 DEF vars, bulkVars, statusVars, ghosts, IInv, TypeOK, CountCoversBuffer, GrantsHold,
     BulkIsWoken, ProducerIsWoken
<1> QED
  BY <1>1, <1>2

\* The conjunction of the invariants, with the types of the variables, is
\* inductive (SWOTask and SWOBulkTask).
THEOREM Invariance == Spec => []IInv
BY Initial, Inductive, PTL DEF Spec

\* The count of SWO_Status covers the bytes in the buffer, and no byte of trace
\* is lost or made up on its way to the host (buffered_traces).
THEOREM CountIsRight == Spec => []CountCoversBuffer
<1>1. IInv => CountCoversBuffer
  BY DEF IInv
<1> QED
  BY <1>1, Invariance, PTL

\* What a pending write holds of the buffer, and what the producer was granted,
\* stays as it was (the grants of bbqueue that live across an await).
THEOREM GrantsStay == Spec => []GrantsHold
<1>1. IInv => GrantsHold
  BY DEF IInv
<1> QED
  BY <1>1, Invariance, PTL

\* The bulk task sleeps through no byte that enters the buffer (the status
\* watch, and what an overrun or a capture sends to it).
THEOREM BulkNotForgotten == Spec => []BulkIsWoken
<1>1. IInv => BulkIsWoken
  BY DEF IInv
<1> QED
  BY <1>1, Invariance, PTL

\* The capture sleeps through no release that makes room, except for the stall
\* that ProducerIsWoken delimits (SWOTask waits for the status watch).
THEOREM ProducerNotForgotten == Spec => []ProducerIsWoken
<1>1. IInv => ProducerIsWoken
  BY DEF IInv
<1> QED
  BY <1>1, Invariance, PTL

LEMMA StallStep ==
    ASSUME IInv, Next, producer = "overrun", Q!Used(ring) = 0, ~producerNews, ~controlNews
    PROVE  producer' = "overrun" /\ ~producerNews'
<1>1. ring \in Q!Rings /\ Q!WellFormed(ring)
  BY DEF IInv, GrantsHold, Q!WellFormed
<1>2. Q!Readable(ring) = 0
  BY <1>1, SizesAssumption, Q!CountFacts
<1>3. bulk # "writing"
  BY <1>2 DEF IInv, GrantsHold
<1>4. ~HasData /\ (\A n : ~SwoData(n) /\ ~PortReads(n))
  BY DEF SwoData, HasData, PortReads
<1>5. ~SwoTask /\ ~BulkWrites
  BY <1>3 DEF SwoTask, ProducerWakes, ControlChanges, BulkWrites
<1>6. /\ \A t : SwoTransport(t) => UNCHANGED <<producer, producerNews>>
      /\ \A on : SwoControl(on) => UNCHANGED <<producer, producerNews>>
      /\ UsbChanges => UNCHANGED <<producer, producerNews>>
  BY DEF SwoTransport, SwoControl, UsbChanges, statusVars
<1>7. BulkTask => UNCHANGED <<producer, producerNews>>
  BY <1>5 DEF BulkTask, TransportChanges, BulkStarts, BulkFails, BulkWakes
<1> QED
  BY <1>4, <1>5, <1>6, <1>7 DEF Next

\* A capture that slept through a discard sleeps until a new control value
\* (SWOTask waits for the status, which nothing sends).
THEOREM StallIsFinal == Spec => StallNeedsControl
<1>1. IInv /\ [Next]_vars =>
        [producer = "overrun" /\ Q!Used(ring) = 0 /\ ~producerNews /\ ~controlNews
           => producer' = "overrun" /\ ~producerNews']_vars
  BY StallStep
<1> QED
  BY <1>1, Invariance, PTL DEF Spec, StallNeedsControl
=============================================================================

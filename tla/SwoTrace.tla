------------------------------ MODULE SwoTrace ------------------------------
(***************************************************************************)
(* The way of trace data from the SWO port to the host (swo.rs).           *)
(*                                                                         *)
(*   SWOTask       reads the port into the trace buffer while a capture    *)
(*                 runs, and waits for a change of status on an overrun    *)
(*   SWOBulkTask   writes the buffer to the streaming endpoint while that  *)
(*                 is the transport, and waits for a change of status when *)
(*                 the buffer is empty                                     *)
(*   SWO_Data      the command that takes the data out of the buffer       *)
(*                                                                         *)
(* They share the buffer, and wake each other through the status watch.    *)
(* A watch is its value and, for each receiver, whether the receiver has   *)
(* news: a value sent since it last looked, the receiver's own included.   *)
(* Each action is what one task does from one await to the next.           *)
(***************************************************************************)
EXTENDS Naturals, FiniteSetsExt

CONSTANTS
    BufferSize,    \* SWO_BUFFER_SIZE
    Block,         \* TRACE_BLOCK_SIZE, what the producer asks the buffer for
    MaxPacket,     \* MAX_PACKET_SIZE, what the bulk task writes at most
    MaxData,       \* the trace bytes one SWO_Data response has room for
    MaxTrace       \* bound: the bytes the target ever sends

ASSUME SizesAssumption ==
    /\ Block \in Nat \ {0} /\ MaxPacket \in Nat \ {0}
    /\ BufferSize \in Nat /\ BufferSize >= 2 * Block
    /\ MaxData \in Nat /\ MaxTrace \in Nat

Transports == {"None", "SWOData", "USBBulkEndpoint"}

VARIABLES
    transport, transportNews,  \* SWO::transport, news for the bulk task
    wanted, controlNews,       \* the capture SWO::control asks for, news for SWOTask
    producer,                  \* SWOTask: "idle", "reading" or "overrun"
    bulk,                      \* SWOBulkTask: "off", "enabling", "writing" or "waiting"
    packet,                    \* the bytes of the write that is pending
    ring,                      \* the trace buffer
    buffered,                  \* buffered_traces of SWO::status
    overrun,                   \* the buffer_overrun flag of SWO::status
    producerNews, bulkNews,    \* news of SWO::status for the two tasks
    usbUp,                     \* the streaming endpoint is enabled
    index,                     \* bytes the target has sent (next_trace_index)
    delivered,                 \* bytes the host was given
    discarded                  \* bytes thrown away when streaming starts

statusVars == <<overrun, producerNews, bulkNews>>
bulkVars   == <<bulk, packet>>
ghosts     == <<delivered, discarded>>
vars == <<transport, transportNews, wanted, controlNews, producer, bulkVars, ring,
          buffered, statusVars, usbUp, index, ghosts>>

Q == INSTANCE BBQueue WITH Size <- BufferSize

Init ==
    /\ transport = "None" /\ transportNews = FALSE
    /\ wanted = FALSE /\ controlNews = FALSE
    /\ producer = "idle" /\ bulk = "off" /\ packet = 0
    /\ ring = Q!EmptyRing /\ buffered = 0 /\ overrun = FALSE
    /\ producerNews = TRUE /\ bulkNews = TRUE
    /\ usbUp \in BOOLEAN
    /\ index = 0 /\ delivered = 0 /\ discarded = 0

-----------------------------------------------------------------------------
(* Command handlers. *)

SwoTransport(t) ==
    /\ transport' = t /\ transportNews' = TRUE
    /\ UNCHANGED <<wanted, controlNews, producer, bulkVars, ring, buffered, statusVars,
                   usbUp, index, ghosts>>

\* SWO_Mode, SWO_Baudrate and SWO_Control, when they change the control value:
\* "on" is whether the new value asks for a capture.
SwoControl(on) ==
    /\ wanted' = on /\ controlNews' = TRUE
    /\ UNCHANGED <<transport, transportNews, producer, bulkVars, ring, buffered,
                   statusVars, usbUp, index, ghosts>>

\* The bulk task locks the buffer until its transfer ends or is dropped.
NeverLocked == TRUE
LockFree == bulk \in {"off", "enabling"}

AlwaysAnswers == TRUE
HasData == Q!Used(ring) > 0

UncountedData(n) == buffered
DataCounted(n) == buffered - n

SwoData(n) ==
    /\ transport = "SWOData" /\ LockFree /\ HasData
    /\ LET taken == Min({n, Q!Used(ring)})
       IN  /\ ring' = Q!SplitReleased(ring, taken)
           /\ buffered' = DataCounted(taken)
           /\ delivered' = delivered + taken
    /\ producerNews' = TRUE /\ bulkNews' = TRUE
    /\ UNCHANGED <<transport, transportNews, wanted, controlNews, producer, bulkVars,
                   overrun, usbUp, index, discarded>>

-----------------------------------------------------------------------------
(***************************************************************************)
(* SWOTask.  Produce is the loop of data_fut up to its next await, given   *)
(* the overrun flag and the news so far.  Without room it keeps looking as *)
(* long as there is news, its own included, and then waits.                *)
(***************************************************************************)
Produce(over, news, otherNews) ==
    IF Q!CanGrant(ring', Block)
    THEN /\ producer' = "reading" /\ overrun' = over
         /\ producerNews' = news /\ bulkNews' = otherNews
    ELSE /\ producer' = "overrun" /\ overrun' = TRUE
         /\ producerNews' = FALSE /\ bulkNews' = (otherNews \/ ~over)

\* The port returned n bytes, or none after a line error: with none the grant
\* is dropped and the status is not touched.
CommitUnsent(n) == Produce(IF n > 0 THEN FALSE ELSE overrun, producerNews, bulkNews)
CommitTold(n) == IF n > 0 THEN Produce(FALSE, TRUE, TRUE)
                          ELSE Produce(overrun, producerNews, bulkNews)

PortReads(n) ==
    /\ producer = "reading" /\ ~controlNews
    /\ index + n <= MaxTrace
    /\ ring' = Q!Committed(ring, Block, n)
    /\ buffered' = buffered + n /\ index' = index + n
    /\ CommitTold(n)
    /\ UNCHANGED <<transport, transportNews, wanted, controlNews, bulkVars, usbUp, ghosts>>

ProducerWakes ==
    /\ producer = "overrun" /\ producerNews /\ ~controlNews
    /\ ring' = ring
    /\ Produce(overrun, FALSE, bulkNews)
    /\ UNCHANGED <<transport, transportNews, wanted, controlNews, bulkVars, buffered,
                   usbUp, index, ghosts>>

\* select() polls the control first and drops data_fut, with the grant it may
\* hold.  A capture that starts may be refused its port (AccessPort), one that
\* runs cannot; either way the status is sent again.
ControlChanges ==
    /\ controlNews
    /\ controlNews' = FALSE
    /\ ring' = IF producer = "reading" THEN Q!Committed(ring, Block, 0) ELSE ring
    /\ \/ wanted /\ Produce(overrun, TRUE, TRUE)
       \/ /\ ~wanted \/ producer = "idle"
          /\ producer' = "idle" /\ producerNews' = TRUE /\ bulkNews' = TRUE
          /\ UNCHANGED overrun
    /\ UNCHANGED <<transport, transportNews, wanted, bulkVars, buffered, usbUp, index, ghosts>>

-----------------------------------------------------------------------------
Packet(r) == Min({MaxPacket, Q!Readable(r)})

(***************************************************************************)
(* SWOBulkTask.  Consume is the loop of transfer_fut up to its next await, *)
(* over ring r: a write of what is contiguous, or waiting until there is   *)
(* no news left.                                                           *)
(***************************************************************************)
Consume(r, news) ==
    /\ ring' = Q!Settled(r)
    /\ IF Q!Readable(r) > 0
       THEN bulk' = "writing" /\ packet' = Packet(r) /\ bulkNews' = news
       ELSE bulk' = "waiting" /\ packet' = 0 /\ bulkNews' = FALSE

\* transfer_fut before its wait_enabled() and after it: the data of earlier
\* is discarded, and neither the count nor the producer is told.
Stream ==
    IF usbUp
    THEN /\ Consume(Q!SplitReleased(ring, Q!Used(ring)), bulkNews)
         /\ discarded' = discarded + Q!Used(ring)
    ELSE bulk' = "enabling" /\ packet' = 0 /\ UNCHANGED <<ring, bulkNews, discarded>>

\* select() polls the transport first; a pending write is dropped unreleased.
TransportChanges ==
    /\ transportNews
    /\ transportNews' = FALSE
    /\ IF transport = "USBBulkEndpoint"
       THEN Stream
       ELSE bulk' = "off" /\ packet' = 0 /\ UNCHANGED <<ring, bulkNews, discarded>>
    /\ UNCHANGED <<transport, wanted, controlNews, producer, buffered, overrun, producerNews,
                   usbUp, index, delivered>>

BulkStarts ==
    /\ bulk = "enabling" /\ usbUp /\ ~transportNews
    /\ Stream
    /\ UNCHANGED <<transport, transportNews, wanted, controlNews, producer, buffered, overrun,
                   producerNews, usbUp, index, delivered>>

BulkReleaseSilent == producerNews
BulkReleaseNews == TRUE

\* The endpoint took the packet.
BulkWrites ==
    /\ bulk = "writing" /\ usbUp /\ ~transportNews
    /\ buffered' = buffered - packet /\ delivered' = delivered + packet
    /\ producerNews' = BulkReleaseNews
    /\ Consume(Q!Released(ring, packet), TRUE)
    /\ UNCHANGED <<transport, transportNews, wanted, controlNews, producer, overrun, usbUp,
                   index, discarded>>

\* The endpoint refused it: the transfer ends, and the next one begins with
\* wait_enabled().
BulkFails ==
    /\ bulk = "writing" /\ ~usbUp /\ ~transportNews
    /\ Stream
    /\ UNCHANGED <<transport, transportNews, wanted, controlNews, producer, buffered, overrun,
                   producerNews, usbUp, index, delivered>>

BulkWakes ==
    /\ bulk = "waiting" /\ bulkNews /\ ~transportNews
    /\ Consume(ring, FALSE)
    /\ UNCHANGED <<transport, transportNews, wanted, controlNews, producer, buffered, overrun,
                   producerNews, usbUp, index, ghosts>>

UsbChanges ==
    /\ usbUp' = ~usbUp
    /\ UNCHANGED <<transport, transportNews, wanted, controlNews, producer, bulkVars, ring,
                   buffered, statusVars, index, ghosts>>

-----------------------------------------------------------------------------
SwoTask  == ProducerWakes \/ ControlChanges
BulkTask == TransportChanges \/ BulkStarts \/ BulkWrites \/ BulkFails \/ BulkWakes

Next ==
    \/ \E t \in Transports : SwoTransport(t)
    \/ \E on \in BOOLEAN : SwoControl(on)
    \/ \E n \in 0..MaxData : SwoData(n)
    \/ \E n \in 0..Block : PortReads(n)
    \/ SwoTask
    \/ BulkTask
    \/ UsbChanges

\* The executor polls the tasks that were woken, and the host reads a streaming
\* endpoint that is enabled.  Neither the target nor the host owes anything else.
Spec == Init /\ [][Next]_vars /\ WF_vars(SwoTask) /\ WF_vars(BulkTask)

-----------------------------------------------------------------------------
(* What must hold. *)

\* SWO_Status counts every byte in the buffer, so taking bytes out never
\* drives the count below zero; it overstates them by exactly what was
\* discarded, for a discard is never subtracted.
CountCoversBuffer ==
    /\ buffered = Q!Used(ring) + discarded
    /\ index = Q!Used(ring) + delivered + discarded

\* The bytes of a pending write stay in the buffer, contiguous, and the room
\* the producer was granted stays free, whatever the other side and the
\* commands do meanwhile; and the positions of the ring stay in order.
GrantsHold ==
    /\ Q!WellFormed(ring)
    /\ bulk = "writing" => packet \in 1..Q!Readable(ring)
    /\ producer = "reading" => Q!CanGrant(ring, Block)

\* The bulk task never sleeps on data it was not told of.
BulkIsWoken == bulk = "waiting" /\ Q!Used(ring) > 0 => bulkNews

\* The producer sleeps through room it was not told of only when no byte was
\* taken to make it: the buffer was discarded, or the reader moved on to the
\* start of the ring.
ProducerIsWoken ==
    producer = "overrun" /\ Q!CanGrant(ring, Block)
        => producerNews \/ Q!Used(ring) = 0 \/ ring.read = 0

\* A capture that slept through a discard is resumed by nothing but a new
\* control value: not by a command that reads, nor by the transport or USB.
StallNeedsControl ==
    [][ producer = "overrun" /\ Q!Used(ring) = 0 /\ ~producerNews /\ ~controlNews
        => producer' = "overrun" /\ ~producerNews' ]_vars

\* Data streams: with the streaming transport up, the oldest byte leaves.
DataStreams ==
    \A d \in 0..MaxTrace :
        (transport = "USBBulkEndpoint" /\ Q!Used(ring) > 0 /\ delivered + discarded = d)
            ~> \/ delivered + discarded > d
               \/ transport # "USBBulkEndpoint" \/ ~usbUp

FullAt(d) == ~Q!CanGrant(ring, Block) /\ discarded = d

\* An overrun ends: a streamed buffer that was full lets the producer go on,
\* unless it was discarded instead.
OverrunEnds ==
    \A d \in 0..MaxTrace :
        (transport = "USBBulkEndpoint" /\ producer = "overrun" /\ FullAt(d))
            ~> \/ producer # "overrun" \/ discarded > d
               \/ transport # "USBBulkEndpoint" \/ ~usbUp
=============================================================================

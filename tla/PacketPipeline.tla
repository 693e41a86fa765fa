--------------------------- MODULE PacketPipeline ---------------------------
(***************************************************************************)
(* From a request packet on the USB OUT endpoint to its response on the IN *)
(* endpoint (usb.rs, packet_buffer.rs, dispatcher.rs).                     *)
(*                                                                         *)
(*   Reader       reads packets into the packet buffer, except a           *)
(*                TransferAbort, which only sets the abort token           *)
(*   dispatch_all handles the packets in the buffer one after another and  *)
(*                writes their responses                                   *)
(*                                                                         *)
(* The two are futures of one task; each waits for the other through a     *)
(* signal of the buffer, and for USB through its endpoint.  Each action is *)
(* what one of them does from one await to the next.  What a command does  *)
(* to the probe is in AccessPort and the modules beside it.                *)
(***************************************************************************)
EXTENDS Naturals, SequencesExt

CONSTANTS
    BufferSize,   \* the bytes of the packet buffer
    Header,       \* the bytes of a packet's length in the buffer (4)
    MaxPacket,    \* MAX_PACKET_SIZE
    Sizes,        \* the sizes of the packets the host sends
    MaxSent       \* bound: the packets the host ever sends

ASSUME PacketAssumption ==
    /\ Header \in Nat \ {0} /\ MaxPacket \in Nat \ {0} /\ MaxSent \in Nat
    /\ Sizes \subseteq 0..MaxPacket
    /\ BufferSize \in Nat /\ BufferSize >= 2 * (Header + MaxPacket) + Header

Grant == Header + MaxPacket

\* What a packet asks for: a command of DAP or of the probe's own, the
\* TransferAbort, or the probe's reset of a type it does not know.
Kinds == {"command", "abort", "reset"}
Packets == [n : 1..MaxSent, size : 0..MaxPacket, kind : Kinds]

VARIABLES
    usbUp,          \* the endpoints are enabled
    sent,           \* packets the host has sent; a packet is known by its number
    outSlot,        \* the packet in the OUT endpoint, if any
    reader,         \* "disabled", "granting" or "reading"
    ring,           \* the packet buffer's ring
    queue,          \* the packets in it
    produceSignal,  \* PacketBuffer::produce_signal, for the dispatcher
    consumeSignal,  \* PacketBuffer::consume_signal, for the reader
    dispatcher,     \* "waiting", "handling" or "writing"
    aborted,        \* the abort token
    inSlot,         \* the response in the IN endpoint, if any
    got,            \* the packet whose response the host got last
    gone            \* the packets the host must not expect a response to: by
                    \* their kind, or because the bus lost them or their response

hostVars == <<sent, got>>
usbVars  == <<usbUp, outSlot, inSlot>>
bufVars  == <<ring, queue, produceSignal, consumeSignal>>
vars     == <<hostVars, usbVars, reader, bufVars, dispatcher, aborted, gone>>

Q == INSTANCE BBQueue WITH Size <- BufferSize

Init ==
    /\ usbUp = FALSE /\ outSlot = {} /\ inSlot = {}
    /\ sent = 0 /\ got = 0 /\ gone = {}
    /\ ring = Q!EmptyRing /\ queue = <<>>
    /\ produceSignal = FALSE /\ consumeSignal = FALSE
    /\ reader = "disabled" /\ dispatcher = "waiting" /\ aborted = FALSE

-----------------------------------------------------------------------------
(***************************************************************************)
(* The host and the bus.  An endpoint holds one packet; what it holds is   *)
(* lost when the device is unplugged or suspended.                         *)
(***************************************************************************)
HostSends(size, kind) ==
    /\ usbUp /\ outSlot = {} /\ sent < MaxSent
    /\ kind = "abort" => size = 1
    /\ kind = "reset" => size >= 2
    /\ sent' = sent + 1
    /\ outSlot' = {[n |-> sent + 1, size |-> size, kind |-> kind]}
    /\ gone' = IF kind = "command" THEN gone ELSE gone \cup {sent + 1}
    /\ UNCHANGED <<got, usbUp, inSlot, reader, bufVars, dispatcher, aborted>>

HostReads ==
    /\ \E n \in inSlot : got' = n
    /\ inSlot' = {}
    /\ UNCHANGED <<sent, usbUp, outSlot, reader, bufVars, dispatcher, aborted, gone>>

UsbChanges ==
    /\ usbUp' = ~usbUp
    /\ outSlot' = {} /\ inSlot' = {}
    /\ gone' = gone \cup {p.n : p \in outSlot} \cup inSlot
    /\ UNCHANGED <<hostVars, reader, bufVars, dispatcher, aborted>>

-----------------------------------------------------------------------------
(* Reader::read_all.  AskGrant is grant() up to its await, over ring r: it *)
(* tries again as long as there is a signal to take.                       *)
AskGrant(r, signal) ==
    IF Q!CanGrant(r, Grant) THEN reader' = "reading" /\ consumeSignal' = signal
                            ELSE reader' = "granting" /\ consumeSignal' = FALSE

ReaderStarts ==
    /\ reader = "disabled" /\ usbUp
    /\ AskGrant(ring, consumeSignal)
    /\ UNCHANGED <<hostVars, usbVars, ring, queue, produceSignal, dispatcher, aborted, gone>>

ReaderGranted ==
    /\ reader = "granting" /\ consumeSignal
    /\ AskGrant(ring, FALSE)
    /\ UNCHANGED <<hostVars, usbVars, ring, queue, produceSignal, dispatcher, aborted, gone>>

ShortIsAbort(p) == p.size = 1
IsAbort(p) == p.size = 1 /\ p.kind = "abort"

\* commit(): the header and the packet, and the dispatcher is signalled.
CommitUnsignalled(p) == produceSignal' = produceSignal
Commit(p) == produceSignal' = TRUE

ReaderReads ==
    /\ reader = "reading" /\ usbUp
    /\ \E p \in outSlot :
          IF IsAbort(p)
          THEN /\ aborted' = TRUE /\ ring' = Q!Committed(ring, Grant, 0)
               /\ UNCHANGED <<queue, produceSignal>>
          ELSE /\ ring' = Q!Committed(ring, Grant, Header + p.size)
               /\ queue' = Append(queue, p) /\ Commit(p)
               /\ UNCHANGED aborted
    /\ outSlot' = {}
    /\ AskGrant(ring', consumeSignal)
    /\ UNCHANGED <<hostVars, usbUp, inSlot, dispatcher, gone>>

\* read() failed: the grant is dropped, and wait_enabled() comes next.
ReaderFails ==
    /\ reader = "reading" /\ ~usbUp
    /\ reader' = "disabled" /\ ring' = Q!Committed(ring, Grant, 0)
    /\ UNCHANGED <<hostVars, usbVars, queue, produceSignal, consumeSignal, dispatcher, aborted,
                   gone>>

-----------------------------------------------------------------------------
(***************************************************************************)
(* dispatch_all.  Fetch is read() up to its await, over ring r.  try_read  *)
(* takes the first packet only when more than a header can be read, which  *)
(* the packet's own header is not; the commands that await (a delay, the   *)
(* reactor's storage and status) do so before they respond.                *)
(***************************************************************************)
HasHeader(r) == Q!Readable(r) >= Header
HasPacket(r) == Q!Readable(r) > Header

Fetch(r, signal) ==
    /\ ring' = Q!Settled(r)
    /\ IF HasPacket(r)
       THEN dispatcher' \in {"handling", "writing"} /\ produceSignal' = signal
       ELSE dispatcher' = "waiting" /\ produceSignal' = FALSE

DispatcherWakes ==
    /\ dispatcher = "waiting" /\ produceSignal
    /\ Fetch(ring, FALSE)
    /\ UNCHANGED <<hostVars, usbVars, reader, queue, consumeSignal, aborted, gone>>

Handled ==
    /\ dispatcher = "handling"
    /\ dispatcher' = "writing"
    /\ UNCHANGED <<hostVars, usbVars, reader, bufVars, aborted, gone>>

\* release() of the packet that was answered, then the next one.
ReleaseUnsignalled == consumeSignal' = consumeSignal
ReleaseSignals == consumeSignal' = TRUE

ReleasedHeader(p) == Q!Released(ring, Header)
ReleasedPacket(p) == Q!Released(ring, Header + p.size)

ReleaseAndFetch ==
    /\ queue' = Tail(queue) /\ ReleaseSignals
    /\ Fetch(ReleasedPacket(Head(queue)), produceSignal)

\* response_size > 0: every handler answers but the reset of an unknown type.
HasResponse(p) == p.kind # "reset"

Responds ==
    /\ dispatcher = "writing" /\ HasResponse(Head(queue))
    /\ usbUp /\ inSlot = {}
    /\ inSlot' = {Head(queue).n}
    /\ ReleaseAndFetch
    /\ UNCHANGED <<hostVars, usbUp, outSlot, reader, aborted, gone>>

\* write_packet ignores that the endpoint refused the response.
ResponseLost ==
    /\ dispatcher = "writing" /\ HasResponse(Head(queue)) /\ ~usbUp
    /\ gone' = gone \cup {Head(queue).n}
    /\ ReleaseAndFetch
    /\ UNCHANGED <<hostVars, usbVars, reader, aborted>>

\* Nothing to write, and no await before the release.
Unanswered ==
    /\ dispatcher = "writing" /\ ~HasResponse(Head(queue))
    /\ ReleaseAndFetch
    /\ UNCHANGED <<hostVars, usbVars, reader, aborted, gone>>

-----------------------------------------------------------------------------
ReaderTask == ReaderStarts \/ ReaderGranted \/ ReaderReads \/ ReaderFails
DispatchTask == DispatcherWakes \/ Handled \/ Responds \/ ResponseLost \/ Unanswered

Next ==
    \/ \E size \in Sizes, kind \in Kinds : HostSends(size, kind)
    \/ HostReads
    \/ UsbChanges
    \/ ReaderTask
    \/ DispatchTask

\* The executor polls what was woken, delays end, and a host that sends
\* requests reads the responses.
Spec == Init /\ [][Next]_vars /\ WF_vars(ReaderTask) /\ WF_vars(DispatchTask) /\ WF_vars(HostReads)

-----------------------------------------------------------------------------
(* What must hold. *)

Stored(p) == Header + p.size

\* Where each packet of q ends, counted from the start of the first.
Offset(q) ==
    LET end[k \in 0..Len(q)] == IF k = 0 THEN 0 ELSE end[k - 1] + Stored(q[k])
    IN  end

\* The ring holds the queued packets and nothing else, and what is contiguous in
\* it are whole packets, so that no length is ever read in the middle of one; the
\* packet being answered is among them, and the room the reader was granted stays
\* free.
RingHoldsQueue ==
    /\ Q!WellFormed(ring)
    /\ Q!Used(ring) = Offset(queue)[Len(queue)]
    /\ \E k \in 0..Len(queue) :
         Q!Readable(ring) = Offset(queue)[k] /\ (dispatcher # "waiting" => k > 0)
    /\ reader = "reading" => Q!CanGrant(ring, Grant)

\* The reader never sleeps while a packet would fit, unless the dispatcher has a
\* packet in hand, at whose release it signals.
ReaderIsWoken ==
    reader = "granting" /\ Q!CanGrant(ring, Grant) => consumeSignal \/ dispatcher # "waiting"

\* The dispatcher sleeps over a queued packet only if that packet is empty and
\* nothing follows it before the end of the ring.
StallsOnlyOnEmpty ==
    dispatcher = "waiting" /\ queue # <<>> /\ ~produceSignal
        => Head(queue).size = 0 /\ Q!Readable(ring) = Header

\* An empty packet at the end of the data before the wrap, with the dispatcher
\* asleep.
Stalled ==
    /\ dispatcher = "waiting" /\ queue # <<>>
    /\ Q!Readable(ring) = Header /\ Q!Inverted(Q!Settled(ring))

\* It stops the dispatcher for good: no packet that follows, and no unplugging,
\* ends the stall.
WrapStallIsFinal == [][Stalled => Stalled']_vars

\* Responses come in the order of the requests, each at most once, and skip
\* only aborts, resets of an unknown type and what an unplugged endpoint lost: a
\* host that pairs each response with its oldest open request must know of the
\* first two, and never pairs wrongly otherwise.
ResponsesInOrder ==
    [][ got' # got => got' > got /\ (got + 1)..(got' - 1) \subseteq gone ]_vars

Underway(n) == \E p \in outSlot \cup ToSet(queue) : p.n = n
EmptyQueued == \E p \in outSlot \cup ToSet(queue) : p.size = 0

\* Every packet leaves the pipeline, and the host has its response then or later,
\* unless it is one of those that have none: though the host sends faster than
\* the probe answers and waits for no response, and unless an empty packet is in
\* the way.
RequestsAnswered ==
    \A n \in 1..MaxSent :
        Underway(n) ~> (~Underway(n) /\ (got >= n \/ n \in gone)) \/ EmptyQueued
=============================================================================

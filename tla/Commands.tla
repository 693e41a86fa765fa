------------------------------ MODULE Commands ------------------------------
(***************************************************************************)
(* The command layer: how the dispatcher takes a request apart and lays    *)
(* out its answer (protocol/, dispatcher.rs).                              *)
(*                                                                         *)
(* Three commands carry a list of items, each one byte of header and the   *)
(* data that header asks for: the requests of a Transfer, the sequences of *)
(* SWD_Sequence and of JTAG_Sequence.  Their iterators read the headers,   *)
(* and a misread one takes data for headers.  The other commands are of a  *)
(* size their first bytes tell, the rest of them abstracted.  (A packet    *)
(* with another first byte is the reactor's: see ConfigStore.)             *)
(*                                                                         *)
(* Requests are bytes.  A byte of an answer is named for what it holds:    *)
(* the item, the part of it and its place.  The host is external: it knows *)
(* the headers as the commands' names and comments describe them.          *)
(***************************************************************************)
EXTENDS Integers, SequencesExt

CONSTANTS
    PacketSize,    \* MAX_PACKET_SIZE, 64 in the code
    VersionSize,   \* the bytes of the firmware's version
    Headers,       \* the items' headers the host uses: a set for each command
    DataBytes,     \* bound: the bytes of the items' data
    OtherBytes,    \* bound: the bytes of the other commands
    MaxItems       \* bound of the items of a command

Itemised == {"Transfer", "SWDSequence", "JTAGSequence"}
Byte == 0..255

ASSUME CommandAssumption ==
    /\ PacketSize \in Nat /\ PacketSize >= 16 /\ VersionSize \in 0..(PacketSize - 2)
    /\ Headers \in [Itemised -> SUBSET Byte]
    /\ DataBytes \subseteq Byte /\ OtherBytes \subseteq Byte /\ MaxItems \in Nat

VARIABLES
    pc,        \* idle, received, items, done, answered or panicked: an assertion
               \* or a slice failed, and the firmware stops until it is reset
    sent,      \* the host's command: its type, its items, and whether the packet
               \* holds all of it
    payload,   \* what arrived after the first byte
    index,     \* payload_index of the iterator, from 1
    left,      \* requests or sequences_left of the iterator
    taken,     \* the items it returned that were executed
    answer     \* the answer: [id, ok, data], without its fixed bytes

vars == <<pc, sent, payload, index, left, taken, answer>>

Flag(byte, bit) == (byte \div bit) % 2 = 1
ByteCount(bits) == (bits + 7) \div 8
Or64(bits) == IF bits = 0 THEN 64 ELSE bits
Least(m, n) == IF m < n THEN m ELSE n

None == [none |-> TRUE]

\* The longest answer, after its first byte.
Room == PacketSize - 1

-----------------------------------------------------------------------------
(***************************************************************************)
(* The commands without items: the first byte, the least a request holds   *)
(* after it, and the size of the answer after it.                          *)
(***************************************************************************)

Format(id, request, response) == [id |-> id, request |-> request, response |-> response]

Info              == Format(0, 1, 1)
HostStatus        == Format(1, 2, 1)
Connect           == Format(2, 1, 1)
Disconnect        == Format(3, 0, 1)
TransferConfigure == Format(4, 5, 1)
TransferBlock     == Format(6, 4, 3)
WriteAbort        == Format(8, 5, 1)
Delay             == Format(9, 2, 1)
ResetTarget       == Format(10, 0, 2)
SWJPins           == Format(16, 6, 1)
SWJClock          == Format(17, 4, 1)
SWJSequence       == Format(18, 2, 1)
SWDConfigure      == Format(19, 1, 1)
JTAGConfigure     == Format(21, 1, 1)
JTAGIDCode        == Format(22, 1, 5)
SWOTransport      == Format(23, 1, 1)
SWOMode           == Format(24, 1, 1)
SWOBaudrate       == Format(25, 4, 4)
SWOControl        == Format(26, 1, 1)
SWOStatus         == Format(27, 0, 5)
SWOData           == Format(28, 2, 3)
SWOExtendedStatus == Format(30, 1, 0)

\* Those with items, whose answer begins with a count or a status.
Transfer     == Format(5, 2, 2)
JTAGSequence == Format(20, 1, 1)
SWDSequence  == Format(29, 1, 1)

\* Command::try_parse.
Formats ==
    [Info |-> Info, HostStatus |-> HostStatus, Connect |-> Connect,
     Disconnect |-> Disconnect, TransferConfigure |-> TransferConfigure,
     Transfer |-> Transfer, TransferBlock |-> TransferBlock, WriteAbort |-> WriteAbort,
     Delay |-> Delay, ResetTarget |-> ResetTarget, SWJPins |-> SWJPins,
     SWJClock |-> SWJClock, SWJSequence |-> SWJSequence, SWDConfigure |-> SWDConfigure,
     SWDSequence |-> SWDSequence, SWOTransport |-> SWOTransport, SWOMode |-> SWOMode,
     SWOBaudrate |-> SWOBaudrate, SWOControl |-> SWOControl, SWOStatus |-> SWOStatus,
     SWOExtendedStatus |-> SWOExtendedStatus, SWOData |-> SWOData,
     JTAGSequence |-> JTAGSequence, JTAGConfigure |-> JTAGConfigure,
     JTAGIDCode |-> JTAGIDCode]

\* A number of bits or of devices says how much must follow; 0 bits stand for 256.
SequenceNeeds(p) == 1 + ByteCount(IF p[1] = 0 THEN 256 ELSE p[1])
ConfigureNeeds(p) == 1 + p[1]

Parses(type, p) ==
    /\ Len(p) >= Formats[type].request
    /\ type = "SWJSequence" => Len(p) >= SequenceNeeds(p)
    /\ type = "JTAGConfigure" => Len(p) >= ConfigureNeeds(p)

\* What an answer may hold after its fixed bytes: what Info tells of its ids, the
\* words a block read, the fields an extended status was asked for, trace data.
InfoData(p) ==
    {CASE p[1] = 4 -> 5 [] p[1] = 9 -> VersionSize [] p[1] \in {240, 254} -> 1
       [] p[1] = 253 -> 4 [] p[1] = 255 -> 2 [] OTHER -> 0}
BlockWords(p) ==
    IF Flag(p[4], 2)
    THEN {4 * n : n \in 0..(Least(Room - 3, 4 * (p[2] + 256 * p[3])) \div 4)} ELSE {0}
ExtendedFields(p) ==
    {(IF Flag(p[1], 1) THEN 1 ELSE 0) + (IF Flag(p[1], 2) THEN 4 ELSE 0)
     + (IF Flag(p[1], 4) THEN 8 ELSE 0)}
TraceBytes(p) == 0..Least(Room - 3, p[1] + 256 * p[2])

AnswerSizes(type, p) ==
    CASE type = "Info" -> InfoData(p)
      [] type = "TransferBlock" -> BlockWords(p)
      [] type = "SWOExtendedStatus" -> ExtendedFields(p)
      [] type = "SWOData" -> TraceBytes(p)
      [] OTHER -> {0}

-----------------------------------------------------------------------------
(* The bytes of an answer. *)

Bytes(item, part, n) == [b \in 1..n |-> [item |-> item, part |-> part, byte |-> b]]

If(condition, bytes) == IF condition THEN bytes ELSE <<>>

\* TransferRequest, and the top bits of a sequence's header.
IsRead(header) == Flag(header, 2)
IsValueMatch(header) == Flag(header, 16)
IsMatchMask(header) == Flag(header, 32)
HasTimestamp(header) == Flag(header, 128)
SeqBits(header) == header % 64
IsInput(header) == Flag(header, 128)

Begin(type) == Formats[type].response
RoomLeft == Room - Begin(sent.type) - Len(answer.data)

-----------------------------------------------------------------------------
(***************************************************************************)
(* The host.  "there's only data if the request is a write or a read       *)
(* match": what it sends with a header, and what it expects to find in the *)
(* answer for an item.                                                     *)
(***************************************************************************)

HostData(type, header) ==
    CASE type = "Transfer" -> IF ~IsRead(header) \/ IsValueMatch(header) THEN 4 ELSE 0
      [] type = "SWDSequence" -> IF IsInput(header) THEN 0 ELSE ByteCount(Or64(SeqBits(header)))
      [] type = "JTAGSequence" -> ByteCount(Or64(SeqBits(header)))

Awaits(type, header, item) ==
    CASE type = "Transfer" ->
            If(HasTimestamp(header), Bytes(item, "timestamp", 4))
            \o If(IsRead(header) /\ ~IsValueMatch(header), Bytes(item, "data", 4))
      [] OTHER ->
            If(IsInput(header), Bytes(item, "data", ByteCount(Or64(SeqBits(header)))))

AwaitedOf(items) ==
    FlattenSeq([k \in DOMAIN items |-> Awaits(sent.type, items[k][1], k)])

\* An item: a header, and the same byte over and over.
Item(type, header, byte) == <<header>> \o [k \in 1..HostData(type, header) |-> byte]
Items(type) == {Item(type, h, d) : h \in Headers[type], d \in DataBytes}

Before(type, n) == IF type = "Transfer" THEN <<0, n>> ELSE <<n>>

HostSendsItems ==
    /\ pc = "idle"
    /\ \E type \in Itemised, n \in 1..MaxItems, size \in 0..Room :
        \E items \in [1..n -> Items(type)] :
            LET whole == Before(type, n) \o FlattenSeq(items)
            IN /\ Len(whole) <= Room /\ size <= Len(whole)
               /\ sent' = [type |-> type, items |-> items, whole |-> size = Len(whole)]
               /\ payload' = SubSeq(whole, 1, size)
    /\ pc' = "received"
    /\ UNCHANGED <<index, left, taken, answer>>

\* A chain the host may describe: JTAG knows no instruction shorter than 2 bits.
IsChain(bytes) == \A k \in DOMAIN bytes : k > 1 => bytes[k] >= 2

HostSends ==
    /\ pc = "idle"
    /\ \E type \in DOMAIN Formats \ Itemised, n \in 0..6 :
        \E bytes \in [1..n -> OtherBytes] :
            /\ type = "JTAGConfigure" => IsChain(bytes)
            /\ sent' = [type |-> type, items |-> <<>>, whole |-> FALSE]
            /\ payload' = bytes
    /\ pc' = "received"
    /\ UNCHANGED <<index, left, taken, answer>>

-----------------------------------------------------------------------------
(* dispatch_one. *)

Answered(id, ok, data) == [id |-> id, ok |-> ok, data |-> data]

\* Error::respond.
Refuse ==
    /\ pc = "received" /\ ~Parses(sent.type, payload)
    /\ answer' = Answered(255, FALSE, <<>>) /\ pc' = "answered"
    /\ UNCHANGED <<sent, payload, index, left, taken>>

\* The handlers that can answer an error: the debug port, the driver or the SWO
\* port said no.  The probe has a SWO port, which none of them finds missing.
Refusable == {"Connect", "Disconnect", "WriteAbort", "SWJClock", "SWJSequence",
              "JTAGConfigure", "JTAGIDCode", "SWOTransport", "SWOMode", "SWOBaudrate"}

\* What the code asserts of a request that parses: recalculate() of a chain
\* without devices indexes the one before the first, a block must have a word, and
\* the JTAG driver wants exactly the bytes of a sequence.
NoBlock(p) == p[2] + 256 * p[3] = 0 \/ (~Flag(p[4], 2) /\ Len(p) < 8)

Asserts(type, p) ==
    CASE type = "JTAGConfigure" -> p[1] = 0
      [] type = "TransferBlock" -> NoBlock(p)
      [] type = "SWJSequence" -> Len(p) > SequenceNeeds(p)
      [] OTHER -> FALSE

\* A debug port that is not connected answers the block without reading it, and
\* the SWD driver cuts the sequence: only the chain is always asserted.
Panics ==
    /\ pc = "received" /\ Parses(sent.type, payload) /\ Asserts(sent.type, payload)
    /\ pc' = "panicked"
    /\ UNCHANGED <<sent, payload, index, left, taken, answer>>

Handle ==
    /\ pc = "received" /\ sent.type \notin Itemised /\ Parses(sent.type, payload)
    /\ sent.type = "JTAGConfigure" => ~Asserts(sent.type, payload)
    /\ \E size \in AnswerSizes(sent.type, payload), ok \in BOOLEAN :
        /\ ok \/ sent.type \in Refusable
        /\ answer' = Answered(Formats[sent.type].id, ok, Bytes(0, "data", size))
    /\ pc' = "answered"
    /\ UNCHANGED <<sent, payload, index, left, taken>>

\* get_transfers, sequences and get_sequences.
Iterate ==
    /\ pc = "received" /\ sent.type \in Itemised /\ Parses(sent.type, payload)
    /\ index' = Len(Before(sent.type, 0)) + 1
    /\ left' = payload[Len(Before(sent.type, 0))]
    /\ answer' = Answered(Formats[sent.type].id, TRUE, <<>>) /\ pc' = "items"
    /\ UNCHANGED <<sent, payload, taken>>

-----------------------------------------------------------------------------
(* The iterators. *)

TransferDataInverted(header) == IF IsRead(header) \/ IsMatchMask(header) THEN 4 ELSE 0
TransferData(header) == IF ~IsRead(header) \/ IsMatchMask(header) THEN 4 ELSE 0
SwdData(header) == IF IsInput(header) THEN 0 ELSE ByteCount(SeqBits(header))
JtagData(header) == ByteCount(Or64(SeqBits(header)))

DataLen(type, header) ==
    CASE type = "Transfer" -> TransferData(header)
      [] type = "SWDSequence" -> SwdData(header)
      [] type = "JTAGSequence" -> JtagData(header)

\* next() is Some.
HasNext ==
    /\ left > 0 /\ index <= Len(payload)
    /\ index + DataLen(sent.type, payload[index]) <= Len(payload)

NextHeader == payload[index]
NextItem == SubSeq(payload, index, index + DataLen(sent.type, NextHeader))

Advance ==
    /\ taken' = Append(taken, NextItem)
    /\ index' = index + Len(NextItem) /\ left' = left - 1
    /\ UNCHANGED <<sent, payload>>

Serves(type) == pc = "items" /\ sent.type = type /\ HasNext

Number == Len(taken) + 1

-----------------------------------------------------------------------------
(* handle_transfer. *)

ResponseLenUntimed(header) == IF IsRead(header) /\ ~IsValueMatch(header) THEN 4 ELSE 0
ResponseLen(header) ==
    (IF HasTimestamp(header) THEN 4 ELSE 0)
    + (IF IsRead(header) /\ ~IsValueMatch(header) THEN 4 ELSE 0)

\* A match and a match mask give no timestamp: what was in the buffer stays.
TransferBytes(header) ==
    LET timed == IF IsRead(header) THEN ~IsValueMatch(header) ELSE ~IsMatchMask(header)
    IN  If(HasTimestamp(header), Bytes(Number, IF timed THEN "timestamp" ELSE "stale", 4))
        \o If(IsRead(header) /\ ~IsValueMatch(header), Bytes(Number, "data", 4))

\* An abort may have come: the loop ends after the transfer it finds it in.
OneTransfer ==
    /\ Serves("Transfer") /\ RoomLeft >= ResponseLen(NextHeader)
    /\ answer' = [answer EXCEPT !.data = @ \o TransferBytes(NextHeader)]
    /\ \E aborted \in BOOLEAN : pc' = IF aborted THEN "done" ELSE "items"
    /\ Advance

NoRoom ==
    /\ Serves("Transfer") /\ RoomLeft < ResponseLen(NextHeader)
    /\ pc' = "done"
    /\ UNCHANGED <<sent, payload, index, left, taken, answer>>

-----------------------------------------------------------------------------
(* handle_swd_sequence and handle_jtag_sequence: the driver may refuse. *)

Fails ==
    /\ Serves("SWDSequence") \/ Serves("JTAGSequence")
    /\ answer' = [answer EXCEPT !.ok = FALSE,
                    !.data = IF sent.type = "JTAGSequence" THEN <<>> ELSE @]
    /\ pc' = "answered"
    /\ UNCHANGED <<sent, payload, index, left, taken>>

\* What has no data is read, and is left out when the answer has no room for it.
SwdSequence ==
    /\ Serves("SWDSequence")
    /\ LET size == ByteCount(SeqBits(NextHeader))
       IN answer' = IF Len(NextItem) = 1 /\ RoomLeft >= size
                    THEN [answer EXCEPT !.data = @ \o Bytes(Number, "data", size)]
                    ELSE answer
    /\ Advance /\ UNCHANGED pc

\* The data of a capture is a slice of the answer, of the size of what goes out.
JtagSequence ==
    /\ Serves("JTAGSequence")
    /\ LET size == IF IsInput(NextHeader) THEN Len(NextItem) - 1 ELSE 0
       IN IF RoomLeft >= size
          THEN /\ answer' = [answer EXCEPT !.data = @ \o Bytes(Number, "data", size)]
               /\ Advance /\ UNCHANGED pc
          ELSE /\ pc' = "panicked"
               /\ UNCHANGED <<sent, payload, index, left, taken, answer>>

Commit ==
    /\ pc = "done" \/ (pc = "items" /\ ~HasNext)
    /\ pc' = "answered"
    /\ UNCHANGED <<sent, payload, index, left, taken, answer>>

-----------------------------------------------------------------------------

Init ==
    /\ pc = "idle" /\ sent = None /\ payload = <<>>
    /\ index = 1 /\ left = 0 /\ taken = <<>> /\ answer = None

Reset ==
    /\ pc' = "idle" /\ sent' = None /\ payload' = <<>>
    /\ index' = 1 /\ left' = 0 /\ taken' = <<>> /\ answer' = None

HostReads == pc = "answered" /\ Reset

\* The watchdog resets the firmware that has stopped.
Restarts == pc = "panicked" /\ Reset

Next ==
    \/ HostSendsItems \/ HostSends
    \/ Refuse \/ Panics \/ Handle \/ Iterate
    \/ OneTransfer \/ NoRoom \/ Fails \/ SwdSequence \/ JtagSequence \/ Commit
    \/ HostReads \/ Restarts

Spec == Init /\ [][Next]_vars

-----------------------------------------------------------------------------

\* The dispatcher executes the items the host wrote, with their data: those taken
\* are the first ones sent, even from a packet that is cut short, and none is left
\* when an iterator ends by itself on a packet that is whole (the data of the
\* iterators).
TakenAsSent ==
    pc # "idle" =>
        /\ IsPrefix(taken, sent.items)
        /\ pc = "items" /\ ~HasNext /\ sent.whole => taken = sent.items

\* The host finds in the answer what it awaits where it awaits it: the answer to an
\* item it counts is there, whole and in order.  Only SWD_Sequence may leave
\* something out, when the host asked for more than an answer holds, and then
\* the answer is too short to be taken for a full one.  Every answer fits its
\* packet, and no list of items takes a slice past it: the firmware stops over
\* none but the three requests that it asserts against (the commits of the
\* handlers).
AnswersInPlace ==
    /\ pc = "panicked" => Asserts(sent.type, payload)
    /\ pc = "answered" =>
        Len(answer.data) + (IF answer.id = 255 THEN 0 ELSE Begin(sent.type)) <= Room
    /\ pc = "answered" /\ sent.type \in Itemised /\ answer.ok =>
        LET awaited == AwaitedOf(taken)
        IN IF Len(awaited) + Begin(sent.type) <= Room
           THEN answer.data = awaited
           ELSE sent.type = "SWDSequence" /\ Len(answer.data) < Len(awaited)
=============================================================================

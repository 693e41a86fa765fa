------------------------------- MODULE UsbI2c -------------------------------
(***************************************************************************)
(* The I2C bridge: a host, the two endpoints, and the loop of the probe    *)
(* that takes a request to the bus and answers it (usb-i2c).               *)
(*                                                                         *)
(*   Device (pyusbi2c)        the host: opens the interface, then one      *)
(*                            command at a time with a time limit          *)
(*   I2CUSBDevice (lib.rs)    run, one handler for each request; all of    *)
(*                            them write their answer to one buffer        *)
(*   the endpoints, the bus   external: each endpoint holds one packet;    *)
(*                            a transaction takes as long as the target    *)
(*                            stretches the clock                          *)
(*                                                                         *)
(* A byte is named for the command that put it there and its place; which  *)
(* device a transaction speaks to is left out.                             *)
(***************************************************************************)
EXTENDS Integers, Sequences

CONSTANTS
    DataRoom,      \* bytes of data in an answer, 61 in the code
    Ids,           \* the identifiers the host gives its requests (pyusbi2c: 0)
    MaxCommands    \* bound of the commands

ASSUME BridgeAssumption ==
    /\ DataRoom \in Nat /\ 0 \in Ids /\ Ids \subseteq 0..255
    /\ MaxCommands \in Nat

VARIABLES
    host,       \* its state, the commands it has sent, and what the last returned
    outSlot,    \* the OUT endpoint: a request, or None
    inSlot,     \* the IN endpoint: an answer, or None
    usbUp,      \* the device is configured
    probe,      \* run: its state, the request it serves and the size of the answer
    res_buf,    \* the answer: its type, id, result and data
    late        \* since it opened the interface the host met an answer, or gave
                \* one up, that is not the one it waits for

vars == <<host, outSlot, inSlot, usbUp, probe, res_buf, late>>

None == [none |-> TRUE]

Types == {"configure", "write", "read", "writeRead", "other"}
Reads == {"read", "writeRead"}

Closed == [pc |-> "closed", sent |-> 0, got |-> None]
Ready == [pc |-> "reading", req |-> None, size |-> 0]

Init ==
    /\ host = Closed /\ outSlot = None /\ inSlot = None /\ usbUp = TRUE
    /\ probe = Ready /\ late = FALSE
    /\ res_buf = [type |-> "configure", id |-> 0, result |-> 0,
                  data |-> [k \in 1..DataRoom |-> <<0, 0>>]]

-----------------------------------------------------------------------------
(* The probe. *)

\* GeneralError::try_new sets the type; try_new_response the id as well.
GeneralError == [res_buf EXCEPT !.type = "other"]
Response(req) == [res_buf EXCEPT !.type = req.type, !.id = req.id]

Answering(req, size) == [pc |-> "answering", req |-> req, size |-> size]

\* The handlers that never await: what does not parse, or is an answer, a
\* configuration, which the bus may refuse, and a read longer than an answer.
AnswerAtOnce(req, response, size) ==
    res_buf' = response /\ probe' = Answering(req, size)

HandleUnknown(req) == req.type = "other" /\ AnswerAtOnce(req, GeneralError, 0)

HandleConfigure(req) ==
    /\ req.type = "configure"
    /\ \E result \in {0, 255} :
         AnswerAtOnce(req, [Response(req) EXCEPT !.result = result], 0)

TooLong(req) == req.type \in Reads /\ req.len > DataRoom
RefuseLong(req) ==
    TooLong(req) /\ AnswerAtOnce(req, [Response(req) EXCEPT !.result = 1], 0)

\* handle_write, handle_read and handle_write_read up to the bus.
StartTransaction(req) ==
    /\ req.type \in Reads \cup {"write"} /\ ~TooLong(req)
    /\ res_buf' = Response(req)
    /\ probe' = [pc |-> "bus", req |-> req, size |-> 0]

Serve ==
    /\ usbUp /\ probe.pc = "reading" /\ outSlot # None
    /\ outSlot' = None
    /\ \/ HandleUnknown(outSlot) \/ HandleConfigure(outSlot)
       \/ RefuseLong(outSlot) \/ StartTransaction(outSlot)
    /\ UNCHANGED <<host, inSlot, usbUp, late>>

\* The transaction is over.  One that fails may have read some of its bytes.
Status(ok) == IF ok THEN 0 ELSE 1
BusDone(ok, read) ==
    /\ probe.pc = "bus"
    /\ LET req == probe.req
           size == IF req.type \in Reads THEN req.len ELSE 0
       IN /\ IF ok THEN read = size ELSE read <= size
          /\ res_buf' = [res_buf EXCEPT !.result = Status(ok),
               !.data = [k \in 1..DataRoom |-> IF k <= read THEN <<req.n, k>> ELSE @[k]]]
          /\ probe' = Answering(req, size)
    /\ UNCHANGED <<host, outSlot, inSlot, usbUp, late>>

\* The write waits for the endpoint, which holds the answer before.
Answer ==
    /\ usbUp /\ probe.pc = "answering" /\ inSlot = None
    /\ inSlot' = [type |-> res_buf.type, id |-> res_buf.id, result |-> res_buf.result,
                  data |-> SubSeq(res_buf.data, 1, probe.size), req |-> probe.req]
    /\ probe' = Ready
    /\ UNCHANGED <<host, outSlot, usbUp, res_buf, late>>

\* Without the bus the write fails, and the loop goes on.
AnswerDropped ==
    /\ ~usbUp /\ probe.pc = "answering" /\ probe' = Ready
    /\ UNCHANGED <<host, outSlot, inSlot, usbUp, res_buf, late>>

-----------------------------------------------------------------------------
(* The host. *)

HostOnly == UNCHANGED <<outSlot, usbUp, probe, res_buf>>

\* An answer to an earlier command is still to come.
Owed == outSlot # None \/ probe.pc # "reading"

\* open_dev: "read any packets that might still be in the buffer", until none
\* comes in a millisecond.
Open ==
    /\ usbUp /\ host.pc = "closed" /\ host' = [host EXCEPT !.pc = "draining"]
    /\ HostOnly /\ UNCHANGED <<inSlot, late>>

Drain ==
    /\ host.pc = "draining" /\ inSlot # None /\ inSlot' = None
    /\ HostOnly /\ UNCHANGED <<host, late>>

DrainedAnyway == TRUE
Drained == inSlot = None
Opened ==
    /\ host.pc = "draining" /\ Drained
    /\ host' = [host EXCEPT !.pc = "idle"] /\ late' = Owed
    /\ HostOnly /\ UNCHANGED inSlot

Close ==
    /\ host.pc = "idle" /\ host' = [host EXCEPT !.pc = "closed", !.got = None]
    /\ HostOnly /\ UNCHANGED <<inSlot, late>>

\* _command.  A write to an endpoint that is full times out and changes nothing.
Send(type, id, len) ==
    /\ host.pc = "idle" /\ outSlot = None /\ host.sent < MaxCommands
    /\ outSlot' = [n |-> host.sent + 1, type |-> type, id |-> id,
                   len |-> len]
    /\ host' = [pc |-> type, sent |-> host.sent + 1, got |-> None]
    /\ UNCHANGED <<inSlot, usbUp, probe, res_buf, late>>

\* An answer of another type is no response, and one that reports an error is
\* raised: neither returns anything.
Waiting == host.pc \in Types
Receive ==
    /\ Waiting /\ inSlot # None /\ inSlot' = None
    /\ host' = [host EXCEPT !.pc = "idle",
          !.got = IF inSlot.type = host.pc /\ inSlot.type # "other" /\ inSlot.result = 0
                  THEN inSlot ELSE None]
    /\ HostOnly /\ UNCHANGED late

Timeout ==
    /\ Waiting /\ inSlot = None
    /\ host' = [host EXCEPT !.pc = "idle"] /\ late' = TRUE
    /\ HostOnly /\ UNCHANGED inSlot

\* The cable, or the host: what is in the endpoints is gone.
Unplug ==
    /\ usbUp /\ usbUp' = FALSE
    /\ outSlot' = None /\ inSlot' = None
    /\ host' = [host EXCEPT !.pc = "closed", !.got = None]
    /\ UNCHANGED <<probe, res_buf, late>>

Replug ==
    /\ ~usbUp /\ usbUp' = TRUE
    /\ UNCHANGED <<host, outSlot, inSlot, probe, res_buf, late>>

Next ==
    \/ Serve \/ Answer \/ AnswerDropped
    \/ \E ok \in BOOLEAN, read \in 0..DataRoom : BusDone(ok, read)
    \/ Open \/ Drain \/ Opened \/ Close
    \/ \E type \in Types, id \in Ids, len \in 0..(DataRoom + 1) :
         Send(type, id, len)
    \/ Receive \/ Timeout
    \/ Unplug \/ Replug

Spec == Init /\ [][Next]_vars

-----------------------------------------------------------------------------

\* What a command returns is what the bus gave to it: all the bytes of one
\* transaction, in order and none that the buffer held before, under the identifier
\* of that command; and it is the command's own answer, if nothing was owed to
\* an earlier one when the interface was opened and no command has timed out
\* since (run, open_dev, _command).
OwnAnswer ==
    LET got == host.got
    IN got # None =>
         /\ got.data = IF got.type \in Reads
                       THEN [k \in 1..got.req.len |-> <<got.req.n, k>>] ELSE <<>>
         /\ got.id = got.req.id
         /\ ~late => got.req.n = host.sent
=============================================================================

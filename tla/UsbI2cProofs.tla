---------------------------- MODULE UsbI2cProofs ----------------------------
(***************************************************************************)
(* Theorems about UsbI2c, for every size of an answer, every set of        *)
(* identifiers and every number of commands.                               *)
(*                                                                         *)
(* There are two arguments.  The answer's bytes are right from the end of  *)
(* the transaction on (InBuffer, InEndpoint), although the buffer keeps    *)
(* what earlier answers left there.  And while nothing is late, there is   *)
(* one request underway at most, the last the host sent, in exactly one of *)
(* the three places it passes through (OneUnderway).                       *)
(***************************************************************************)
EXTENDS UsbI2c, SequenceTheorems, TLAPS

Requests == [n : Nat, type : Types, id : Ids, len : 0..(DataRoom + 1)]
Bytes == Nat \X Nat
Results == {0, 1, 255}
Packets == [type : Types, id : Ids, result : Results, data : Seq(Bytes), req : Requests]

Places == {"closed", "draining", "idle"} \cup Types
Hosts == [pc : Places, sent : Nat, got : {None} \cup Packets]
Probes == [pc : {"reading", "bus", "answering"}, req : {None} \cup Requests, size : 0..DataRoom]
Buffers == [type : Types, id : Ids, result : Results, data : [1..DataRoom -> Bytes]]

TypeOK ==
    /\ host \in Hosts
    /\ outSlot \in {None} \cup Requests /\ inSlot \in {None} \cup Packets
    /\ usbUp \in BOOLEAN /\ late \in BOOLEAN
    /\ probe \in Probes /\ res_buf \in Buffers

\* An answer that reports success is the whole answer to its request.
Whole(a) ==
    a.type # "other" /\ a.result = 0 =>
        /\ a.data = IF a.type \in Reads THEN [k \in 1..a.req.len |-> <<a.req.n, k>>] ELSE <<>>
        /\ a.id = a.req.id

\* What the buffer holds of the request the probe serves.
InBuffer ==
    /\ probe.pc # "reading" => probe.req \in Requests
    /\ probe.pc = "bus" => /\ probe.req.type \in Reads \cup {"write"} /\ ~TooLong(probe.req)
                           /\ res_buf.type = probe.req.type /\ res_buf.id = probe.req.id
    /\ probe.pc = "answering" /\ res_buf.type # "other" /\ res_buf.result = 0 =>
          /\ probe.size = IF res_buf.type \in Reads THEN probe.req.len ELSE 0
          /\ \A k \in 1..probe.size : res_buf.data[k] = <<probe.req.n, k>>
          /\ res_buf.id = probe.req.id

InEndpoint == inSlot # None => Whole(inSlot)

Returned == host.got # None => host.got.type # "other" /\ host.got.result = 0 /\ Whole(host.got)

\* While nothing is late, what is underway is the host's last command.
OneUnderway ==
    /\ host.pc \in {"closed", "draining"} => host.got = None
    /\ ~late =>
          /\ host.got # None => host.got.req.n = host.sent
          /\ host.pc = "idle" => outSlot = None /\ inSlot = None /\ probe.pc = "reading"
          /\ host.pc \in Types =>
                /\ outSlot # None => outSlot.n = host.sent /\ inSlot = None /\ probe.pc = "reading"
                /\ probe.pc # "reading" => probe.req.n = host.sent /\ inSlot = None
                /\ inSlot # None => inSlot.req.n = host.sent

IInv == TypeOK /\ InBuffer /\ InEndpoint /\ Returned /\ OneUnderway

-----------------------------------------------------------------------------
(* The host's record and the answer's. *)

LEMMA HostFacts ==
    ASSUME TypeOK
    PROVE  /\ host.pc \in Places /\ host.sent \in Nat /\ host.got \in {None} \cup Packets
           /\ \A pc \in Places :
                LET h == [host EXCEPT !.pc = pc]
                IN  h \in Hosts /\ h.pc = pc /\ h.sent = host.sent /\ h.got = host.got
           /\ \A pc \in Places, got \in {None} \cup Packets :
                LET h == [host EXCEPT !.pc = pc, !.got = got]
                IN  h \in Hosts /\ h.pc = pc /\ h.sent = host.sent /\ h.got = got
BY DEF TypeOK, Hosts

LEMMA ResponseFacts ==
    ASSUME TypeOK, NEW req \in Requests
    PROVE  /\ Response(req) \in Buffers
           /\ Response(req).type = req.type /\ Response(req).id = req.id
           /\ GeneralError \in Buffers /\ GeneralError.type = "other"
           /\ \A result \in Results :
                LET b == [Response(req) EXCEPT !.result = result]
                IN  b \in Buffers /\ b.type = req.type /\ b.id = req.id /\ b.result = result
<1>1. req.type \in Types /\ req.id \in Ids /\ "other" \in Types
  BY DEF Requests, Types
<1>2. \A t \in Types, n \in Ids : [res_buf EXCEPT !.type = t, !.id = n] \in Buffers
  BY DEF TypeOK, Buffers
<1>3. \A t \in Types, n \in Ids :
        LET b == [res_buf EXCEPT !.type = t, !.id = n]
        IN  b.type = t /\ b.id = n
  BY DEF TypeOK, Buffers
<1>4. /\ Response(req) \in Buffers
      /\ Response(req).type = req.type /\ Response(req).id = req.id
  BY <1>1, <1>2, <1>3, Zenon DEF Response
<1>5. GeneralError \in Buffers /\ GeneralError.type = "other"
  BY <1>1 DEF GeneralError, TypeOK, Buffers
<1>6. \A b \in Buffers, result \in Results :
        LET c == [b EXCEPT !.result = result]
        IN  c \in Buffers /\ c.type = b.type /\ c.id = b.id /\ c.result = result
  BY DEF Buffers
<1> QED
  BY <1>4, <1>5, <1>6, Zenon

LEMMA ProbeFacts ==
    ASSUME NEW req \in Requests, NEW size \in 0..DataRoom
    PROVE  /\ Answering(req, size) \in Probes /\ Answering(req, size).pc = "answering"
           /\ Answering(req, size).req = req /\ Answering(req, size).size = size
           /\ Ready \in Probes /\ Ready.pc = "reading"
BY BridgeAssumption DEF Answering, Ready, Probes

-----------------------------------------------------------------------------
(* The invariant holds: the probe, then the host. *)

LEMMA InitInvariant == Init => IInv
<1> SUFFICES ASSUME Init PROVE IInv
  OBVIOUS
<1> USE BridgeAssumption
<1>1. host \in Hosts /\ host.pc = "closed" /\ host.got = None
  BY DEF Init, Closed, Hosts, Places
<1>2. probe \in Probes /\ probe.pc = "reading"
  BY DEF Init, Ready, Probes
<1>3. res_buf \in Buffers
  <2>1. [k \in 1..DataRoom |-> <<0, 0>>] \in [1..DataRoom -> Bytes]
    BY DEF Bytes
  <2>2. "configure" \in Types /\ 0 \in Ids /\ 0 \in Results
    BY DEF Types, Results
  <2> QED
    BY <2>1, <2>2 DEF Init, Buffers
<1>4. TypeOK
  BY <1>1, <1>2, <1>3 DEF Init, TypeOK
<1> QED
  BY <1>1, <1>2, <1>4 DEF Init, IInv, InBuffer, InEndpoint, Returned, OneUnderway, Types

LEMMA ServeKeeps ==
    ASSUME IInv, Serve
    PROVE  IInv'
<1> USE BridgeAssumption
<1> DEFINE req == outSlot
<1>1. /\ probe.pc = "reading" /\ outSlot # None /\ outSlot' = None
      /\ UNCHANGED <<host, inSlot, usbUp, late>>
  BY DEF Serve
<1>2. req \in Requests /\ req.type \in Types /\ req.len \in 0..(DataRoom + 1)
  BY <1>1 DEF IInv, TypeOK, Requests
<1> HIDE DEF req
<1>3. /\ res_buf' \in Buffers /\ probe' \in Probes
      /\ probe'.pc # "reading" /\ probe'.req = req
      /\ probe'.pc = "bus" => /\ req.type \in Reads \cup {"write"} /\ ~TooLong(req)
                              /\ res_buf'.type = req.type /\ res_buf'.id = req.id
      /\ probe'.pc = "answering" /\ res_buf'.type # "other" /\ res_buf'.result = 0 =>
            /\ probe'.size = 0 /\ res_buf'.type \notin Reads /\ res_buf'.id = req.id
  <2>1. 0 \in 0..DataRoom
    OBVIOUS
  <2>2. CASE HandleUnknown(req)
    BY <1>2, <2>1, <2>2, ResponseFacts, ProbeFacts DEF HandleUnknown, AnswerAtOnce, IInv
  <2>3. CASE HandleConfigure(req)
    <3>1. PICK result \in Results : AnswerAtOnce(req, [Response(req) EXCEPT !.result = result], 0)
      BY <2>3 DEF HandleConfigure, Results
    <3>2. req.type = "configure"
      BY <2>3 DEF HandleConfigure
    <3>3. /\ res_buf' \in Buffers /\ res_buf'.type = "configure" /\ res_buf'.id = req.id
          /\ probe' = Answering(req, 0)
      BY <1>2, <3>1, <3>2, ResponseFacts DEF AnswerAtOnce, IInv
    <3>4. /\ probe' \in Probes /\ probe'.pc = "answering" /\ probe'.req = req /\ probe'.size = 0
      BY <1>2, <2>1, <3>3, ProbeFacts
    <3> QED
      BY <3>3, <3>4 DEF Reads
  <2>4. CASE RefuseLong(req)
    <3>1. AnswerAtOnce(req, [Response(req) EXCEPT !.result = 1], 0) /\ 1 \in Results
      BY <2>4 DEF RefuseLong, Results
    <3>2. /\ res_buf' \in Buffers /\ res_buf'.result = 1 /\ probe' = Answering(req, 0)
      BY <1>2, <3>1, ResponseFacts DEF AnswerAtOnce, IInv
    <3>3. /\ probe' \in Probes /\ probe'.pc = "answering" /\ probe'.req = req
      BY <1>2, <2>1, <3>2, ProbeFacts
    <3> QED
      BY <3>2, <3>3
  <2>5. CASE StartTransaction(req)
    <3>1. /\ res_buf' \in Buffers /\ res_buf'.type = req.type /\ res_buf'.id = req.id
          /\ req.type \in Reads \cup {"write"} /\ ~TooLong(req)
      BY <1>2, <2>5, ResponseFacts DEF StartTransaction, IInv
    <3>2. probe' \in Probes /\ probe'.pc = "bus" /\ probe'.req = req
      BY <1>2, <2>1, <2>5 DEF StartTransaction, Probes
    <3> QED
      BY <3>1, <3>2
  <2> QED
    BY <2>2, <2>3, <2>4, <2>5 DEF Serve, req
<1>4. TypeOK'
  BY <1>1, <1>3, Zenon DEF IInv, TypeOK
<1>5. InBuffer'
  BY <1>2, <1>3 DEF InBuffer, TooLong
<1>6. InEndpoint' /\ Returned'
  BY <1>1 DEF IInv, InEndpoint, Returned
<1>7. OneUnderway'
  <2>1. ASSUME ~late, host.pc \in Types PROVE req.n = host.sent /\ inSlot = None
    BY <1>1, <2>1 DEF IInv, OneUnderway, req
  <2>2. ~late => host.pc # "idle"
    BY <1>1 DEF IInv, OneUnderway
  <2> QED
    BY <1>1, <1>3, <2>1, <2>2 DEF IInv, OneUnderway
<1> QED
  BY <1>4, <1>5, <1>6, <1>7 DEF IInv

LEMMA BusDoneKeeps ==
    ASSUME IInv, NEW ok \in BOOLEAN, NEW read \in 0..DataRoom, BusDone(ok, read)
    PROVE  IInv'
<1> USE BridgeAssumption
<1> DEFINE req == probe.req
           size == IF req.type \in Reads THEN req.len ELSE 0
           data == [k \in 1..DataRoom |-> IF k <= read THEN <<req.n, k>> ELSE res_buf.data[k]]
<1>1. /\ probe.pc = "bus" /\ (IF ok THEN read = size ELSE read <= size)
      /\ res_buf' = [res_buf EXCEPT !.result = Status(ok), !.data = data]
      /\ probe' = Answering(req, size)
      /\ UNCHANGED <<host, outSlot, inSlot, usbUp, late>>
  <2>1. [res_buf EXCEPT !.result = Status(ok),
           !.data = [k \in 1..DataRoom |-> IF k <= read THEN <<req.n, k>> ELSE @[k]]]
          = [res_buf EXCEPT !.result = Status(ok), !.data = data]
    BY DEF IInv, TypeOK, Buffers
  <2> QED
    BY <2>1 DEF BusDone
<1>2. /\ req \in Requests /\ req.type \in Reads \cup {"write"} /\ ~TooLong(req)
      /\ res_buf.type = req.type /\ res_buf.id = req.id
  BY <1>1 DEF IInv, InBuffer
<1>3. req.n \in Nat /\ req.len \in 0..(DataRoom + 1)
  BY <1>2 DEF Requests
<1>4. size \in 0..DataRoom
  BY <1>2, <1>3 DEF TooLong
<1>5. data \in [1..DataRoom -> Bytes]
  <2>1. res_buf.data \in [1..DataRoom -> Bytes]
    BY DEF IInv, TypeOK, Buffers
  <2> QED
    BY <1>3, <2>1 DEF Bytes
<1>6. /\ res_buf' \in Buffers /\ res_buf'.type = req.type /\ res_buf'.id = req.id
      /\ res_buf'.result = Status(ok) /\ res_buf'.data = data
  <2>1. Status(ok) \in Results
    BY DEF Status, Results
  <2>2. res_buf \in Buffers
    BY DEF IInv, TypeOK
  <2>3. \A result \in Results, d \in [1..DataRoom -> Bytes] :
          LET b == [res_buf EXCEPT !.result = result, !.data = d]
          IN  /\ b \in Buffers /\ b.type = res_buf.type /\ b.id = res_buf.id
              /\ b.result = result /\ b.data = d
    BY <2>2 DEF Buffers
  <2> HIDE DEF data, size, req
  <2> QED
    BY <1>1, <1>2, <1>5, <2>1, <2>3, Zenon
<1>7. \A k \in 1..read : data[k] = <<req.n, k>>
  <2>1. \A k \in 1..read : k \in 1..DataRoom /\ k <= read
    OBVIOUS
  <2>2. \A k \in 1..DataRoom : k <= read => data[k] = <<req.n, k>>
    BY Zenon
  <2> HIDE DEF data, req
  <2> QED
    BY <2>1, <2>2, Zenon
<1> HIDE DEF data, size
<1>8. /\ probe' \in Probes /\ probe'.pc = "answering" /\ probe'.req = req /\ probe'.size = size
  BY <1>1, <1>2, <1>4, ProbeFacts
<1>9. TypeOK'
  BY <1>1, <1>6, <1>8, Zenon DEF IInv, TypeOK
<1>10. InBuffer'
  <2>1. Status(ok) = 0 => read = size
    BY <1>1 DEF Status
  <2>2. size = IF req.type \in Reads THEN req.len ELSE 0
    BY DEF size
  <2> HIDE DEF req
  <2> QED
    BY <1>2, <1>6, <1>7, <1>8, <2>1, <2>2 DEF InBuffer
<1>11. InEndpoint' /\ Returned'
  BY <1>1 DEF IInv, InEndpoint, Returned
<1>12. OneUnderway'
  BY <1>1, <1>8 DEF IInv, OneUnderway
<1> QED
  BY <1>9, <1>10, <1>11, <1>12 DEF IInv

\* The first bytes of the buffer are what the request asked for.
LEMMA AnswerIsWhole ==
    ASSUME NEW data \in [1..DataRoom -> Bytes], NEW n \in Nat, NEW size \in 0..DataRoom
    PROVE  /\ SubSeq(data, 1, size) \in Seq(Bytes)
           /\ size = 0 => SubSeq(data, 1, size) = <<>>
           /\ (\A k \in 1..size : data[k] = <<n, k>>) =>
                SubSeq(data, 1, size) = [k \in 1..size |-> <<n, k>>]
<1> USE BridgeAssumption
<1> DEFINE s == SubSeq(data, 1, size)
<1>1. \A k \in 1..size : data[k] \in Bytes
  OBVIOUS
<1>2. /\ s \in Seq(Bytes)
      /\ Len(s) = IF 1 <= size THEN size - 1 + 1 ELSE 0
      /\ \A k \in 1..(size - 1 + 1) : s[k] = data[1 + k - 1]
  BY <1>1, SubSeqProperties
<1>3. size = 0 => s = <<>>
  BY SubSeqEmpty
<1> HIDE DEF s
<1>4. Len(s) = size /\ \A k \in 1..size : s[k] = data[k]
  BY <1>2
<1>5. s \in [1..size -> Bytes]
  BY <1>2, <1>4, LenProperties
<1>6. ASSUME \A k \in 1..size : data[k] = <<n, k>> PROVE s = [k \in 1..size |-> <<n, k>>]
  BY <1>4, <1>5, <1>6
<1> QED
  BY <1>2, <1>3, <1>6 DEF s

LEMMA AnswerKeeps ==
    ASSUME IInv, Answer
    PROVE  IInv'
<1> USE BridgeAssumption
<1> DEFINE req == probe.req
           data == SubSeq(res_buf.data, 1, probe.size)
           a == [type |-> res_buf.type, id |-> res_buf.id, result |-> res_buf.result,
                 data |-> data, req |-> req]
<1>1. /\ probe.pc = "answering" /\ inSlot = None /\ inSlot' = a /\ probe' = Ready
      /\ UNCHANGED <<host, outSlot, usbUp, res_buf, late>>
  BY DEF Answer
<1>2. /\ req \in Requests /\ probe.size \in 0..DataRoom
      /\ res_buf.data \in [1..DataRoom -> Bytes]
      /\ res_buf.type \in Types /\ res_buf.id \in Ids /\ res_buf.result \in Results
  BY <1>1 DEF IInv, TypeOK, InBuffer, Probes, Buffers
<1>3. req.n \in Nat
  BY <1>2 DEF Requests
<1>4. data \in Seq(Bytes)
  BY <1>2, <1>3, AnswerIsWhole
<1>5. ASSUME res_buf.type # "other", res_buf.result = 0
      PROVE  /\ data = IF res_buf.type \in Reads THEN [k \in 1..req.len |-> <<req.n, k>>]
                                                 ELSE <<>>
             /\ res_buf.id = req.id
  <2>1. /\ probe.size = IF res_buf.type \in Reads THEN req.len ELSE 0
        /\ \A k \in 1..probe.size : res_buf.data[k] = <<req.n, k>>
        /\ res_buf.id = req.id
    BY <1>1, <1>5 DEF IInv, InBuffer
  <2>2. /\ probe.size = 0 => data = <<>>
        /\ data = [k \in 1..probe.size |-> <<req.n, k>>]
    BY <1>2, <1>3, <2>1, AnswerIsWhole
  <2> HIDE DEF data, req
  <2> QED
    BY <2>1, <2>2
<1> HIDE DEF data
<1>6. /\ a \in Packets /\ a.type = res_buf.type /\ a.id = res_buf.id
      /\ a.result = res_buf.result /\ a.data = data /\ a.req = req
  BY <1>2, <1>4 DEF Packets
<1> HIDE DEF a
<1>7. Whole(a)
  BY <1>5, <1>6 DEF Whole
<1>8. Ready \in Probes /\ Ready.pc = "reading"
  BY DEF Ready, Probes
<1>9. TypeOK'
  BY <1>1, <1>6, <1>8, Zenon DEF IInv, TypeOK
<1>10. InBuffer'
  BY <1>1, <1>8 DEF InBuffer
<1>11. InEndpoint' /\ Returned'
  BY <1>1, <1>7 DEF IInv, InEndpoint, Returned
<1>12. OneUnderway'
  <2>1. ~late => /\ host.pc # "idle"
                 /\ host.pc \in Types => a.req.n = host.sent /\ outSlot = None
    BY <1>1, <1>6 DEF IInv, OneUnderway
  <2> QED
    BY <1>1, <1>8, <2>1 DEF IInv, OneUnderway
<1> QED
  BY <1>9, <1>10, <1>11, <1>12 DEF IInv

LEMMA AnswerDroppedKeeps ==
    ASSUME IInv, AnswerDropped
    PROVE  IInv'
<1>1. probe' = Ready /\ UNCHANGED <<host, outSlot, inSlot, usbUp, res_buf, late>>
  BY DEF AnswerDropped
<1>2. Ready \in Probes /\ Ready.pc = "reading"
  BY BridgeAssumption DEF Ready, Probes
<1>3. TypeOK'
  BY <1>1, <1>2, Zenon DEF IInv, TypeOK
<1> QED
  BY <1>1, <1>2, <1>3 DEF IInv, InBuffer, InEndpoint, Returned, OneUnderway

\* The host opens the interface: what it finds is thrown away, and what it cannot
\* find yet is late.
LEMMA OpeningKeeps ==
    ASSUME IInv, Open \/ Drain \/ Opened
    PROVE  IInv'
<1>1. /\ host.pc \in {"closed", "draining"} /\ inSlot' \in {inSlot, None}
      /\ UNCHANGED <<outSlot, usbUp, probe, res_buf>>
  BY DEF Open, Drain, Opened, HostOnly
<1>2. /\ host' \in Hosts /\ host'.sent = host.sent /\ host'.got = host.got /\ late' \in BOOLEAN
      /\ \/ host'.pc = "draining" /\ late' = late
         \/ host'.pc = "idle" /\ late' = Owed /\ inSlot' = None
  <2>1. "idle" \in Places /\ "draining" \in Places
    BY DEF Places
  <2>2. CASE Open
    BY <2>1, <2>2, HostFacts DEF Open, IInv, TypeOK
  <2>3. CASE Drain
    BY <2>3 DEF Drain, IInv, TypeOK
  <2>4. CASE Opened
    BY <2>1, <2>4, HostFacts DEF Opened, Drained, Owed, IInv
  <2> QED
    BY <2>2, <2>3, <2>4
<1>3. TypeOK'
  BY <1>1, <1>2 DEF IInv, TypeOK
<1>4. InBuffer'
  BY <1>1 DEF IInv, InBuffer
<1>5. host.got = None
  BY <1>1 DEF IInv, OneUnderway
<1>6. InEndpoint' /\ Returned'
  BY <1>1, <1>2, <1>5 DEF IInv, InEndpoint, Returned
<1>7. OneUnderway'
  BY <1>1, <1>2, <1>5 DEF OneUnderway, Owed, Types
<1> QED
  BY <1>3, <1>4, <1>6, <1>7 DEF IInv

LEMMA CloseKeeps ==
    ASSUME IInv, Close \/ Unplug
    PROVE  IInv'
<1>1. /\ host' = [host EXCEPT !.pc = "closed", !.got = None]
      /\ inSlot' \in {inSlot, None} /\ outSlot' \in {outSlot, None} /\ usbUp' \in BOOLEAN
      /\ UNCHANGED <<probe, res_buf, late>>
  BY DEF Close, Unplug, HostOnly, IInv, TypeOK
<1>2. host' \in Hosts /\ host'.pc = "closed" /\ host'.got = None
  BY <1>1, HostFacts DEF IInv, Places
<1>3. TypeOK'
  BY <1>1, <1>2 DEF IInv, TypeOK
<1> QED
  BY <1>1, <1>2, <1>3 DEF IInv, InBuffer, InEndpoint, Returned, OneUnderway, Types

LEMMA SendKeeps ==
    ASSUME IInv, NEW type \in Types, NEW id \in Ids, NEW len \in 0..(DataRoom + 1),
           Send(type, id, len)
    PROVE  IInv'
<1> DEFINE r == [n |-> host.sent + 1, type |-> type, id |-> id, len |-> len]
           h == [pc |-> type, sent |-> host.sent + 1, got |-> None]
<1>1. /\ host.pc = "idle" /\ outSlot = None /\ outSlot' = r /\ host' = h
      /\ UNCHANGED <<inSlot, usbUp, probe, res_buf, late>>
  BY DEF Send
<1>2. host.sent + 1 \in Nat
  <2>1. host.sent \in Nat
    BY HostFacts DEF IInv
  <2> QED
    BY <2>1
<1>3. r \in Requests /\ r.n = host.sent + 1
  BY <1>2 DEF Requests
<1>4. h \in Hosts /\ h.pc = type /\ h.sent = host.sent + 1 /\ h.got = None
  BY <1>2 DEF Hosts, Places
<1> HIDE DEF r, h
<1>5. TypeOK'
  BY <1>1, <1>3, <1>4, Zenon DEF IInv, TypeOK
<1>6. InBuffer' /\ InEndpoint' /\ Returned'
  BY <1>1, <1>4 DEF IInv, InBuffer, InEndpoint, Returned
<1>7. OneUnderway'
  <2>1. ~late => inSlot = None /\ probe.pc = "reading"
    BY <1>1 DEF IInv, OneUnderway
  <2>2. type \notin {"closed", "draining", "idle"}
    BY DEF Types
  <2> QED
    BY <1>1, <1>3, <1>4, <2>1, <2>2 DEF OneUnderway
<1> QED
  BY <1>5, <1>6, <1>7 DEF IInv

LEMMA ReceiveKeeps ==
    ASSUME IInv, Receive
    PROVE  IInv'
<1> DEFINE got == IF inSlot.type = host.pc /\ inSlot.type # "other" /\ inSlot.result = 0
                  THEN inSlot ELSE None
<1>1. /\ host.pc \in Types /\ inSlot # None /\ inSlot' = None
      /\ host' = [host EXCEPT !.pc = "idle", !.got = got]
      /\ UNCHANGED <<outSlot, usbUp, probe, res_buf, late>>
  BY DEF Receive, Waiting, HostOnly
<1>2. /\ got \in {None} \cup Packets
      /\ got # None => got = inSlot /\ inSlot.type # "other" /\ inSlot.result = 0
  BY DEF IInv, TypeOK
<1> HIDE DEF got
<1>3. host' \in Hosts /\ host'.pc = "idle" /\ host'.sent = host.sent /\ host'.got = got
  BY <1>1, <1>2, HostFacts DEF IInv, Places
<1>4. TypeOK'
  BY <1>1, <1>3 DEF IInv, TypeOK
<1>5. InBuffer' /\ InEndpoint'
  BY <1>1 DEF IInv, InBuffer, InEndpoint
<1>6. Returned'
  BY <1>1, <1>2, <1>3 DEF IInv, InEndpoint, Returned
<1>7. OneUnderway'
  <2>1. ~late => outSlot = None /\ probe.pc = "reading" /\ inSlot.req.n = host.sent
    BY <1>1 DEF IInv, OneUnderway
  <2> QED
    BY <1>1, <1>2, <1>3, <2>1 DEF OneUnderway, Types
<1> QED
  BY <1>4, <1>5, <1>6, <1>7 DEF IInv

LEMMA TimeoutKeeps ==
    ASSUME IInv, Timeout
    PROVE  IInv'
<1>1. /\ host' = [host EXCEPT !.pc = "idle"] /\ late' = TRUE
      /\ UNCHANGED <<inSlot, outSlot, usbUp, probe, res_buf>>
  BY DEF Timeout, HostOnly
<1>2. host' \in Hosts /\ host'.pc = "idle" /\ host'.got = host.got
  BY <1>1, HostFacts DEF IInv, Places
<1>3. TypeOK'
  BY <1>1, <1>2 DEF IInv, TypeOK
<1> QED
  BY <1>1, <1>2, <1>3 DEF IInv, InBuffer, InEndpoint, Returned, OneUnderway

LEMMA NextKeeps == IInv /\ [Next]_vars => IInv'
<1> SUFFICES ASSUME IInv, [Next]_vars PROVE IInv'
  OBVIOUS
<1>1. CASE UNCHANGED vars
  BY <1>1 DEF vars, IInv, TypeOK, InBuffer, InEndpoint, Returned, OneUnderway
<1>2. CASE Replug
  BY <1>2 DEF Replug, IInv, TypeOK, InBuffer, InEndpoint, Returned, OneUnderway
<1> QED
  BY <1>1, <1>2, ServeKeeps, BusDoneKeeps, AnswerKeeps, AnswerDroppedKeeps, OpeningKeeps,
     CloseKeeps, SendKeeps, ReceiveKeeps, TimeoutKeeps DEF Next

\* What holds of every reachable state.
THEOREM Invariance == Spec => []IInv
<1> QED
  BY InitInvariant, NextKeeps, PTL DEF Spec

\* OwnAnswer: what a command returns is the whole answer of the bus to a request,
\* and to its own unless something is late.
THEOREM AnswersOwn == Spec => []OwnAnswer
<1>1. IInv => OwnAnswer
  <2> SUFFICES ASSUME IInv, host.got # None
               PROVE  /\ host.got.data = IF host.got.type \in Reads
                           THEN [k \in 1..host.got.req.len |-> <<host.got.req.n, k>>] ELSE <<>>
                      /\ host.got.id = host.got.req.id
                      /\ ~late => host.got.req.n = host.sent
    BY DEF OwnAnswer
  <2> QED
    BY DEF IInv, Returned, Whole, OneUnderway
<1> QED
  BY <1>1, Invariance, PTL
=============================================================================

---------------------------- MODULE ProbeProofs ----------------------------
(***************************************************************************)
(* Theorems about the two systems around STATE: ConfigStore, for every set *)
(* of configurations and every bound of the pipe, and after it ProbeSystem.*)
(*                                                                         *)
(* Neither invariant of ConfigStore is inductive alone.  What is in use is *)
(* what is stored because a field that is stored and not yet in use is the *)
(* one at the head of the pipe (StoreInv).  What the host shows is in use  *)
(* because, as long as nothing was lost, the pipe holds one packet while   *)
(* the host waits and none while it does not, the packet is the one it     *)
(* waits for (PipeInv), and its cache differs from the flash only while a  *)
(* write that the probe has accepted is on its way back, and after one     *)
(* that went past it (CacheInv).                                           *)
(***************************************************************************)
EXTENDS ConfigStore, PowerTask, UiTask, SequenceTheorems, TLAPS

StoreInv ==
    /\ storing # Nothing =>
         running /\ flash = storing /\ requests # <<>> /\ requests[1] = WriteField(storing)
    /\ ~running => host = Closed /\ requests = <<>> /\ responses = <<>> /\ storing = Nothing
                     /\ ~lost /\ ~unread

\* The probe has accepted the write the host waits for.
Accepted == storing # Nothing \/ (responses # <<>> /\ responses[1].ok)

PipeInv ==
    ~lost =>
        /\ ~Waiting => requests = <<>> /\ responses = <<>>
        /\ Waiting => \/ Len(requests) = 1 /\ responses = <<>>
                      \/ requests = <<>> /\ Len(responses) = 1
        /\ host.pc = "reading" /\ requests # <<>> => requests[1] = ReadField
        /\ host.pc = "reading" /\ responses # <<>> =>
             responses[1] = [type |-> "read", ok |-> flash # Nothing, data |-> flash]
        /\ host.pc = "writing" /\ requests # <<>> => requests[1] = WriteField(host.wanted)
        /\ host.pc = "writing_raw" /\ requests # <<>> => requests[1].type = "write"
        /\ host.pc \in {"writing", "writing_raw"} /\ responses # <<>> =>
             responses[1].type = "write"

CacheInv ==
    /\ host.pc = "writing" => host.wanted # Nothing /\ host.cache # Nothing
    /\ host.pc = "reading" => host.cache = Nothing
    /\ host.raw => host.cache # Nothing
    /\ ~lost /\ ~unread /\ host.cache # Nothing =>
         CASE host.pc = "writing" /\ Accepted -> flash = host.wanted
           [] host.pc = "writing_raw" /\ Accepted -> TRUE
           [] OTHER -> host.raw \/ host.cache = Effective(flash)

IInv == TypeOK /\ StoreInv /\ StoredIsCurrent /\ PipeInv /\ CacheInv

-----------------------------------------------------------------------------
(* Sequences and records. *)

LEMMA TailFacts ==
    ASSUME NEW S, NEW s \in Seq(S), s # <<>>
    PROVE  /\ Head(s) = s[1] /\ s[1] \in S /\ Len(s) \in Nat \ {0}
           /\ Tail(s) \in Seq(S) /\ Len(Tail(s)) = Len(s) - 1
           /\ Len(s) = 1 => Tail(s) = <<>>
<1>1. Len(s) \in Nat \ {0} /\ Head(s) = s[1] /\ s[1] \in S
  BY EmptySeq, ElementOfSeq, HeadTailProperties
<1>2. Tail(s) \in Seq(S) /\ Len(Tail(s)) = Len(s) - 1
  BY HeadTailProperties
<1>3. Tail(s) # <<>> => Len(Tail(s)) \in Nat \ {0}
  BY <1>2, EmptySeq
<1> QED
  BY <1>1, <1>2, <1>3

LEMMA AppendFacts ==
    ASSUME NEW S, NEW s \in Seq(S), NEW e \in S
    PROVE  /\ Append(s, e) \in Seq(S) /\ Append(s, e) # <<>>
           /\ Len(Append(s, e)) = Len(s) + 1
           /\ s # <<>> => Append(s, e)[1] = s[1]
           /\ s = <<>> => Append(s, e)[1] = e
<1>1. /\ Append(s, e) \in Seq(S) /\ Append(s, e) # <<>> /\ Len(Append(s, e)) = Len(s) + 1
      /\ \A i \in 1..Len(s) : Append(s, e)[i] = s[i]
      /\ Append(s, e)[Len(s) + 1] = e
  BY AppendProperties
<1>2. /\ s # <<>> => Len(s) \in Nat \ {0}
      /\ s = <<>> => Len(s) = 0
  BY EmptySeq
<1> QED
  BY <1>1, <1>2

LEMMA Constants ==
    /\ Configs \subseteq PowerControls /\ DefaultPowerControl \in PowerControls
    /\ Nothing \notin PowerControls /\ Malformed \notin PowerControls
    /\ \A config \in PowerControls : NewState(config) \in States
    /\ Closed \in Hosts /\ ReadField \in Requests
    /\ \A data \in Configs \cup {Malformed} : WriteField(data) \in Requests
BY ConfigAssumption DEF PowerControls, DefaultPowerControl, NewState, States, HostStatuses,
   Closed, Hosts, Requests

-----------------------------------------------------------------------------
(* The probe. *)

\* A packet the probe answers is the head of the requests.
LEMMA AnswerFacts ==
    ASSUME TypeOK, requests # <<>>, NEW response \in Responses, Answer(response)
    PROVE  /\ requests' \in Seq(Requests) /\ responses' \in Seq(Responses)
           /\ responses' # <<>> /\ Len(responses') = Len(responses) + 1
           /\ Len(requests') = Len(requests) - 1
           /\ Len(requests) = 1 => requests' = <<>>
           /\ responses = <<>> => responses'[1] = response
           /\ Head(requests) = requests[1] /\ requests[1] \in Requests
BY TailFacts, AppendFacts DEF TypeOK, Answer

LEMMA ReadConfigStep ==
    ASSUME IInv, ReadConfig
    PROVE  IInv'
<1> DEFINE response == [type |-> "read", ok |-> flash # Nothing, data |-> flash]
<1>1. response \in Responses /\ Answer(response) /\ requests # <<>>
  BY DEF ReadConfig, Serves, IInv, TypeOK, Responses
<1>2. TypeOK'
  BY <1>1, AnswerFacts DEF IInv, TypeOK, ReadConfig
<1>3. StoreInv' /\ StoredIsCurrent'
  BY DEF IInv, StoreInv, StoredIsCurrent, ReadConfig, Serves
<1>4. PipeInv'
  BY <1>1, AnswerFacts, EmptySeq DEF IInv, PipeInv, ReadConfig, Serves, Waiting, TypeOK,
     ReadField, WriteField
<1>5. CacheInv'
  BY <1>1, <1>4, AnswerFacts, EmptySeq
     DEF IInv, PipeInv, CacheInv, ReadConfig, Serves, Accepted, Waiting, TypeOK,
     ReadField, WriteField
<1> QED
  BY <1>2, <1>3, <1>4, <1>5 DEF IInv

LEMMA FetchFailsStep ==
    ASSUME IInv, FetchFails
    PROVE  IInv'
<1> DEFINE response == [type |-> "read", ok |-> FALSE, data |-> Nothing]
<1>1. response \in Responses /\ Answer(response) /\ requests # <<>>
  BY DEF FetchFails, Serves, IInv, TypeOK, Responses
<1>2. TypeOK'
  BY <1>1, AnswerFacts DEF IInv, TypeOK, FetchFails
<1>3. StoreInv' /\ StoredIsCurrent'
  BY DEF IInv, StoreInv, StoredIsCurrent, FetchFails, Serves
<1>4. PipeInv' /\ CacheInv'
  BY DEF IInv, PipeInv, CacheInv, FetchFails
<1> QED
  BY <1>2, <1>3, <1>4 DEF IInv

LEMMA WriteRefusedStep ==
    ASSUME IInv, WriteRefused
    PROVE  IInv'
<1> DEFINE response == [type |-> "write", ok |-> FALSE]
<1>1. response \in Responses /\ Answer(response) /\ requests # <<>>
  BY DEF WriteRefused, Serves, Responses
<1>2. TypeOK'
  BY <1>1, AnswerFacts DEF IInv, TypeOK, WriteRefused
<1>3. StoreInv' /\ StoredIsCurrent'
  BY DEF IInv, StoreInv, StoredIsCurrent, WriteRefused, Serves
<1>4. PipeInv'
  BY <1>1, AnswerFacts, EmptySeq DEF IInv, PipeInv, WriteRefused, Serves, Waiting, TypeOK,
     ReadField, WriteField
<1>5. CacheInv'
  BY <1>1, AnswerFacts, EmptySeq DEF IInv, PipeInv, CacheInv, WriteRefused, Serves, Accepted,
     Waiting, TypeOK, ReadField, WriteField
<1> QED
  BY <1>2, <1>3, <1>4, <1>5 DEF IInv

\* The item that is stored is the one the host waits for, if anything is its own.
LEMMA StoreItemStep ==
    ASSUME IInv, StoreItem
    PROVE  IInv'
<1>1. /\ requests # <<>> /\ Head(requests) = requests[1] /\ requests[1] \in Requests
      /\ requests[1].type = "write"
  BY TailFacts DEF IInv, TypeOK, StoreItem, Serves
<1>2. PICK data \in Configs : requests[1] = WriteField(data)
  BY <1>1 DEF StoreItem, Requests, ReadField, WriteField
<1>3. flash' = data /\ storing' = data /\ data # Nothing
  BY <1>1, <1>2, Constants DEF StoreItem, WriteField
<1>4. TypeOK'
  BY <1>3 DEF IInv, TypeOK, StoreItem
<1>5. StoreInv' /\ StoredIsCurrent'
  BY <1>1, <1>2, <1>3 DEF IInv, StoreInv, StoredIsCurrent, StoreItem, Serves
<1>6. PipeInv'
  BY <1>1, EmptySeq DEF IInv, PipeInv, StoreItem, Serves, Waiting, TypeOK, ReadField
<1>7. CacheInv'
  <2>1. ~lost /\ host.pc = "writing" => host.wanted = data
    BY <1>1, <1>2 DEF IInv, PipeInv, WriteField
  <2>2. ~lost => host.pc \in {"writing", "writing_raw"}
    BY <1>1, <1>2 DEF IInv, PipeInv, TypeOK, Hosts, Waiting, ReadField, WriteField
  <2> QED
    BY <1>3, <2>1, <2>2 DEF IInv, CacheInv, Accepted, StoreItem
<1> QED
  BY <1>4, <1>5, <1>6, <1>7 DEF IInv

LEMMA FieldStoredStep ==
    ASSUME IInv, FieldStored
    PROVE  IInv'
<1> DEFINE response == [type |-> "write", ok |-> TRUE]
<1>1. response \in Responses /\ Answer(response)
  BY DEF FieldStored, Responses
<1>2. /\ requests # <<>> /\ requests[1] = WriteField(storing)
      /\ flash = storing /\ storing \in Configs
  BY DEF FieldStored, IInv, StoreInv, TypeOK
<1>3. state' = [state EXCEPT !.power_config = storing]
  BY DEF FieldStored, StateModified
<1>4. TypeOK'
  BY <1>1, <1>2, <1>3, AnswerFacts, Constants DEF IInv, TypeOK, FieldStored, States
<1>5. StoreInv' /\ StoredIsCurrent'
  BY <1>2, <1>3 DEF IInv, TypeOK, States, StoreInv, StoredIsCurrent, FieldStored, Effective
<1>6. PipeInv'
  BY <1>1, <1>2, AnswerFacts, EmptySeq DEF IInv, PipeInv, FieldStored, Waiting, TypeOK,
     ReadField, WriteField
<1>7. CacheInv'
  BY <1>1, <1>2, AnswerFacts, EmptySeq DEF IInv, PipeInv, CacheInv, FieldStored, Accepted,
     Waiting, TypeOK, ReadField, WriteField
<1> QED
  BY <1>4, <1>5, <1>6, <1>7 DEF IInv

-----------------------------------------------------------------------------
(* The host. *)

\* A request the host sends between two commands is alone in the pipe.
LEMMA SendFacts ==
    ASSUME TypeOK, NEW request \in Requests, Send(request)
    PROVE  /\ requests' \in Seq(Requests) /\ requests' # <<>>
           /\ Len(requests') = Len(requests) + 1
           /\ requests # <<>> => requests'[1] = requests[1]
           /\ requests = <<>> => requests'[1] = request /\ Len(requests') = 1
BY AppendFacts, EmptySeq DEF TypeOK, Send

LEMMA OpenProbeStep ==
    ASSUME IInv, OpenProbe
    PROVE  IInv'
<1>1. TypeOK'
  BY Constants DEF IInv, TypeOK, OpenProbe, Hosts, Closed
<1>2. StoreInv' /\ StoredIsCurrent'
  BY DEF IInv, StoreInv, StoredIsCurrent, OpenProbe
<1>3. PipeInv' /\ CacheInv'
  BY DEF IInv, PipeInv, CacheInv, OpenProbe, Closed, Waiting
<1> QED
  BY <1>1, <1>2, <1>3 DEF IInv

LEMMA CloseProbeStep ==
    ASSUME IInv, CloseProbe
    PROVE  IInv'
<1>1. TypeOK'
  BY Constants DEF IInv, TypeOK, CloseProbe
<1>2. StoreInv' /\ StoredIsCurrent'
  BY DEF IInv, StoreInv, StoredIsCurrent, CloseProbe
<1>3. PipeInv' /\ CacheInv'
  BY DEF IInv, PipeInv, CacheInv, CloseProbe, Closed, Waiting
<1> QED
  BY <1>1, <1>2, <1>3 DEF IInv

LEMMA LoadConfigStep ==
    ASSUME IInv, NEW wanted \in Configs \cup {Nothing}, LoadConfig(wanted)
    PROVE  IInv'
<1>1. Send(ReadField) /\ ReadField \in Requests
  BY Constants DEF LoadConfig
<1>2. /\ host' = [host EXCEPT !.pc = "reading", !.wanted = wanted]
      /\ host.pc = "idle" /\ host.cache = Nothing /\ host \in Hosts
  BY DEF LoadConfig, IInv, TypeOK
<1>3. /\ host' \in Hosts /\ host'.pc = "reading" /\ host'.cache = Nothing
      /\ host'.raw = host.raw
  BY <1>2 DEF Hosts
<1>4. TypeOK'
  BY <1>1, <1>3, SendFacts DEF IInv, TypeOK, LoadConfig
<1>5. StoreInv' /\ StoredIsCurrent'
  BY <1>1, <1>2, SendFacts DEF IInv, StoreInv, StoredIsCurrent, LoadConfig, Closed
<1>6. PipeInv' /\ CacheInv'
  BY <1>1, <1>2, <1>3, SendFacts DEF IInv, PipeInv, CacheInv, LoadConfig, Waiting
<1> QED
  BY <1>4, <1>5, <1>6 DEF IInv

LEMMA ModifyConfigStep ==
    ASSUME IInv, NEW wanted \in Configs, ModifyConfig(wanted)
    PROVE  IInv'
<1>1. Send(WriteField(wanted)) /\ WriteField(wanted) \in Requests /\ wanted # Nothing
  BY Constants DEF ModifyConfig
<1>2. /\ host' = [host EXCEPT !.pc = "writing", !.wanted = wanted]
      /\ host.pc = "idle" /\ host \in Hosts
  BY DEF ModifyConfig, IInv, TypeOK
<1>3. /\ host' \in Hosts /\ host'.pc = "writing" /\ host'.wanted = wanted
      /\ host'.cache = host.cache /\ host'.raw = host.raw
  BY <1>2 DEF Hosts
<1>4. TypeOK'
  BY <1>1, <1>3, SendFacts DEF IInv, TypeOK, ModifyConfig
<1>5. StoreInv' /\ StoredIsCurrent'
  BY <1>1, <1>2, SendFacts DEF IInv, StoreInv, StoredIsCurrent, ModifyConfig, Closed
<1>6. PipeInv'
  BY <1>1, <1>2, <1>3, SendFacts DEF IInv, PipeInv, ModifyConfig, Waiting
<1>7. CacheInv'
  BY <1>1, <1>2, <1>3 DEF IInv, StoreInv, PipeInv, CacheInv, Accepted, ModifyConfig, Waiting
<1> QED
  BY <1>4, <1>5, <1>6, <1>7 DEF IInv

LEMMA WriteRawStep ==
    ASSUME IInv, NEW data \in Configs \cup {Malformed}, WriteRaw(data)
    PROVE  IInv'
<1>1. Send(WriteField(data)) /\ WriteField(data) \in Requests
  BY Constants DEF WriteRaw
<1>2. /\ host' = [host EXCEPT !.pc = "writing_raw"]
      /\ host.pc = "idle" /\ host \in Hosts
  BY DEF WriteRaw, IInv, TypeOK
<1>3. /\ host' \in Hosts /\ host'.pc = "writing_raw"
      /\ host'.cache = host.cache /\ host'.raw = host.raw
  BY <1>2 DEF Hosts
<1>4. TypeOK'
  BY <1>1, <1>3, SendFacts DEF IInv, TypeOK, WriteRaw
<1>5. StoreInv' /\ StoredIsCurrent'
  BY <1>1, <1>2, SendFacts DEF IInv, StoreInv, StoredIsCurrent, WriteRaw, Closed
<1>6. PipeInv'
  BY <1>1, <1>2, <1>3, SendFacts DEF IInv, PipeInv, WriteRaw, Waiting, WriteField
<1>7. CacheInv'
  BY <1>1, <1>2, <1>3 DEF IInv, StoreInv, PipeInv, CacheInv, Accepted, WriteRaw, Waiting
<1> QED
  BY <1>4, <1>5, <1>6, <1>7 DEF IInv

\* What a read leaves the host with, and what it sends next.
LEMMA LoadedFacts ==
    ASSUME TypeOK, host.pc = "reading", NEW config \in Configs \cup {DefaultPowerControl},
           Loaded(config)
    PROVE  /\ host' \in Hosts /\ host'.cache = config /\ host'.wanted = host.wanted
           /\ host'.raw = host.raw
           /\ requests' \in Seq(Requests)
           /\ requests # <<>> => requests' # <<>> /\ requests'[1] = requests[1]
           /\ \/ host'.pc = "idle" /\ requests' = requests
              \/ /\ host'.pc = "writing" /\ host.wanted # Nothing /\ requests' # <<>>
                 /\ requests = <<>> => requests'[1] = WriteField(host.wanted)
                                       /\ Len(requests') = 1
<1>1. host \in Hosts /\ requests \in Seq(Requests)
  BY DEF TypeOK
<1>2. CASE host.wanted = Nothing
  BY <1>1, <1>2 DEF Loaded, Hosts
<1>3. CASE host.wanted # Nothing
  <2>1. WriteField(host.wanted) \in Requests /\ Send(WriteField(host.wanted))
    BY <1>1, <1>3, Constants DEF Loaded, Hosts
  <2>2. /\ host' \in Hosts /\ host'.pc = "writing" /\ host'.cache = config
        /\ host'.wanted = host.wanted /\ host'.raw = host.raw
    BY <1>1, <1>3 DEF Loaded, Hosts
  <2> QED
    BY <1>3, <2>1, <2>2, SendFacts
<1> QED
  BY <1>2, <1>3

LEMMA ReceiveReadStep ==
    ASSUME IInv, ReceiveRead
    PROVE  IInv'
<1> DEFINE config == IF responses[1].type = "read" /\ responses[1].ok THEN responses[1].data
                     ELSE DefaultPowerControl
<1>1. /\ responses # <<>> /\ Head(responses) = responses[1] /\ responses[1] \in Responses
      /\ responses' \in Seq(Responses)
      /\ Len(responses) = 1 => responses' = <<>>
      /\ host.pc = "reading" /\ Loaded(config)
  BY TailFacts DEF IInv, TypeOK, ReceiveRead
<1>2. config \in Configs \cup {DefaultPowerControl} /\ config # Nothing
  <2>1. responses[1].type = "read" /\ responses[1].ok => responses[1].data \in Configs
    <3>1. CASE responses[1] = [type |-> "read", ok |-> FALSE, data |-> Nothing]
      BY <3>1
    <3>2. CASE responses[1] \in [type : {"read"}, ok : {TRUE}, data : Configs]
      BY <3>2
    <3>3. CASE responses[1] \in [type : {"write"}, ok : BOOLEAN]
      BY <3>3
    <3> QED
      BY <1>1, <3>1, <3>2, <3>3 DEF Responses
  <2> QED
    BY <2>1, Constants
<1>3. TypeOK'
  BY <1>1, <1>2, LoadedFacts DEF IInv, TypeOK, ReceiveRead
<1>4. StoreInv' /\ StoredIsCurrent'
  BY <1>1, <1>2, LoadedFacts DEF IInv, StoreInv, StoredIsCurrent, ReceiveRead, Closed
<1>5. ~lost => requests = <<>> /\ responses' = <<>> /\ storing = Nothing /\ config = Effective(flash)
  BY <1>1, EmptySeq DEF IInv, TypeOK, StoreInv, PipeInv, Waiting, Effective
<1>6. PipeInv'
  BY <1>1, <1>2, <1>5, LoadedFacts DEF IInv, PipeInv, ReceiveRead, Waiting
<1>7. CacheInv'
  BY <1>1, <1>2, <1>5, LoadedFacts DEF IInv, CacheInv, ReceiveRead, Accepted, Effective
<1> QED
  BY <1>3, <1>4, <1>6, <1>7 DEF IInv

\* A time-out loses the request: what is proved of the pipe ends here.
LEMMA TimeoutReadStep ==
    ASSUME IInv, TimeoutRead
    PROVE  IInv'
<1>1. TypeOK'
  BY LoadedFacts DEF IInv, TypeOK, TimeoutRead
<1>2. StoreInv' /\ StoredIsCurrent'
  BY LoadedFacts DEF IInv, StoreInv, StoredIsCurrent, TimeoutRead, Closed
<1>3. PipeInv'
  BY DEF PipeInv, TimeoutRead
<1>4. CacheInv'
  BY LoadedFacts, Constants DEF IInv, CacheInv, TimeoutRead
<1> QED
  BY <1>1, <1>2, <1>3, <1>4 DEF IInv

\* What a write leaves the host with.
LEMMA WrittenFacts ==
    ASSUME TypeOK, host.pc \in {"writing", "writing_raw"}, NEW ok \in BOOLEAN,
           host' = Written(ok)
    PROVE  /\ host' \in Hosts /\ host'.pc = "idle"
           /\ host'.cache = IF ok /\ host.pc = "writing" THEN host.wanted ELSE host.cache
           /\ host'.raw = RawAfter(ok)
BY DEF TypeOK, Hosts, Written, RawAfter

LEMMA ReceiveWrittenStep ==
    ASSUME IInv, ReceiveWritten
    PROVE  IInv'
<1> DEFINE ok == responses[1].type = "write" /\ responses[1].ok
<1>1. /\ responses # <<>> /\ Head(responses) = responses[1] /\ responses[1] \in Responses
      /\ responses' \in Seq(Responses)
      /\ Len(responses) = 1 => responses' = <<>>
      /\ host.pc \in {"writing", "writing_raw"} /\ host' = Written(ok) /\ ok \in BOOLEAN
  BY TailFacts DEF IInv, TypeOK, ReceiveWritten, Responses
<1>2. TypeOK'
  BY <1>1, WrittenFacts DEF IInv, TypeOK, ReceiveWritten
<1>3. StoreInv' /\ StoredIsCurrent'
  BY <1>1 DEF IInv, StoreInv, StoredIsCurrent, ReceiveWritten, Closed
<1>4. ~lost => requests = <<>> /\ responses' = <<>> /\ storing = Nothing
  BY <1>1, EmptySeq DEF IInv, TypeOK, StoreInv, PipeInv, Waiting
<1>5. PipeInv'
  BY <1>1, <1>4, WrittenFacts DEF IInv, PipeInv, ReceiveWritten, Waiting
<1>6. CacheInv'
  <2>1. ASSUME ~lost, ~unread, host'.cache # Nothing
        PROVE  host'.raw \/ host'.cache = Effective(flash)
    <3>1. CASE host.pc = "writing" /\ ok
      BY <1>1, <2>1, <3>1, WrittenFacts DEF IInv, CacheInv, Accepted, Effective
    <3>2. CASE ~ok
      <4>1. host'.cache = host.cache /\ host'.raw = host.raw
        BY <1>1, <3>2, WrittenFacts DEF IInv, RawAfter
      <4>2. ~Accepted
        BY <1>1, <1>4, <2>1, <3>2 DEF IInv, PipeInv, Accepted
      <4> QED
        BY <2>1, <4>1, <4>2 DEF IInv, CacheInv
    <3>3. CASE host.pc = "writing_raw" /\ ok
      BY <1>1, <2>1, <3>3, WrittenFacts DEF IInv, RawAfter
    <3> QED
      BY <1>1, <3>1, <3>2, <3>3
  <2>2. host'.pc = "idle" /\ (host'.raw => host'.cache # Nothing)
    BY <1>1, WrittenFacts DEF IInv, CacheInv, RawAfter
  <2> QED
    BY <1>1, <2>1, <2>2 DEF ReceiveWritten, Effective, CacheInv
<1> QED
  BY <1>2, <1>3, <1>5, <1>6 DEF IInv

LEMMA TimeoutWriteStep ==
    ASSUME IInv, TimeoutWrite
    PROVE  IInv'
<1>1. TypeOK'
  BY WrittenFacts DEF IInv, TypeOK, TimeoutWrite
<1>2. StoreInv' /\ StoredIsCurrent'
  BY DEF IInv, StoreInv, StoredIsCurrent, TimeoutWrite, Closed
<1>3. PipeInv' /\ CacheInv'
  BY WrittenFacts DEF IInv, PipeInv, CacheInv, TimeoutWrite, RawAfter
<1> QED
  BY <1>1, <1>2, <1>3 DEF IInv

-----------------------------------------------------------------------------
(* Resets. *)

LEMMA ResetStep ==
    ASSUME IInv, Reset
    PROVE  IInv'
<1>1. TypeOK'
  BY Constants, EmptySeq DEF IInv, TypeOK, Reset
<1>2. StoreInv' /\ StoredIsCurrent' /\ PipeInv' /\ CacheInv'
  BY DEF StoreInv, StoredIsCurrent, PipeInv, CacheInv, Reset, Closed, Waiting
<1> QED
  BY <1>1, <1>2 DEF IInv

LEMMA BootStep ==
    ASSUME IInv, Boot
    PROVE  IInv'
<1>1. Effective(flash) \in PowerControls
  BY Constants DEF IInv, TypeOK, Effective
<1>2. /\ state' \in States
      /\ ~unread' => state'.power_config = Effective(flash)
      /\ unread' \in BOOLEAN
  <2>1. CASE BootRead
    BY <1>1, <2>1, Constants DEF IInv, TypeOK, BootRead, NewState
  <2>2. CASE BootUnread
    BY <2>2, Constants DEF BootUnread
  <2> QED
    BY <2>1, <2>2 DEF Boot
<1>3. TypeOK'
  BY <1>2 DEF IInv, TypeOK, Boot
<1>4. StoreInv' /\ StoredIsCurrent'
  BY <1>2 DEF IInv, StoreInv, StoredIsCurrent, Boot, Effective
<1>5. PipeInv' /\ CacheInv'
  BY DEF IInv, StoreInv, PipeInv, CacheInv, Boot, Closed, Waiting
<1> QED
  BY <1>3, <1>4, <1>5 DEF IInv

-----------------------------------------------------------------------------

LEMMA Initial == Init => IInv
<1> SUFFICES ASSUME Init PROVE IInv
  OBVIOUS
<1>1. TypeOK
  BY Constants, EmptySeq DEF Init, TypeOK
<1>2. StoreInv /\ StoredIsCurrent /\ PipeInv /\ CacheInv
  BY DEF Init, StoreInv, StoredIsCurrent, PipeInv, CacheInv, Closed, Waiting
<1> QED
  BY <1>1, <1>2 DEF IInv

LEMMA Inductive == IInv /\ [Next]_vars => IInv'
<1> SUFFICES ASSUME IInv, [Next]_vars PROVE IInv'
  OBVIOUS
<1>1. CASE ReadConfig \/ FetchFails \/ WriteRefused \/ StoreItem \/ FieldStored
  BY <1>1, ReadConfigStep, FetchFailsStep, WriteRefusedStep, StoreItemStep, FieldStoredStep
<1>2. CASE OpenProbe \/ CloseProbe
  BY <1>2, OpenProbeStep, CloseProbeStep
<1>3. CASE LoadConfig(Nothing)
  BY <1>3, LoadConfigStep
<1>4. CASE \E wanted \in Configs : LoadConfig(wanted) \/ ModifyConfig(wanted)
  BY <1>4, LoadConfigStep, ModifyConfigStep
<1>5. CASE \E data \in Configs \cup {Malformed} : WriteRaw(data)
  BY <1>5, WriteRawStep
<1>6. CASE ReceiveRead \/ ReceiveWritten \/ TimeoutRead \/ TimeoutWrite
  BY <1>6, ReceiveReadStep, ReceiveWrittenStep, TimeoutReadStep, TimeoutWriteStep
<1>7. CASE Reset \/ Boot
  BY <1>7, ResetStep, BootStep
<1>8. CASE UNCHANGED vars
  BY <1>8 DEF vars, IInv, TypeOK, StoreInv, StoredIsCurrent, PipeInv, CacheInv, Waiting, Accepted
<1> QED
  BY <1>1, <1>2, <1>3, <1>4, <1>5, <1>6, <1>7, <1>8 DEF Next

LEMMA Invariance == Spec => []IInv
BY Initial, Inductive, PTL DEF Spec

\* Only configurations that parse are ever stored, used or shown (TypeOK).
THEOREM TypeCorrect == Spec => []TypeOK
<1>1. IInv => TypeOK
  BY DEF IInv
<1> QED
  BY <1>1, Invariance, PTL

\* The configuration in use is the one a reboot would bring, whatever the host
\* writes, whichever writes fail and whenever the probe is reset
\* (store_power_control, main).
THEOREM StoredStaysCurrent == Spec => []StoredIsCurrent
<1>1. IInv => StoredIsCurrent
  BY DEF IInv
<1> QED
  BY <1>1, Invariance, PTL

\* What the host library shows between its requests is what the probe uses, as
\* long as no request was lost and no accepted write_field went past what it has
\* cached (get_power_config, modify_power_config, write_field).
THEOREM CacheStaysCurrent == Spec => []CacheIsCurrent
<1>1. ASSUME IInv PROVE CacheIsCurrent
  <2>1. ASSUME host.pc = "idle", host.cache # Nothing, ~host.raw, ~lost, ~unread
        PROVE  host.cache = state.power_config
    <3>1. host.cache = Effective(flash) /\ running
      BY <1>1, <2>1 DEF IInv, TypeOK, StoreInv, CacheInv, Closed
    <3>2. storing = Nothing
      BY <1>1, <2>1 DEF IInv, StoreInv, PipeInv, Waiting
    <3> QED
      BY <1>1, <2>1, <3>1, <3>2 DEF IInv, StoredIsCurrent
  <2> QED
    BY <2>1 DEF CacheIsCurrent
<1> QED
  BY <1>1, Invariance, PTL

-----------------------------------------------------------------------------
(***************************************************************************)
(* The voltage the power task publishes, for the same configurations and   *)
(* every reading of the ADC: the LED arithmetic never underflows.          *)
(*                                                                         *)
(* SignalInRange speaks of the rail only where an iteration begins.  In    *)
(* between rail a is off or in the regulator's range all the same, and the *)
(* value published is the one of an iteration before; and a reset, which   *)
(* forgets that value, switches the rail off (Signal).                     *)
(***************************************************************************)

\* The tasks on the same STATE.
P == INSTANCE ProbeSystem

Signals == {0} \cup P!MinMv..P!MaxMv

SystemTypeOK ==
    /\ state \in P!States
    /\ rails \in [{"a", "b"} -> Nat]
    /\ power \in [pc : {"sample", "settle_b", "sweep", "settle_a"}, config : P!PowerControls,
                  gnddet : BOOLEAN, tvcc_mv : Nat]
    /\ gnd \in BOOLEAN

Signal ==
    /\ state.trans_mv \in Signals /\ rails["a"] \in Signals
    /\ power.pc = "sample" => state.trans_mv = rails["a"]
    /\ ~running => power.pc = "sample" /\ rails["a"] = 0

SystemInv == SystemTypeOK /\ Signal

-----------------------------------------------------------------------------

\* What the regulator makes of a voltage is in its range.
LEMMA DutyRange == \A mv \in Nat : P!DutyMv(mv) \in P!MinMv..P!MaxMv /\ P!DutyMv(mv) \in Nat
BY DEF P!DutyMv, P!MinMv, P!MaxMv

LEMMA Typed ==
    /\ P!DefaultPowerControl \in P!PowerControls
    /\ \A config \in P!PowerControls :
         P!NewState(config) \in P!States /\ P!NewState(config).trans_mv = 0
    /\ \A config \in P!PowerControls, gnddet \in BOOLEAN : P!TvccMv(config, gnddet) \in Nat
    /\ MeasuredMv \subseteq Nat /\ Configs \subseteq P!PowerControls
BY PowerAssumption, ConfigAssumption
   DEF PowerControls, P!PowerControls, P!DefaultPowerControl, P!NewState, P!States,
       P!HostStatuses, P!TvccMv

LEMMA TransTyped ==
    ASSUME SystemTypeOK, NEW tvcc_mv \in Nat
    PROVE  P!TransMv(power, tvcc_mv) \in Nat
BY DEF SystemTypeOK, P!TransMv, P!PowerControls

\* A rail that is set keeps its type, and the other rail its value.
LEMMA SetRailFacts ==
    ASSUME SystemTypeOK, NEW rail \in {"a", "b"}, NEW mv \in Nat, P!SetRail(rail, mv)
    PROVE  /\ rails' \in [{"a", "b"} -> Nat]
           /\ rail = "b" => rails'["a"] = rails["a"]
           /\ rail = "a" => rails'["a"] \in Signals
           /\ rail = "a" /\ mv = 0 => rails'["a"] = 0
BY DutyRange DEF SystemTypeOK, P!SetRail, Signals

LEMMA SampleStep ==
    ASSUME SystemInv, P!Sample
    PROVE  SystemInv'
<1> DEFINE mv == P!TvccMv(state.power_config, gnd)
<1>1. mv \in Nat /\ P!SetRail("b", mv) /\ state.power_config \in P!PowerControls
  BY Typed DEF P!Sample, SystemInv, SystemTypeOK, P!States
<1>2. power' = P!Sampled(IF mv = 0 THEN "sweep" ELSE "settle_b", state.power_config, gnd, 0)
  BY DEF P!Sample
<1>3. SystemTypeOK'
  BY <1>1, <1>2, SetRailFacts DEF P!Sample, SystemInv, SystemTypeOK, P!Sampled
<1>4. Signal'
  BY <1>1, <1>2, SetRailFacts DEF P!Sample, SystemInv, Signal, P!Sampled
<1> QED
  BY <1>3, <1>4 DEF SystemInv

LEMMA EnableBStep ==
    ASSUME SystemInv, P!EnableB
    PROVE  SystemInv'
<1>1. P!DutyMv(P!TvccMv(power.config, power.gnddet)) \in Nat
  BY Typed, DutyRange DEF SystemInv, SystemTypeOK
<1>2. SystemTypeOK'
  BY <1>1 DEF P!EnableB, SystemInv, SystemTypeOK
<1>3. Signal'
  BY <1>1 DEF P!EnableB, SystemInv, SystemTypeOK, Signal
<1> QED
  BY <1>2, <1>3 DEF SystemInv

\* The end of an iteration publishes what it was given.
LEMMA PublishFacts ==
    ASSUME SystemInv, NEW trans_mv \in Nat, NEW tvcc_mv \in Nat, P!Publish(trans_mv, tvcc_mv)
    PROVE  /\ state' \in P!States /\ state'.trans_mv = trans_mv
           /\ power' = P!Unsampled
BY DEF P!Publish, SystemInv, SystemTypeOK, P!States

LEMMA UnsampledTyped ==
    /\ P!Unsampled \in [pc : {"sample", "settle_b", "sweep", "settle_a"}, config : P!PowerControls,
                      gnddet : BOOLEAN, tvcc_mv : Nat]
    /\ P!Unsampled.pc = "sample"
BY Typed DEF P!Unsampled, P!Sampled

LEMMA SweepStep ==
    ASSUME SystemInv, NEW tvcc_mv \in MeasuredMv, P!Sweep(tvcc_mv)
    PROVE  SystemInv'
<1> DEFINE mv == P!TransMv(power, tvcc_mv)
<1>1. tvcc_mv \in Nat /\ mv \in Nat /\ P!SetRail("a", mv) /\ gnd' = gnd /\ running' /\ running
  BY Typed, TransTyped DEF P!Sweep, SystemInv
<1>2. /\ rails' \in [{"a", "b"} -> Nat] /\ rails'["a"] \in Signals
      /\ mv = 0 => rails'["a"] = 0
  BY <1>1, SetRailFacts DEF SystemInv
<1>3. CASE mv = 0
  <2>1. P!Publish(0, tvcc_mv)
    BY <1>3 DEF P!Sweep
  <2>2. state' \in P!States /\ state'.trans_mv = 0 /\ power' = P!Unsampled
    BY <1>1, <2>1, PublishFacts
  <2> QED
    BY <1>1, <1>2, <1>3, <2>2, UnsampledTyped DEF SystemInv, SystemTypeOK, Signal, Signals
<1>4. CASE mv # 0
  <2>1. power' = [power EXCEPT !.pc = "settle_a", !.tvcc_mv = tvcc_mv] /\ state' = state
    BY <1>4 DEF P!Sweep
  <2>2. /\ power' \in [pc : {"sample", "settle_b", "sweep", "settle_a"}, config : P!PowerControls,
                       gnddet : BOOLEAN, tvcc_mv : Nat]
        /\ power'.pc = "settle_a"
    BY <1>1, <2>1 DEF SystemInv, SystemTypeOK
  <2>3. SystemTypeOK'
    BY <1>1, <1>2, <2>1, <2>2 DEF SystemInv, SystemTypeOK
  <2>4. Signal'
    BY <1>1, <1>2, <2>1, <2>2 DEF SystemInv, Signal
  <2> QED
    BY <2>3, <2>4 DEF SystemInv
<1> QED
  BY <1>3, <1>4

LEMMA EnableAStep ==
    ASSUME SystemInv, P!EnableA
    PROVE  SystemInv'
<1> DEFINE mv == P!DutyMv(P!TransMv(power, power.tvcc_mv))
<1>1. mv \in P!MinMv..P!MaxMv /\ mv \in Nat /\ power.tvcc_mv \in Nat
  BY TransTyped, DutyRange DEF SystemInv, SystemTypeOK
<1>2. rails' = [rails EXCEPT !["a"] = mv] /\ P!Publish(mv, power.tvcc_mv) /\ gnd' = gnd /\ running'
  BY DEF P!EnableA
<1>3. state' \in P!States /\ state'.trans_mv = mv /\ power' = P!Unsampled
  BY <1>1, <1>2, PublishFacts
<1>4. rails' \in [{"a", "b"} -> Nat] /\ rails'["a"] = mv
  BY <1>1, <1>2 DEF SystemInv, SystemTypeOK
<1>5. SystemTypeOK'
  BY <1>2, <1>3, <1>4, UnsampledTyped DEF SystemInv, SystemTypeOK
<1>6. Signal'
  BY <1>1, <1>2, <1>3, <1>4 DEF Signal, Signals
<1> QED
  BY <1>5, <1>6 DEF SystemInv

\* The other tasks write fields of STATE that are not the power task's.
LEMMA OthersStep ==
    ASSUME SystemInv, UNCHANGED <<running, P!powerVars>>,
           state' \in P!States, state'.trans_mv = state.trans_mv
    PROVE  SystemInv'
BY DEF SystemInv, SystemTypeOK, Signal, P!powerVars

LEMMA SystemReset ==
    ASSUME SystemInv, P!Reset
    PROVE  SystemInv'
BY Typed, UnsampledTyped DEF P!Reset, P!PowerReset, SystemInv, SystemTypeOK, Signal, Signals

\* A boot forgets what was published, which a reset has made 0.
LEMMA SystemBoot ==
    ASSUME SystemInv, P!Boot
    PROVE  SystemInv'
<1>1. PICK config \in Configs : state' = P!NewState(config)
  BY DEF P!Boot
<1>2. state' \in P!States /\ state'.trans_mv = 0
  BY <1>1, Typed
<1> QED
  BY <1>2 DEF P!Boot, SystemInv, SystemTypeOK, Signal, Signals, P!powerVars

LEMMA SystemInitial == P!Init => SystemInv
<1> SUFFICES ASSUME P!Init PROVE SystemInv
  OBVIOUS
<1>1. SystemTypeOK
  BY Typed, UnsampledTyped DEF P!Init, P!PowerInit, SystemTypeOK
<1>2. Signal
  BY Typed, UnsampledTyped DEF P!Init, P!PowerInit, Signal, Signals
<1> QED
  BY <1>1, <1>2 DEF SystemInv

LEMMA SystemInductive ==
    ASSUME SystemInv, [P!Next]_(P!vars)
    PROVE  SystemInv'
<1>1. CASE P!PowerNext
  BY <1>1, SampleStep, EnableBStep, SweepStep, EnableAStep DEF P!PowerNext, P!PowerStep
<1>2. CASE P!UiNext \/ (P!Activity /\ UNCHANGED P!powerVars) \/ UNCHANGED P!vars
  BY <1>2, OthersStep DEF P!UiNext, P!Tick, P!Activity, P!vars, SystemInv, SystemTypeOK
<1>3. CASE P!GroundChanges /\ UNCHANGED P!uiVars
  BY <1>3 DEF P!GroundChanges, SystemInv, SystemTypeOK, Signal
<1>4. ASSUME NEW s \in P!HostStatuses, P!HostStatus(s), UNCHANGED P!powerVars PROVE SystemInv'
  <2>1. state' \in P!States /\ state'.trans_mv = state.trans_mv
    BY <1>4 DEF P!HostStatus, SystemInv, SystemTypeOK, P!States
  <2> QED
    BY <1>4, <2>1, OthersStep DEF P!HostStatus
<1>5. ASSUME NEW config \in Configs, P!PowerConfigStored(config) PROVE SystemInv'
  <2>1. state' \in P!States /\ state'.trans_mv = state.trans_mv
    BY <1>5, Typed DEF P!PowerConfigStored, SystemInv, SystemTypeOK, P!States
  <2> QED
    BY <1>5, <2>1, OthersStep DEF P!PowerConfigStored
<1>6. CASE P!Reset \/ P!Boot
  BY <1>6, SystemReset, SystemBoot
<1> QED
  BY <1>1, <1>2, <1>3, <1>4, <1>5, <1>6 DEF P!Next

LEMMA SystemInvariance == P!Spec => []SystemInv
BY SystemInitial, SystemInductive, PTL DEF P!Spec

\* The signal voltage in STATE is 0 or a voltage the LED can show, whatever is
\* stored and measured, and at the start of each iteration it is the one on the
\* rail (power_task, ui_task).
THEOREM SignalStaysInRange == P!Spec => []SignalInRange
<1>1. SystemInv => SignalInRange
  BY DEF SystemInv, Signal, Signals, SignalInRange, MinMv, MaxMv, P!MinMv, P!MaxMv
<1> QED
  BY <1>1, SystemInvariance, PTL

\* What the LED shows is Dark, Red or a mixture of green and blue that fits its
\* bytes: no step of ui_task underflows (ui_task).
ColorFits == led \in {P!Dark, P!Red} \cup {<<0, green, 100 - green>> : green \in 0..100}

\* However STATE changes between two ticks, the LED shows such a mixture (ui_task).
THEOREM LedFits == P!Spec => []ColorFits
<1>1. ASSUME NEW mv \in Signals PROVE P!Color(mv) \in {P!Red} \cup {<<0, g, 100 - g>> : g \in 0..100}
  <2>1. CASE mv = 0
    BY <2>1 DEF P!Color
  <2>2. CASE mv # 0
    <3>1. mv - 1800 \in 0..1500
      BY <2>2 DEF Signals, P!MinMv, P!MaxMv
    <3>2. ((mv - 1800) * 100) \div 1500 \in 0..100
      BY <3>1
    <3> QED
      BY <2>2, <3>2 DEF P!Color
  <2> QED
    BY <2>1, <2>2
<1>2. P!Init => ColorFits
  BY DEF P!Init, P!UiInit, ColorFits
<1>3. SystemInv /\ ColorFits /\ [P!Next]_(P!vars) => ColorFits'
  <2> SUFFICES ASSUME SystemInv, ColorFits, [P!Next]_(P!vars) PROVE ColorFits'
    OBVIOUS
  <2>1. CASE P!UiNext
    <3>1. led' \in {P!Dark, P!Color(state.trans_mv)}
      BY <2>1 DEF P!UiNext, P!Tick
    <3>2. state.trans_mv \in Signals
      BY DEF SystemInv, Signal
    <3> QED
      BY <1>1, <3>1, <3>2 DEF ColorFits
  <2>2. CASE P!Reset \/ P!Boot
    BY <2>2 DEF P!Reset, P!UiReset, P!Boot, P!UiBoot, ColorFits
  <2>3. CASE UNCHANGED led
    BY <2>3 DEF ColorFits
  <2>4. P!UiNext \/ P!Reset \/ P!Boot \/ UNCHANGED led
    BY DEF P!Next, P!vars, P!uiVars, P!PowerNext, P!GroundChanges, P!Activity, P!HostStatus,
       P!PowerConfigStored
  <2> QED
    BY <2>1, <2>2, <2>3, <2>4
<1> QED
  BY <1>2, <1>3, SystemInvariance, PTL DEF P!Spec
=============================================================================

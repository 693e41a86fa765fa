----------------------------- MODULE ConfigStore -----------------------------
(***************************************************************************)
(* The power configuration on its way between the host and the flash.      *)
(*                                                                         *)
(*   GrappleProbeDebug (host.rs)   the host library: a copy of the         *)
(*                                 configuration, and one request at a     *)
(*                                 time with a time limit                  *)
(*   CMSISDapReactor               the vendor packets on the probe         *)
(*   ConfigStorage                 the flash; an item is there or not, as  *)
(*                                 the external library promises           *)
(*   main                          the boot, which loads what is stored    *)
(*                                                                         *)
(* Requests and responses go through the pipe of PacketPipeline, here two  *)
(* sequences: an answer that comes too late stays in it for whoever reads  *)
(* next.                                                                   *)
(***************************************************************************)
EXTENDS ProbeState, Sequences

CONSTANTS
    Nothing,      \* no configuration
    Malformed,    \* data that PowerControl::try_parse refuses
    Configs,      \* the configurations the host writes
    MaxPending    \* bound of the packets in the pipe

VARIABLES
    flash,        \* what the storage holds for the power control, or Nothing
    storing,      \* the field that is in the flash and not yet in STATE
    requests,     \* packets to the probe
    responses,    \* packets to the host
    host,         \* the host: what it waits for, its cached power_config, the
                  \* configuration modify_power_config is about to write, and
                  \* whether a write went past a power_config that was cached
    lost,         \* since the boot a request timed out or a fetch failed
    unread        \* the boot could not read the flash

vars == <<running, state, flash, storing, requests, responses, host, lost, unread>>

ASSUME ConfigAssumption ==
    /\ Configs \subseteq PowerControls /\ MaxPending \in Nat \ {0}
    /\ {Nothing, Malformed} \cap PowerControls = {} /\ Nothing # Malformed

Closed == [pc |-> "closed", cache |-> Nothing, wanted |-> Nothing, raw |-> FALSE]

ReadField == [type |-> "read"]
WriteField(data) == [type |-> "write", data |-> data]

Requests == {ReadField} \cup {WriteField(data) : data \in Configs \cup {Malformed}}
Responses == {[type |-> "read", ok |-> FALSE, data |-> Nothing]}
                \cup [type : {"read"}, ok : {TRUE}, data : Configs]
                \cup [type : {"write"}, ok : BOOLEAN]
Hosts == [pc : {"closed", "idle", "reading", "writing", "writing_raw"},
          cache : Configs \cup {Nothing, DefaultPowerControl},
          wanted : Configs \cup {Nothing}, raw : BOOLEAN]

\* Only what parses gets into the flash and from there to STATE; and what the
\* host shows is a configuration, never half of one (ProbeProofs).
TypeOK ==
    /\ running \in BOOLEAN /\ state \in States
    /\ flash \in Configs \cup {Nothing} /\ storing \in Configs \cup {Nothing}
    /\ requests \in Seq(Requests) /\ responses \in Seq(Responses)
    /\ host \in Hosts
    /\ lost \in BOOLEAN /\ unread \in BOOLEAN

Init ==
    /\ running = FALSE /\ state = NewState(DefaultPowerControl)
    /\ flash = Nothing /\ storing = Nothing
    /\ requests = <<>> /\ responses = <<>> /\ host = Closed
    /\ lost = FALSE /\ unread = FALSE

\* What a flash makes of the configuration: the default when it holds none.
Effective(stored) == IF stored = Nothing THEN DefaultPowerControl ELSE stored

-----------------------------------------------------------------------------
(* The probe: unrecognized_packet, one request at a time. *)

Answer(response) ==
    /\ requests' = Tail(requests)
    /\ responses' = Append(responses, response)

Serves(type) ==
    /\ running /\ storing = Nothing
    /\ requests # <<>> /\ Head(requests).type = type

\* read_config: a field that is not stored is a failure too.
ReadConfig ==
    /\ Serves("read")
    /\ Answer([type |-> "read", ok |-> flash # Nothing, data |-> flash])
    /\ UNCHANGED <<running, state, flash, storing, host, lost, unread>>

FetchFails ==
    /\ Serves("read") /\ flash # Nothing
    /\ Answer([type |-> "read", ok |-> FALSE, data |-> Nothing])
    /\ lost' = TRUE
    /\ UNCHANGED <<running, state, flash, storing, host, unread>>

\* write_config: what does not parse is refused, and a store may fail.
WriteRefused ==
    /\ Serves("write")
    /\ Answer([type |-> "write", ok |-> FALSE])
    /\ UNCHANGED <<running, state, flash, storing, host, lost, unread>>

\* store_field: the item is durable, and the task has yet to run again.
StoreItem ==
    /\ Serves("write") /\ Head(requests).data # Malformed
    /\ flash' = Head(requests).data /\ storing' = Head(requests).data
    /\ UNCHANGED <<running, state, requests, responses, host, lost, unread>>

\* store_power_control's send_modify, and the answer.
StateForgotten == UNCHANGED state
StateModified == state' = [state EXCEPT !.power_config = storing]
FieldStored ==
    /\ running /\ storing # Nothing
    /\ StateModified
    /\ storing' = Nothing
    /\ Answer([type |-> "write", ok |-> TRUE])
    /\ UNCHANGED <<running, flash, host, lost, unread>>

-----------------------------------------------------------------------------
(* The host library, and the commands that use it. *)

Waiting == host.pc \in {"reading", "writing", "writing_raw"}

Send(request) == requests' = Append(requests, request)

\* The pipe has room for the request and its answer.
Room == Len(requests) + Len(responses) < MaxPending

OpenProbe ==
    /\ running /\ host.pc = "closed"
    /\ host' = [Closed EXCEPT !.pc = "idle"]
    /\ UNCHANGED <<running, state, flash, storing, requests, responses, lost, unread>>

CloseProbe ==
    /\ host.pc = "idle"
    /\ host' = Closed
    /\ UNCHANGED <<running, state, flash, storing, requests, responses, lost, unread>>

\* get_power_config, and the half of modify_power_config that loads: a cached
\* configuration is not read again.
LoadConfig(wanted) ==
    /\ host.pc = "idle" /\ host.cache = Nothing /\ Room
    /\ Send(ReadField)
    /\ host' = [host EXCEPT !.pc = "reading", !.wanted = wanted]
    /\ UNCHANGED <<running, state, flash, storing, responses, lost, unread>>

\* modify_power_config with the configuration loaded.
ModifyConfig(wanted) ==
    /\ host.pc = "idle" /\ host.cache # Nothing /\ Room
    /\ Send(WriteField(wanted))
    /\ host' = [host EXCEPT !.pc = "writing", !.wanted = wanted]
    /\ UNCHANGED <<running, state, flash, storing, responses, lost, unread>>

\* write_field, which the write-config command uses and any client of the library
\* may: it neither looks at power_config nor drops it.
WriteRaw(data) ==
    /\ host.pc = "idle" /\ Room
    /\ Send(WriteField(data))
    /\ host' = [host EXCEPT !.pc = "writing_raw"]
    /\ UNCHANGED <<running, state, flash, storing, responses, lost, unread>>

\* What read_field came back with is cached, the default when it failed, and
\* modify_power_config goes on to write.
Loaded(config) ==
    IF host.wanted = Nothing
    THEN /\ host' = [host EXCEPT !.pc = "idle", !.cache = config]
         /\ UNCHANGED requests
    ELSE /\ host' = [host EXCEPT !.pc = "writing", !.cache = config]
         /\ Send(WriteField(host.wanted))

\* A write the probe accepts leaves the cache behind if it went past it, and a
\* modify_power_config after that brings it up to date.
RawAfter(ok) == IF ok THEN host.pc = "writing_raw" /\ host.cache # Nothing ELSE host.raw

\* The write is over: modify_power_config caches it only if the probe said so, and
\* write_field leaves the cache alone.
WrittenUnchecked(ok) ==
    [host EXCEPT !.pc = "idle", !.wanted = Nothing, !.raw = RawAfter(ok),
                 !.cache = IF host.pc = "writing" THEN host.wanted ELSE @]
Written(ok) ==
    [host EXCEPT !.pc = "idle", !.wanted = Nothing, !.raw = RawAfter(ok),
                 !.cache = IF ok /\ host.pc = "writing" THEN host.wanted ELSE @]

ReceiveRead ==
    /\ host.pc = "reading" /\ responses # <<>>
    /\ responses' = Tail(responses)
    /\ LET answer == Head(responses)
       IN  Loaded(IF answer.type = "read" /\ answer.ok THEN answer.data
                  ELSE DefaultPowerControl)
    /\ UNCHANGED <<running, state, flash, storing, lost, unread>>

ReceiveWritten ==
    /\ host.pc \in {"writing", "writing_raw"} /\ responses # <<>>
    /\ responses' = Tail(responses)
    /\ host' = Written(Head(responses).type = "write" /\ Head(responses).ok)
    /\ UNCHANGED <<running, state, flash, storing, requests, lost, unread>>

\* request gives up after a second; the answer is still on its way.
TimeoutRead ==
    /\ host.pc = "reading" /\ responses = <<>> /\ Room
    /\ Loaded(DefaultPowerControl) /\ lost' = TRUE
    /\ UNCHANGED <<running, state, flash, storing, responses, unread>>

TimeoutWrite ==
    /\ host.pc \in {"writing", "writing_raw"} /\ responses = <<>>
    /\ host' = Written(FALSE) /\ lost' = TRUE
    /\ UNCHANGED <<running, state, flash, storing, requests, responses, unread>>

-----------------------------------------------------------------------------
(* A reset, whatever its cause, and the boot. *)

\* A panic, on request or not, the watchdog that a blocked executor no longer
\* feeds, or the cable: the device leaves the bus, and what the host had open and
\* the packets are gone.
Reset ==
    /\ running /\ running' = FALSE
    /\ state' = NewState(DefaultPowerControl) /\ storing' = Nothing
    /\ requests' = <<>> /\ responses' = <<>> /\ host' = Closed
    /\ lost' = FALSE /\ unread' = FALSE
    /\ UNCHANGED flash

\* main: what is stored and parses becomes the configuration.
BootRead == state' = NewState(Effective(flash)) /\ UNCHANGED unread
BootUnread == flash # Nothing /\ state' = NewState(DefaultPowerControl) /\ unread' = TRUE
Boot ==
    /\ ~running /\ running' = TRUE
    /\ BootRead \/ BootUnread
    /\ UNCHANGED <<flash, storing, requests, responses, host, lost>>

Next ==
    \/ ReadConfig \/ FetchFails \/ WriteRefused \/ StoreItem \/ FieldStored
    \/ OpenProbe \/ CloseProbe
    \/ LoadConfig(Nothing)
    \/ \E wanted \in Configs : LoadConfig(wanted) \/ ModifyConfig(wanted)
    \/ \E data \in Configs \cup {Malformed} : WriteRaw(data)
    \/ ReceiveRead \/ ReceiveWritten \/ TimeoutRead \/ TimeoutWrite
    \/ Reset \/ Boot

Spec == Init /\ [][Next]_vars

-----------------------------------------------------------------------------

\* The configuration the probe works with is the one it would boot with, over
\* every write that succeeds, is refused or is cut short by a reset, except from
\* the moment an item is durable to the send_modify that follows, and after a
\* boot that could not read the flash (store_power_control, main).
StoredIsCurrent ==
    running /\ storing = Nothing /\ ~unread => state.power_config = Effective(flash)

\* What the host library shows as the probe's configuration is it, between its
\* requests, as long as no request was lost since the boot: the defaults it
\* assumes when the field is not there are the probe's own, and a write the probe
\* refuses leaves both as they were.  An accepted write_field past a cached
\* configuration makes the library show a stale one, until a modify_power_config
\* is accepted or the probe is opened anew (get_power_config,
\* modify_power_config, write_field).
CacheIsCurrent ==
    host.pc = "idle" /\ host.cache # Nothing /\ ~host.raw /\ ~lost /\ ~unread
        => host.cache = state.power_config
=============================================================================

----------------------------- MODULE AccessPort -----------------------------
(***************************************************************************)
(* The probe's target pins, and everybody who drives them.                 *)
(*                                                                         *)
(*   DebugAccessPort (dap.rs)      the protocol the host connected with    *)
(*   PioAccessPort                 the driver that is open on the pins     *)
(*   swd_token, swo_token          who may drive which group of wires      *)
(*   SWOAccess, SWOTask (swo.rs)   trace capture, requested by commands    *)
(*                                 and carried out by a task of its own    *)
(*                                                                         *)
(* Every command handler runs without an await while it touches this       *)
(* state, so it is one action; the SWO task picks a changed control value  *)
(* up at some later poll, which is the action SwoTask.                     *)
(***************************************************************************)
EXTENDS Integers

CONSTANTS
    MinFreq,       \* the slowest clock a driver's divider can make (2 kHz)
    MaxFreq,       \* the fastest clock SWJ_Clock accepts (clk_sys / 4)
    DefaultFreq,   \* swj_freq_hz at boot (1 MHz)
    HostFreqs,     \* the frequencies the host asks for
    Undivided,     \* a state machine's divider before set_frequency: full speed
    Bauds          \* the SWO baud rates the host asks for

ASSUME FreqAssumption ==
    /\ MinFreq \in Nat \ {0} /\ MaxFreq \in Nat /\ DefaultFreq \in Nat
    /\ MinFreq <= DefaultFreq /\ DefaultFreq <= MaxFreq
    /\ HostFreqs \subseteq Nat
    /\ Undivided \notin Nat

ASSUME BaudAssumption == Bauds # {}

Wires    == {"swd", "swo"}      \* swd: TCK, TMS and its direction; swo: TDI, TDO
Users    == {"port", "swo"}     \* the access port, the SWO port
SWOModes == {"Off", "Uart", "Manchester"}
Supported == {"Off", "Uart"}    \* PioSWO::SUPPORTS_MANCHESTER is false
Controls == [mode : Supported, active : BOOLEAN, baud : Bauds]

VARIABLES
    dapState,      \* DebugAccessPort::state
    inner,         \* PioAccessPort::inner, the driver that is open
    owner,         \* which user holds the token of each group of wires
    swjFreq,       \* PioAccessPort::swj_freq_hz
    driverFreq,    \* the clock of the open driver
    request,       \* the value in SWO::control, written by the handlers
    unseen,        \* SWOTask::control has a value it has not seen
    control,       \* SWOTask::run's own control, the one it applied last
    swoActive,     \* the active flag of SWO::status, as SWO_Status reports it
    reply,         \* the status of the last response
    driven,        \* the wires the last step toggled for a command
    panicked       \* an expect() failed: the firmware stopped

portVars == <<inner, owner, driverFreq, panicked>>
swoVars  == <<request, unseen, control, swoActive>>
vars     == <<dapState, portVars, swjFreq, swoVars, reply, driven>>

Init ==
    /\ dapState = "Disconnected"
    /\ inner = "Pins" /\ owner = [w \in Wires |-> "port"]
    /\ swjFreq = DefaultFreq /\ driverFreq = Undivided
    /\ \E b \in Bauds : request = [mode |-> "Off", active |-> FALSE, baud |-> b]
    /\ control = request /\ unseen = FALSE /\ swoActive = FALSE
    /\ reply = "ok" /\ driven = {} /\ panicked = FALSE

AlwaysOk(ok) == "ok"
Status(ok) == IF ok THEN "ok" ELSE "err"

\* Capture is asked for: any other control value closes the SWO port.
Wants(c) == c.active /\ c.mode # "Off"

-----------------------------------------------------------------------------
(***************************************************************************)
(* PioAccessPort: replacing the open driver.  The old driver is dropped    *)
(* first, so a new one finds its tokens free unless the SWO port has them. *)
(***************************************************************************)

DroppedTooLate == owner
Dropped == [w \in Wires |-> IF owner[w] = "port" THEN "free" ELSE owner[w]]

\* set_frequency of an open driver: a rate it cannot make leaves the divider.
DividerUnset(f, old) == old
DividerUnchecked(f, old) == f
Divider(f, old) == IF f \in MinFreq..MaxFreq THEN f ELSE old

\* open_pins takes whichever tokens it finds.
OpenPins ==
    /\ inner' = "Pins" /\ driverFreq' = Undivided /\ UNCHANGED panicked
    /\ owner' = [w \in Wires |-> IF Dropped[w] = "free" THEN "port" ELSE Dropped[w]]

\* try_open_swd; its callers expect() it to succeed.
OpenSwd ==
    /\ inner' = "SWD" /\ driverFreq' = Divider(swjFreq, Undivided)
    /\ panicked' = (Dropped["swd"] # "free")
    /\ owner' = [Dropped EXCEPT !["swd"] = "port"]

JtagOpenableDespiteSwo == Dropped["swd"] = "free"
JtagOpenable == \A w \in Wires : Dropped[w] = "free"

\* try_open_jtag needs both tokens; without them the port falls back to pins.
OpenJtag ==
    IF JtagOpenable
    THEN /\ inner' = "JTAG" /\ driverFreq' = Divider(swjFreq, Undivided)
         /\ owner' = [w \in Wires |-> "port"] /\ UNCHANGED panicked
    ELSE OpenPins

AssertJtag == IF inner = "JTAG" THEN UNCHANGED portVars ELSE OpenJtag
AssertSwd  == IF inner = "SWD"  THEN UNCHANGED portVars ELSE OpenSwd
AssertSwj  == IF inner = "Pins" THEN OpenSwd ELSE UNCHANGED portVars
AssertPins == IF inner = "Pins" THEN UNCHANGED portVars ELSE OpenPins

-----------------------------------------------------------------------------
(* Command handlers of the dispatcher. *)

ConnectSwd ==
    /\ ~panicked
    /\ AssertSwd
    /\ dapState' = "SWD" /\ reply' = "ok" /\ driven' = {}
    /\ UNCHANGED <<swjFreq, swoVars>>

ConnectedJtagUnasked == "JTAG"
ConnectedJtag == IF inner' = "JTAG" THEN "JTAG" ELSE dapState

\* A refused JTAG connect leaves dap.state alone, though the driver is gone.
ConnectJtag ==
    /\ ~panicked
    /\ AssertJtag
    /\ dapState' = ConnectedJtag /\ reply' = Status(inner' = "JTAG")
    /\ driven' = {}
    /\ UNCHANGED <<swjFreq, swoVars>>

\* send_if_modified: each setter compares the field it writes.
ModifiedMode(c) == c.mode # request.mode
Modified(c) == c # request

\* The control watch wakes its receiver only for a value that differs.
SendControl(c) ==
    /\ request' = c
    /\ unseen' = (unseen \/ Modified(c))
    /\ UNCHANGED <<control, swoActive>>

\* disconnect() closes the driver if a mode is connected; both close()s always
\* succeed, so the SWO mode is then switched off.
Disconnect ==
    /\ ~panicked
    /\ IF dapState = "Disconnected" THEN UNCHANGED portVars ELSE AssertPins
    /\ dapState' = "Disconnected" /\ reply' = "ok" /\ driven' = {}
    /\ SendControl([request EXCEPT !.mode = "Off"])
    /\ UNCHANGED swjFreq

\* With a driver open, the pins are opened for this one call: it drives the
\* wires whose tokens nobody holds.
PinsDriveAll == Wires
PinsDrive == {w \in Wires : owner[w] = IF inner = "Pins" THEN "port" ELSE "free"}

SwjPins ==
    /\ ~panicked
    /\ driven' = PinsDrive /\ reply' = "ok"
    /\ UNCHANGED <<dapState, portVars, swjFreq, swoVars>>

\* The frequency is stored before the driver is asked, and stays stored when
\* the driver refuses it.
SwjClock(f) ==
    /\ ~panicked
    /\ driven' = {}
    /\ IF f <= MaxFreq
       THEN /\ swjFreq' = f
            /\ driverFreq' = IF inner = "Pins" THEN driverFreq ELSE Divider(f, driverFreq)
            /\ reply' = Status(inner = "Pins" \/ f >= MinFreq)
       ELSE /\ reply' = "err"
            /\ UNCHANGED <<swjFreq, driverFreq>>
    /\ UNCHANGED <<dapState, inner, owner, panicked, swoVars>>

SwjSequence ==
    /\ ~panicked
    /\ AssertSwj
    /\ driven' = {"swd"} /\ reply' = "ok"
    /\ UNCHANGED <<dapState, swjFreq, swoVars>>

\* SWD_Sequence, and the accesses of a Transfer in SWD mode.
SwdTraffic ==
    /\ ~panicked
    /\ LET ok == dapState = "SWD" /\ inner = "SWD"
       IN  reply' = Status(ok) /\ driven' = IF ok THEN {"swd"} ELSE {}
    /\ UNCHANGED <<dapState, portVars, swjFreq, swoVars>>

\* JTAG_Sequence, and the scans of a Transfer in JTAG mode.
JtagTraffic ==
    /\ ~panicked
    /\ LET ok == dapState = "JTAG" /\ inner = "JTAG"
       IN  reply' = Status(ok) /\ driven' = IF ok THEN Wires ELSE {}
    /\ UNCHANGED <<dapState, portVars, swjFreq, swoVars>>

SwoRequest(c, ok) ==
    /\ ~panicked
    /\ IF ok THEN SendControl(c) ELSE UNCHANGED swoVars
    /\ reply' = Status(ok) /\ driven' = {}
    /\ UNCHANGED <<dapState, portVars, swjFreq>>

SwoMode(m)     == SwoRequest([request EXCEPT !.mode = m], m \in Supported)
SwoBaudrate(b) == SwoRequest([request EXCEPT !.baud = b], TRUE)
SwoControl(on) == SwoRequest([request EXCEPT !.active = on], TRUE)

-----------------------------------------------------------------------------
(***************************************************************************)
(* SWOTask::run: the control value changed.  The SWO port opens if it can  *)
(* get its token; if not, the task keeps the control it had and the new    *)
(* one is not looked at again until the value changes once more.           *)
(***************************************************************************)
SwoOpens == Wants(request) /\ owner["swo"] \in {"free", "swo"}

AppliedAlways == TRUE
Applied == SwoOpens \/ ~Wants(request)

SwoTask ==
    /\ ~panicked /\ unseen
    /\ unseen' = FALSE /\ driven' = {}
    /\ control' = IF Applied THEN request ELSE control
    /\ owner' = IF SwoOpens THEN [owner EXCEPT !["swo"] = "swo"]
                ELSE IF ~Wants(request) /\ owner["swo"] = "swo"
                     THEN [owner EXCEPT !["swo"] = "free"]
                     ELSE owner
    /\ swoActive' = Wants(control')
    /\ UNCHANGED <<dapState, inner, driverFreq, panicked, swjFreq, request, reply>>

Command ==
    \/ ConnectSwd
    \/ ConnectJtag
    \/ Disconnect
    \/ SwjPins
    \/ \E f \in HostFreqs : SwjClock(f)
    \/ SwjSequence
    \/ SwdTraffic
    \/ JtagTraffic
    \/ \E m \in SWOModes : SwoMode(m)
    \/ \E b \in Bauds : SwoBaudrate(b)
    \/ \E on \in BOOLEAN : SwoControl(on)

Next == Command \/ SwoTask

\* The executor polls every task that was woken; the host owes no command.
Spec == Init /\ [][Next]_vars /\ WF_vars(SwoTask)

-----------------------------------------------------------------------------
(* What must hold. *)

\* Every variable keeps its type; in particular a driver's divider is within the
\* range its set_frequency computes.
TypeOK ==
    /\ dapState \in {"Disconnected", "SWD", "JTAG"}
    /\ inner \in {"Pins", "SWD", "JTAG"}
    /\ owner \in [Wires -> Users \cup {"free"}]
    /\ swjFreq \in 0..MaxFreq
    /\ driverFreq \in (MinFreq..MaxFreq) \cup {Undivided}
    /\ request \in Controls /\ control \in Controls
    /\ unseen \in BOOLEAN /\ swoActive \in BOOLEAN /\ panicked \in BOOLEAN
    /\ reply \in {"ok", "err"} /\ driven \in SUBSET Wires

\* assert_swd and assert_swj expect() that SWD can always be opened, whatever
\* is open and whether or not a capture runs ("should always be able to open
\* swd").
SwdAlwaysOpens == ~panicked

\* The operators of a JTAG Transfer ignore what the port returns, so the debug
\* port must believe in JTAG exactly when the JTAG driver is open.
JtagAgreement == dapState = "JTAG" <=> inner = "JTAG"

\* The debug port comes to believe in SWD with no SWD driver open only by a
\* Connect to JTAG that was refused, and that Connect is answered with an error.
DesyncOnlyByRefusal ==
    [][ dapState' = "SWD" /\ inner' # "SWD" /\ ~(dapState = "SWD" /\ inner # "SWD")
        => inner = "SWD" /\ inner' = "Pins" /\ reply' = "err" ]_vars

\* Whatever the host commands while a capture runs, the SWO port keeps its
\* wires until its own task closes it, and no command toggles them.
CaptureUndisturbed ==
    [][ owner["swo"] = "swo"
        => /\ "swo" \notin driven'
           /\ owner'["swo"] # "swo" => unseen /\ ~Wants(request) /\ owner'["swo"] = "free" ]_vars

\* The capture the task believes in, the one SWO_Status reports and the open
\* SWO port are the same: the task never polls a closed port, which would
\* return nothing without ever yielding to the executor.
CaptureIsReal ==
    /\ swoActive <=> owner["swo"] = "swo"
    /\ Wants(control) <=> owner["swo"] = "swo"

\* A frequency in the range of the dividers is the one the open driver clocks
\* at, across every opening of another driver.
SupportedFreqIsDriven ==
    inner # "Pins" /\ swjFreq >= MinFreq => driverFreq = swjFreq

\* A running capture is retuned or stopped as the last request asks.
CaptureFollowsRequest ==
    \A c \in Controls :
        request = c /\ owner["swo"] = "swo" ~> control = c \/ request # c

\* The tokens are an arbiter of the two groups of wires.
Arbiter == INSTANCE WireArbiter WITH Free <- "free"
ArbitratesWires == Arbiter!ArbiterSpec

=============================================================================

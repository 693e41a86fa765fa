-------------------------- MODULE AccessPortProofs --------------------------
(***************************************************************************)
(* Proofs about AccessPort, for every set of frequencies and baud rates,   *)
(* and about PioPort, the driver below it, for every width of a word,      *)
(* every depth of the queues and every number of bits.                     *)
(*                                                                         *)
(* The first argument rests on one invariant, Ownership: the token of the  *)
(* debug wires never leaves the access port between two steps, and the     *)
(* token of the trace wires is with the SWO port exactly while the SWO     *)
(* task applies a control value that asks for capture.                     *)
(*                                                                         *)
(* The second, PioInv, reads the queue of words as a trail: each word      *)
(* leads from one place in a call to the next, from the place of the state *)
(* machine to that of the call.  The state machine is at its place with    *)
(* the bits that are left, and has pushed the words that follow from the   *)
(* bits it has clocked.                                                    *)
(***************************************************************************)
EXTENDS AccessPort, PioPort, SequenceTheorems, TLAPS

\* Each driver holds the tokens of the wires it drives.
Ownership ==
    /\ owner["swd"] = "port"
    /\ inner = "JTAG" => owner["swo"] = "port"
    /\ inner = "SWD"  => owner["swo"] # "port"
    /\ Wants(control) <=> owner["swo"] = "swo"
    /\ swoActive <=> Wants(control)

\* The inductive invariant.
IInv ==
    /\ TypeOK
    /\ Ownership
    /\ SwdAlwaysOpens
    /\ JtagAgreement
    /\ SupportedFreqIsDriven

-----------------------------------------------------------------------------

\* What a driver's divider can become: a rate in its range, or what it was.
LEMMA DividerRange ==
    ASSUME NEW f \in Nat, NEW old \in (MinFreq..MaxFreq) \cup {Undivided}
    PROVE  /\ Divider(f, old) \in (MinFreq..MaxFreq) \cup {Undivided}
           /\ f \in MinFreq..MaxFreq => Divider(f, old) = f
BY DEF Divider

\* The clock a driver opens with.
LEMMA OpeningClock ==
    ASSUME IInv
    PROVE  /\ Divider(swjFreq, Undivided) \in (MinFreq..MaxFreq) \cup {Undivided}
           /\ swjFreq >= MinFreq => Divider(swjFreq, Undivided) = swjFreq
<1>1. swjFreq \in Nat /\ swjFreq <= MaxFreq /\ MinFreq \in Nat /\ MaxFreq \in Nat
  BY FreqAssumption DEF IInv, TypeOK
<1>2. swjFreq >= MinFreq => swjFreq \in MinFreq..MaxFreq
  BY <1>1
<1> QED
  BY <1>1, <1>2, DividerRange

\* Dropping the open driver frees what the port held and nothing else.
LEMMA DroppedTokens ==
    ASSUME IInv
    PROVE  /\ Dropped \in [Wires -> Users \cup {"free"}]
           /\ Dropped["swd"] = "free"
           /\ Dropped["swo"] = IF owner["swo"] = "port" THEN "free" ELSE owner["swo"]
           /\ owner["swo"] \in {"port", "swo", "free"}
BY DEF IInv, TypeOK, Ownership, Dropped, Wires, Users

\* The part of the invariant about the access port's own state.
PortInv ==
    /\ inner \in {"Pins", "SWD", "JTAG"}
    /\ owner \in [Wires -> Users \cup {"free"}]
    /\ driverFreq \in (MinFreq..MaxFreq) \cup {Undivided}
    /\ panicked = FALSE
    /\ owner["swd"] = "port"
    /\ inner = "JTAG" => owner["swo"] = "port"
    /\ inner = "SWD"  => owner["swo"] # "port"
    /\ SupportedFreqIsDriven

\* What every change of driver guarantees.
Reopened ==
    /\ PortInv'
    /\ owner["swo"] = "swo" <=> owner'["swo"] = "swo"

\* OpenPins leaves the port well-formed and the SWO port's wires with the SWO port.
LEMMA OpenPinsPost ==
    ASSUME IInv, OpenPins, swjFreq' = swjFreq
    PROVE  Reopened /\ inner' = "Pins"
<1> USE DroppedTokens DEF Wires, Users
<1>1. owner' \in [Wires -> Users \cup {"free"}] /\ owner'["swd"] = "port"
  BY DEF OpenPins
<1>2. owner["swo"] = "swo" <=> owner'["swo"] = "swo"
  BY DEF OpenPins
<1>3. inner' = "Pins" /\ driverFreq' = Undivided /\ panicked' = FALSE
  BY DEF OpenPins, IInv, TypeOK, SwdAlwaysOpens
<1> QED
  BY <1>1, <1>2, <1>3 DEF Reopened, PortInv, SupportedFreqIsDriven

\* So does OpenSwd, which never finds the token of the debug wires taken.
LEMMA OpenSwdPost ==
    ASSUME IInv, OpenSwd, swjFreq' = swjFreq
    PROVE  Reopened /\ inner' = "SWD"
<1>1. owner' \in [Wires -> Users \cup {"free"}] /\ owner'["swd"] = "port"
      /\ owner'["swo"] = Dropped["swo"]
  BY DroppedTokens DEF OpenSwd, Wires, Users
<1>2. owner["swo"] = "swo" <=> owner'["swo"] = "swo"
  BY <1>1, DroppedTokens
<1>3. owner'["swo"] # "port"
  BY <1>1, DroppedTokens
<1>4. inner' = "SWD" /\ panicked' = FALSE
  BY DroppedTokens DEF OpenSwd
<1>5. /\ driverFreq' \in (MinFreq..MaxFreq) \cup {Undivided}
      /\ swjFreq >= MinFreq => driverFreq' = swjFreq
  BY OpeningClock DEF OpenSwd
<1> QED
  BY <1>1, <1>2, <1>3, <1>4, <1>5 DEF Reopened, PortInv, SupportedFreqIsDriven

\* So does OpenJtag, which opens JTAG or falls back to the pins.
LEMMA OpenJtagPost ==
    ASSUME IInv, OpenJtag, swjFreq' = swjFreq
    PROVE  Reopened /\ inner' \in {"JTAG", "Pins"}
<1>1. CASE ~JtagOpenable
  BY <1>1, OpenPinsPost DEF OpenJtag
<1>2. CASE JtagOpenable
  <2>1. owner' = [w \in Wires |-> "port"] /\ inner' = "JTAG" /\ panicked' = FALSE
    BY <1>2 DEF OpenJtag, IInv, TypeOK, SwdAlwaysOpens
  <2>2. owner["swo"] # "swo"
    BY <1>2, DroppedTokens DEF JtagOpenable, Wires
  <2>3. /\ driverFreq' \in (MinFreq..MaxFreq) \cup {Undivided}
        /\ swjFreq >= MinFreq => driverFreq' = swjFreq
    BY <1>2, OpeningClock DEF OpenJtag
  <2> QED
    BY <2>1, <2>2, <2>3 DEF Reopened, PortInv, SupportedFreqIsDriven, Wires, Users
<1> QED
  BY <1>1, <1>2

\* So does a step that leaves the port alone.
LEMMA UnchangedPort ==
    ASSUME IInv, UNCHANGED portVars, swjFreq' = swjFreq
    PROVE  Reopened
BY DEF Reopened, PortInv, IInv, TypeOK, Ownership, SwdAlwaysOpens, SupportedFreqIsDriven,
       portVars

\* With the port reopened or untouched and the SWO task idle, what is left of
\* the invariant is the debug port's state and the control watch.
LEMMA CommandPreserves ==
    ASSUME IInv, Reopened, UNCHANGED <<swjFreq, control, swoActive>>,
           request' \in Controls, unseen' \in BOOLEAN,
           dapState' \in {"Disconnected", "SWD", "JTAG"},
           dapState' = "JTAG" <=> inner' = "JTAG",
           reply' \in {"ok", "err"}, driven' \in SUBSET Wires
    PROVE  IInv'
<1>1. TypeOK'
  BY DEF IInv, TypeOK, Reopened, PortInv
<1>2. Ownership'
  BY DEF IInv, Ownership, Reopened, PortInv, Wants
<1>3. (SwdAlwaysOpens /\ JtagAgreement /\ SupportedFreqIsDriven)'
  BY DEF Reopened, PortInv, SwdAlwaysOpens, JtagAgreement
<1> QED
  BY <1>1, <1>2, <1>3 DEF IInv

\* A control value that is sent is one the watch can hold, and nothing is applied yet.
LEMMA ControlSent ==
    ASSUME IInv, NEW c \in Controls, SendControl(c)
    PROVE  request' \in Controls /\ unseen' \in BOOLEAN /\ UNCHANGED <<control, swoActive>>
BY DEF SendControl, IInv, TypeOK

\* The two statuses of a StandardResponse.
LEMMA StatusIsReply == \A ok \in BOOLEAN : Status(ok) \in {"ok", "err"}
BY DEF Status

-----------------------------------------------------------------------------
(* One lemma for each kind of step. *)

\* The state PioAccessPort::new, DAP::new and SWO::new build.
LEMMA InitEstablishes == Init => IInv
<1> SUFFICES ASSUME Init PROVE IInv
  OBVIOUS
<1>1. PICK b \in Bauds : request = [mode |-> "Off", active |-> FALSE, baud |-> b]
  BY DEF Init
<1>2. request \in Controls /\ control \in Controls /\ ~Wants(control)
  BY <1>1 DEF Init, Controls, Supported, Wants
<1>3. swjFreq \in 0..MaxFreq
  BY FreqAssumption DEF Init
<1>4. owner \in [Wires -> Users \cup {"free"}] /\ owner["swd"] = "port" /\ owner["swo"] = "port"
  BY DEF Init, Wires, Users
<1>5. TypeOK
  BY <1>2, <1>3, <1>4 DEF Init, TypeOK
<1>6. Ownership
  BY <1>2, <1>4 DEF Init, Ownership
<1> QED
  BY <1>5, <1>6 DEF Init, IInv, SwdAlwaysOpens, JtagAgreement, SupportedFreqIsDriven

\* A step that leaves the debug port's state and the driver alone keeps their agreement.
LEMMA SameAgreement ==
    ASSUME IInv, UNCHANGED <<dapState, inner>>
    PROVE  /\ dapState' \in {"Disconnected", "SWD", "JTAG"}
           /\ dapState' = "JTAG" <=> inner' = "JTAG"
BY DEF IInv, TypeOK, JtagAgreement

\* A step that leaves the SWO watch alone keeps its types.
LEMMA SameSwo ==
    ASSUME IInv, UNCHANGED swoVars
    PROVE  request' \in Controls /\ unseen' \in BOOLEAN /\ UNCHANGED <<control, swoActive>>
BY DEF IInv, TypeOK, swoVars

\* handle_connect for SWD.
LEMMA ConnectSwdStep ==
    ASSUME IInv, ConnectSwd
    PROVE  IInv' /\ Reopened
<1>1. Reopened /\ inner' = "SWD"
  <2>1. CASE inner = "SWD"
    BY <2>1, UnchangedPort DEF ConnectSwd, AssertSwd, portVars
  <2>2. CASE inner # "SWD"
    BY <2>2, OpenSwdPost DEF ConnectSwd, AssertSwd
  <2> QED
    BY <2>1, <2>2
<1> QED
  BY <1>1, SameSwo, CommandPreserves DEF ConnectSwd, Wires

\* handle_connect for JTAG, opened or refused.
LEMMA ConnectJtagStep ==
    ASSUME IInv, ConnectJtag
    PROVE  IInv' /\ Reopened
<1>1. Reopened /\ inner' \in {"JTAG", "Pins"}
  <2>1. CASE inner = "JTAG"
    BY <2>1, UnchangedPort DEF ConnectJtag, AssertJtag, portVars
  <2>2. CASE inner # "JTAG"
    BY <2>2, OpenJtagPost DEF ConnectJtag, AssertJtag
  <2> QED
    BY <2>1, <2>2
<1>2. reply' \in {"ok", "err"} /\ driven' \in SUBSET Wires
  BY StatusIsReply DEF ConnectJtag
<1>3. dapState' \in {"Disconnected", "SWD", "JTAG"} /\ (dapState' = "JTAG" <=> inner' = "JTAG")
  \* A refusal finds dap.state other than JTAG, for JTAG would be open.
  <2>1. CASE inner = "JTAG"
    BY <2>1 DEF ConnectJtag, ConnectedJtag, AssertJtag, portVars
  <2>2. CASE inner # "JTAG"
    BY <2>2 DEF ConnectJtag, ConnectedJtag, IInv, TypeOK, JtagAgreement
  <2> QED
    BY <2>1, <2>2
<1> QED
  BY <1>1, <1>2, <1>3, SameSwo, CommandPreserves DEF ConnectJtag

\* handle_disconnect, which also asks for the end of the capture.
LEMMA DisconnectStep ==
    ASSUME IInv, Disconnect
    PROVE  IInv' /\ Reopened
<1> DEFINE off == [request EXCEPT !.mode = "Off"]
<1>1. Reopened /\ inner' # "JTAG"
  <2>1. CASE dapState = "Disconnected"
    BY <2>1, UnchangedPort DEF Disconnect, portVars, IInv, JtagAgreement
  <2>2. CASE dapState # "Disconnected" /\ inner = "Pins"
    BY <2>2, UnchangedPort DEF Disconnect, AssertPins, portVars
  <2>3. CASE dapState # "Disconnected" /\ inner # "Pins"
    BY <2>3, OpenPinsPost DEF Disconnect, AssertPins
  <2> QED
    BY <2>1, <2>2, <2>3
<1>2. off \in Controls
  BY DEF IInv, TypeOK, Controls, Supported
<1>3. request' \in Controls /\ unseen' \in BOOLEAN /\ UNCHANGED <<control, swoActive>>
  BY <1>2, ControlSent DEF Disconnect
<1> QED
  BY <1>1, <1>3, CommandPreserves DEF Disconnect

\* SWJ_Sequence, which opens SWD over plain pins.
LEMMA SwjSequenceStep ==
    ASSUME IInv, SwjSequence
    PROVE  IInv' /\ Reopened
<1>1. Reopened /\ (dapState' = "JTAG" <=> inner' = "JTAG")
  <2>1. CASE inner = "Pins"
    BY <2>1, OpenSwdPost DEF SwjSequence, AssertSwj, IInv, JtagAgreement
  <2>2. CASE inner # "Pins"
    BY <2>2, UnchangedPort DEF SwjSequence, AssertSwj, portVars, IInv, JtagAgreement
  <2> QED
    BY <2>1, <2>2
<1> QED
  BY <1>1, SameSwo, CommandPreserves DEF SwjSequence, Wires, IInv, TypeOK

\* Commands that leave the driver, the frequency and the SWO control alone.
LEMMA TrafficStep ==
    ASSUME IInv, SwjPins \/ SwdTraffic \/ JtagTraffic
    PROVE  IInv' /\ Reopened
<1>1. UNCHANGED <<dapState, portVars, swjFreq, swoVars>>
  BY DEF SwjPins, SwdTraffic, JtagTraffic
<1>2. Reopened /\ UNCHANGED inner
  BY <1>1, UnchangedPort DEF portVars
<1>3. reply' \in {"ok", "err"} /\ driven' \in SUBSET Wires
  <2>1. CASE SwjPins
    BY <2>1 DEF SwjPins, PinsDrive
  <2>2. CASE SwdTraffic
    BY <2>2, StatusIsReply DEF SwdTraffic, Wires
  <2>3. CASE JtagTraffic
    BY <2>3, StatusIsReply DEF JtagTraffic
  <2> QED
    BY <2>1, <2>2, <2>3
<1> QED
  BY <1>1, <1>2, <1>3, SameSwo, SameAgreement, CommandPreserves

\* The commands that change the SWO control all send a request.
LEMMA SwoRequestStep ==
    ASSUME IInv, NEW c, NEW ok \in BOOLEAN, ok => c \in Controls, SwoRequest(c, ok)
    PROVE  IInv' /\ Reopened
<1>1. Reopened /\ UNCHANGED inner
  BY UnchangedPort DEF SwoRequest, portVars
<1>2. request' \in Controls /\ unseen' \in BOOLEAN /\ UNCHANGED <<control, swoActive>>
  BY ControlSent, SameSwo DEF SwoRequest
<1>3. reply' \in {"ok", "err"} /\ driven' \in SUBSET Wires
  BY StatusIsReply DEF SwoRequest
<1> QED
  BY <1>1, <1>2, <1>3, SameAgreement, CommandPreserves DEF SwoRequest

\* SWO_Mode, SWO_Baudrate and SWO_Control are such requests.
LEMMA SwoSetterStep ==
    ASSUME IInv,
           \/ \E m \in SWOModes : SwoMode(m)
           \/ \E b \in Bauds : SwoBaudrate(b)
           \/ \E on \in BOOLEAN : SwoControl(on)
    PROVE  IInv' /\ Reopened
<1>0. request \in Controls
  BY DEF IInv, TypeOK
<1>1. CASE \E m \in SWOModes : SwoMode(m)
  <2>1. PICK m \in SWOModes : SwoMode(m)
    BY <1>1
  <2>2. m \in Supported => [request EXCEPT !.mode = m] \in Controls
    BY <1>0 DEF Controls
  <2> QED
    <3> DEFINE c == [request EXCEPT !.mode = m]
               ok == m \in Supported
    <3>1. SwoRequest(c, ok) /\ ok \in BOOLEAN /\ (ok => c \in Controls)
      BY <2>1, <2>2 DEF SwoMode
    <3> HIDE DEF c, ok
    <3> QED
      BY <3>1, SwoRequestStep
<1>2. CASE \E b \in Bauds : SwoBaudrate(b)
  <2>1. PICK b \in Bauds : SwoBaudrate(b)
    BY <1>2
  <2>2. [request EXCEPT !.baud = b] \in Controls
    BY <1>0 DEF Controls
  <2> QED
    BY <2>1, <2>2, SwoRequestStep DEF SwoBaudrate
<1>3. CASE \E on \in BOOLEAN : SwoControl(on)
  <2>1. PICK on \in BOOLEAN : SwoControl(on)
    BY <1>3
  <2>2. [request EXCEPT !.active = on] \in Controls
    BY <1>0 DEF Controls
  <2> QED
    BY <2>1, <2>2, SwoRequestStep DEF SwoControl
<1> QED
  BY <1>1, <1>2, <1>3

\* The one command that changes the frequency: what the driver clocks at
\* follows it whenever the driver can make it.
LEMMA SwjClockStep ==
    ASSUME IInv, NEW f \in HostFreqs, SwjClock(f)
    PROVE  IInv' /\ UNCHANGED owner
<1>1. f \in Nat /\ MinFreq \in Nat /\ MaxFreq \in Nat
  BY FreqAssumption
<1>2. UNCHANGED <<dapState, inner, owner, panicked, swoVars>> /\ driven' = {}
  BY DEF SwjClock
<1>3. reply' \in {"ok", "err"}
  BY DEF SwjClock, Status
<1>4. /\ swjFreq' \in 0..MaxFreq
      /\ driverFreq' \in (MinFreq..MaxFreq) \cup {Undivided}
      /\ inner # "Pins" /\ swjFreq' >= MinFreq => driverFreq' = swjFreq'
  <2>1. CASE f <= MaxFreq
    <3>1. swjFreq' = f /\ driverFreq' = IF inner = "Pins" THEN driverFreq ELSE Divider(f, driverFreq)
      BY <2>1 DEF SwjClock
    <3>2. f \in 0..MaxFreq /\ (f >= MinFreq => f \in MinFreq..MaxFreq)
      BY <1>1, <2>1
    <3>3. driverFreq \in (MinFreq..MaxFreq) \cup {Undivided}
      BY DEF IInv, TypeOK
    <3>4. /\ Divider(f, driverFreq) \in (MinFreq..MaxFreq) \cup {Undivided}
          /\ f \in MinFreq..MaxFreq => Divider(f, driverFreq) = f
      BY <1>1, <3>3, DividerRange
    <3> QED
      BY <3>1, <3>2, <3>3, <3>4
  <2>2. CASE ~(f <= MaxFreq)
    BY <2>2 DEF SwjClock, IInv, TypeOK, SupportedFreqIsDriven
  <2> QED
    BY <2>1, <2>2
<1>5. TypeOK'
  BY <1>2, <1>3, <1>4 DEF IInv, TypeOK, swoVars
<1>6. Ownership'
  BY <1>2 DEF IInv, Ownership, swoVars, Wants
<1> QED
  BY <1>2, <1>4, <1>5, <1>6 DEF IInv, SwdAlwaysOpens, JtagAgreement, SupportedFreqIsDriven

\* The SWO port opens only where no driver holds its wires, so never under JTAG.
LEMMA SwoTaskStep ==
    ASSUME IInv, SwoTask
    PROVE  IInv'
<1>1. /\ owner' \in [Wires -> Users \cup {"free"}] /\ owner'["swd"] = "port"
      /\ owner'["swo"] = IF SwoOpens THEN "swo"
                         ELSE IF ~Wants(request) /\ owner["swo"] = "swo" THEN "free"
                              ELSE owner["swo"]
  BY DEF SwoTask, IInv, TypeOK, Ownership, Wires, Users
<1>2. /\ control' = IF Applied THEN request ELSE control
      /\ control' \in Controls
      /\ swoActive' <=> Wants(control')
      /\ swoActive' \in BOOLEAN
  <2>1. Wants(control') \in BOOLEAN
    BY DEF Wants
  <2> QED
    BY <2>1 DEF SwoTask, IInv, TypeOK
<1>3. Wants(control') <=> owner'["swo"] = "swo"
  <2>1. CASE SwoOpens
    BY <2>1, <1>1, <1>2 DEF Applied, SwoOpens
  <2>2. CASE ~SwoOpens /\ ~Wants(request)
    BY <2>2, <1>1, <1>2 DEF Applied
  <2>3. CASE ~SwoOpens /\ Wants(request)
    \* The refused start left the old control in force.
    BY <2>3, <1>1, <1>2 DEF Applied, IInv, Ownership
  <2> QED
    BY <2>1, <2>2, <2>3
<1>4. /\ inner = "JTAG" => owner'["swo"] = "port"
      /\ inner = "SWD" => owner'["swo"] # "port"
  BY <1>1 DEF IInv, Ownership, SwoOpens
<1>5. UNCHANGED <<dapState, inner, driverFreq, panicked, swjFreq, request, reply>>
      /\ unseen' = FALSE /\ driven' = {}
  BY DEF SwoTask
<1>6. TypeOK'
  BY <1>1, <1>2, <1>5 DEF IInv, TypeOK
<1>7. Ownership'
  BY <1>1, <1>2, <1>3, <1>4, <1>5 DEF Ownership
<1> QED
  BY <1>5, <1>6, <1>7 DEF IInv, SwdAlwaysOpens, JtagAgreement, SupportedFreqIsDriven

-----------------------------------------------------------------------------
(* The theorems. *)

\* Every step, or stutter, keeps the invariant: one case for each action.
LEMMA Inductive == IInv /\ [Next]_vars => IInv'
<1> SUFFICES ASSUME IInv, [Next]_vars PROVE IInv'
  OBVIOUS
<1>1. CASE ConnectSwd
  BY <1>1, ConnectSwdStep
<1>2. CASE ConnectJtag
  BY <1>2, ConnectJtagStep
<1>3. CASE Disconnect
  BY <1>3, DisconnectStep
<1>4. CASE SwjPins \/ SwdTraffic \/ JtagTraffic
  BY <1>4, TrafficStep
<1>5. CASE \E f \in HostFreqs : SwjClock(f)
  BY <1>5, SwjClockStep
<1>6. CASE SwjSequence
  BY <1>6, SwjSequenceStep
<1>7. CASE \/ \E m \in SWOModes : SwoMode(m)
           \/ \E b \in Bauds : SwoBaudrate(b)
           \/ \E on \in BOOLEAN : SwoControl(on)
  BY <1>7, SwoSetterStep
<1>8. CASE SwoTask
  BY <1>8, SwoTaskStep
<1>9. CASE UNCHANGED vars
  BY <1>9 DEF vars, portVars, swoVars, IInv, TypeOK, Ownership, SwdAlwaysOpens, JtagAgreement,
              SupportedFreqIsDriven, Wants
<1> QED
  BY <1>1, <1>2, <1>3, <1>4, <1>5, <1>6, <1>7, <1>8, <1>9 DEF Next, Command

\* The inductive invariant holds in every reachable state: each driver holds the
\* tokens of its wires and the SWO port holds its own exactly while it captures.
THEOREM Invariance == Spec => []IInv
BY InitEstablishes, Inductive, PTL DEF Spec

\* Every variable keeps its type.
THEOREM TypeCorrect == Spec => []TypeOK
<1>1. IInv => TypeOK
  BY DEF IInv
<1> QED
  BY <1>1, Invariance, PTL

\* The expect() calls of assert_swd and assert_swj never fail.
THEOREM SwdNeverPanics == Spec => []SwdAlwaysOpens
<1>1. IInv => SwdAlwaysOpens
  BY DEF IInv
<1> QED
  BY <1>1, Invariance, PTL

\* The debug port believes in JTAG exactly when the JTAG driver is open.
THEOREM JtagAgrees == Spec => []JtagAgreement
<1>1. IInv => JtagAgreement
  BY DEF IInv
<1> QED
  BY <1>1, Invariance, PTL

\* A capture is reported exactly while the SWO port is open.
THEOREM CaptureReal == Spec => []CaptureIsReal
<1>1. IInv => CaptureIsReal
  BY DEF IInv, Ownership, CaptureIsReal
<1> QED
  BY <1>1, Invariance, PTL

\* Every frequency the dividers can make is the one the open driver clocks at.
THEOREM SupportedFreqDriven == Spec => []SupportedFreqIsDriven
<1>1. IInv => SupportedFreqIsDriven
  BY DEF IInv
<1> QED
  BY <1>1, Invariance, PTL

-----------------------------------------------------------------------------
(* What single steps do. *)

\* A step other than the SWO task's moves no wires to or from the SWO port.
LEMMA CommandKeepsCapture ==
    ASSUME IInv, Command
    PROVE  owner["swo"] = "swo" <=> owner'["swo"] = "swo"
<1>1. CASE \E f \in HostFreqs : SwjClock(f)
  BY <1>1, SwjClockStep
<1>2. CASE ~\E f \in HostFreqs : SwjClock(f)
  <2>1. Reopened
    BY <1>2, ConnectSwdStep, ConnectJtagStep, DisconnectStep, TrafficStep, SwjSequenceStep,
       SwoSetterStep DEF Command
  <2> QED
    BY <2>1 DEF Reopened
<1> QED
  BY <1>1, <1>2

\* No command toggles the trace wires while the SWO port has them.
LEMMA CommandAvoidsCapture ==
    ASSUME IInv, Command, owner["swo"] = "swo"
    PROVE  "swo" \notin driven'
<1>1. CASE SwjPins
  BY <1>1 DEF SwjPins, PinsDrive
<1>2. CASE JtagTraffic
  BY <1>2 DEF JtagTraffic, IInv, Ownership
<1>3. CASE SwdTraffic
  BY <1>3 DEF SwdTraffic
<1>4. CASE \/ \E m \in SWOModes : SwoMode(m)
           \/ \E b \in Bauds : SwoBaudrate(b)
           \/ \E on \in BOOLEAN : SwoControl(on)
  BY <1>4 DEF SwoMode, SwoBaudrate, SwoControl, SwoRequest
<1>5. CASE ConnectSwd \/ ConnectJtag \/ Disconnect \/ SwjSequence \/ \E f \in HostFreqs : SwjClock(f)
  BY <1>5 DEF ConnectSwd, ConnectJtag, Disconnect, SwjSequence, SwjClock
<1> QED
  BY <1>1, <1>2, <1>3, <1>4, <1>5 DEF Command

\* A running capture keeps its wires until its own task gives them up, and no
\* command toggles them.
THEOREM CaptureKept == Spec => CaptureUndisturbed
<1>1. IInv /\ [Next]_vars =>
        [ owner["swo"] = "swo"
          => /\ "swo" \notin driven'
             /\ owner'["swo"] # "swo" => unseen /\ ~Wants(request) /\ owner'["swo"] = "free" ]_vars
  <2> SUFFICES ASSUME IInv, Next, owner["swo"] = "swo"
               PROVE  /\ "swo" \notin driven'
                      /\ owner'["swo"] # "swo" => unseen /\ ~Wants(request) /\ owner'["swo"] = "free"
    OBVIOUS
  <2>1. CASE Command
    BY <2>1, CommandKeepsCapture, CommandAvoidsCapture
  <2>2. CASE SwoTask
    BY <2>2 DEF SwoTask, IInv, TypeOK, Wires
  <2> QED
    BY <2>1, <2>2 DEF Next
<1> QED
  BY <1>1, Invariance, PTL DEF Spec, CaptureUndisturbed

\* The debug port loses the SWD driver it believes in only by a refused
\* Connect to JTAG, which the host is told of.
THEOREM DesyncRefused == Spec => DesyncOnlyByRefusal
<1>1. IInv /\ [Next]_vars =>
        [ dapState' = "SWD" /\ inner' # "SWD" /\ ~(dapState = "SWD" /\ inner # "SWD")
          => inner = "SWD" /\ inner' = "Pins" /\ reply' = "err" ]_vars
  <2> SUFFICES ASSUME IInv, Next, dapState' = "SWD", inner' # "SWD",
                      ~(dapState = "SWD" /\ inner # "SWD")
               PROVE  inner = "SWD" /\ inner' = "Pins" /\ reply' = "err"
    OBVIOUS
  <2>1. CASE ConnectJtag
    <3>1. inner' # "JTAG" /\ dapState = "SWD" /\ inner = "SWD"
      BY <2>1, ConnectJtagStep DEF ConnectJtag, ConnectedJtag, IInv, JtagAgreement
    <3>2. OpenJtag
      BY <2>1, <3>1 DEF ConnectJtag, AssertJtag
    <3>3. swjFreq' = swjFreq /\ reply' = Status(inner' = "JTAG")
      BY <2>1 DEF ConnectJtag
    <3> QED
      BY <3>1, <3>2, <3>3, OpenJtagPost DEF Status
  <2>2. CASE ConnectSwd \/ Disconnect
    BY <2>2 DEF ConnectSwd, AssertSwd, OpenSwd, Disconnect, portVars
  <2>3. CASE SwjSequence
    BY <2>3 DEF SwjSequence, AssertSwj, OpenSwd, portVars
  <2>4. CASE SwjPins \/ SwdTraffic \/ JtagTraffic
    BY <2>4 DEF SwjPins, SwdTraffic, JtagTraffic, portVars
  <2>5. CASE \/ \E m \in SWOModes : SwoMode(m)
             \/ \E b \in Bauds : SwoBaudrate(b)
             \/ \E on \in BOOLEAN : SwoControl(on)
    BY <2>5 DEF SwoMode, SwoBaudrate, SwoControl, SwoRequest, portVars
  <2>6. CASE SwoTask \/ \E f \in HostFreqs : SwjClock(f)
    BY <2>6 DEF SwoTask, SwjClock
  <2> QED
    BY <2>1, <2>2, <2>3, <2>4, <2>5, <2>6 DEF Next, Command
<1> QED
  BY <1>1, Invariance, PTL DEF Spec, DesyncOnlyByRefusal

\* The token of the trace wires is the only one that moves, and it moves
\* through "free".
LEMMA TokenMoves ==
    ASSUME IInv, IInv', [Next]_vars
    PROVE  [Arbiter!ArbiterNext]_owner
<1>1. /\ owner \in [Wires -> Users \cup {"free"}] /\ owner' \in [Wires -> Users \cup {"free"}]
      /\ owner["swd"] = "port" /\ owner'["swd"] = "port"
  BY DEF IInv, TypeOK, Ownership
<1>2. \/ owner'["swo"] = owner["swo"]
      \/ owner["swo"] = "free" /\ owner'["swo"] \in Users
      \/ owner["swo"] \in Users /\ owner'["swo"] = "free"
  <2>1. CASE Command
    BY <2>1, <1>1, CommandKeepsCapture DEF Wires, Users
  <2>2. CASE SwoTask
    BY <2>2, <1>1 DEF SwoTask, SwoOpens, Wires, Users
  <2>3. CASE UNCHANGED vars
    BY <2>3 DEF vars, portVars
  <2> QED
    BY <2>1, <2>2, <2>3 DEF Next
<1>3. CASE owner'["swo"] = owner["swo"]
  BY <1>1, <1>3 DEF Wires
<1>4. CASE owner["swo"] = "free" /\ owner'["swo"] \in Users
  <2>1. Arbiter!Take(owner'["swo"], {"swo"})
    BY <1>1, <1>4 DEF Arbiter!Take, Wires
  <2> QED
    BY <2>1, <1>4 DEF Arbiter!ArbiterNext, Wires
<1>5. CASE owner["swo"] \in Users /\ owner'["swo"] = "free"
  <2>1. Arbiter!GiveUp(owner["swo"], {"swo"})
    BY <1>1, <1>5 DEF Arbiter!GiveUp, Wires
  <2> QED
    BY <2>1, <1>5 DEF Arbiter!ArbiterNext, Wires
<1> QED
  BY <1>2, <1>3, <1>4, <1>5

\* The access port, its drivers and the SWO task implement the arbiter.
THEOREM Arbitrates == Spec => ArbitratesWires
<1>1. IInv => Arbiter!ArbiterInit
  BY DEF IInv, TypeOK, Arbiter!ArbiterInit
<1> QED
  BY <1>1, TokenMoves, InitEstablishes, Invariance, PTL
  DEF Spec, ArbitratesWires, Arbiter!ArbiterSpec

-----------------------------------------------------------------------------
(* PioPort: the words of a call. *)

\* The bits of whole words.
Whole(w) == w * WordBits

RoutineNames == {"jtag", "swj_clock", "read_cmd", "write_cmd"}

\* The bits of a number of whole words, and their order.
LEMMA WholeFacts ==
    ASSUME NEW v \in Int, NEW w \in Int
    PROVE  /\ Whole(w) \in Int /\ Whole(0) = 0 /\ Whole(1) = WordBits
           /\ Whole(w + 1) = Whole(w) + WordBits /\ Whole(w - 1) = Whole(w) - WordBits
           /\ v < w => Whole(v) + WordBits <= Whole(w)
           /\ v <= w => Whole(v) <= Whole(w)
           /\ w >= 0 => Whole(w) \in Nat
<1>1. WordBits \in Nat \ {0}
  BY PioAssumption
<1>2. /\ Whole(w) \in Int /\ Whole(0) = 0 /\ Whole(1) = WordBits
      /\ Whole(w + 1) = Whole(w) + WordBits /\ Whole(w - 1) = Whole(w) - WordBits
  BY <1>1 DEF Whole
<1>3. ASSUME NEW n \in Nat PROVE n * WordBits \in Nat
  BY <1>1
<1>4. w >= 0 => Whole(w) \in Nat
  BY <1>3 DEF Whole
<1>5. v <= w => Whole(v) <= Whole(w)
  <2> SUFFICES ASSUME v <= w PROVE Whole(v) <= Whole(w)
    OBVIOUS
  <2>1. w - v \in Nat
    OBVIOUS
  <2>2. (w - v) * WordBits \in Nat
    BY <2>1, <1>3
  <2>3. Whole(w) = Whole(v) + (w - v) * WordBits
    BY <1>1 DEF Whole
  <2> QED
    BY <1>1, <1>2, <2>2, <2>3 DEF Whole
<1>6. v < w => Whole(v) + WordBits <= Whole(w)
  <2> SUFFICES ASSUME v < w PROVE Whole(v) + WordBits <= Whole(w)
    OBVIOUS
  <2>1. w - 1 - v \in Nat
    OBVIOUS
  <2>2. (w - 1 - v) * WordBits \in Nat
    BY <2>1, <1>3
  <2>3. Whole(w) = Whole(v) + WordBits + (w - 1 - v) * WordBits
    BY <1>1 DEF Whole
  <2> QED
    BY <1>1, <1>2, <2>2, <2>3 DEF Whole
<1> QED
  BY <1>2, <1>4, <1>5, <1>6

\* The words of a call hold all its bits, and the last of them at least one.
LEMMA WordCountFacts ==
    ASSUME NEW bits \in Nat \ {0}
    PROVE  /\ WordCount(bits) \in Nat \ {0}
           /\ Whole(WordCount(bits) - 1) < bits /\ bits <= Whole(WordCount(bits))
           /\ ExtraPull(bits) <=> Whole(WordCount(bits)) = bits
<1> DEFINE c == WordCount(bits)
<1>1. WordBits \in Nat \ {0}
  BY PioAssumption
<1>2. c \in Int /\ Whole(c) <= bits + WordBits - 1 /\ bits + WordBits - 1 < Whole(c) + WordBits
  BY <1>1 DEF WordCount, Whole
<1> HIDE DEF c
<1>3. Whole(c - 1) < bits /\ bits <= Whole(c)
  <2>1. Whole(c - 1) = Whole(c) - WordBits
    BY <1>2, WholeFacts
  <2>2. Whole(c) \in Int
    BY <1>2, WholeFacts
  <2> QED
    BY <1>1, <1>2, <2>1, <2>2
<1>4. c \in Nat \ {0}
  <2>1. c <= 0 => Whole(c) <= Whole(0) /\ Whole(0) = 0
    BY <1>2, WholeFacts
  <2>2. Whole(c) \in Int
    BY <1>2, WholeFacts
  <2> QED
    BY <1>2, <1>3, <2>1, <2>2
<1>5. ExtraPull(bits) <=> Whole(c) = bits
  <2> DEFINE q == bits \div WordBits
             r == bits % WordBits
  <2>1. q \in Int /\ r \in 0..(WordBits - 1) /\ bits = q * WordBits + r
    BY <1>1
  <2>2. ExtraPull(bits) <=> r = 0
    BY DEF ExtraPull
  <2> HIDE DEF q, r
  <2>3. Whole(q) = q * WordBits /\ Whole(q) \in Int /\ Whole(c) \in Int
    BY <1>2, <2>1, WholeFacts DEF Whole
  <2>4. /\ q < c => Whole(q) + WordBits <= Whole(c)
        /\ c < q => Whole(c) + WordBits <= Whole(q)
    BY <1>2, <2>1, WholeFacts
  <2>5. ASSUME r = 0 PROVE Whole(c) = bits
    BY <1>1, <1>2, <1>3, <2>1, <2>3, <2>4, <2>5
  <2>6. ASSUME Whole(c) = bits PROVE r = 0
    BY <1>1, <1>2, <2>1, <2>3, <2>4, <2>6
  <2> QED
    BY <2>2, <2>5, <2>6
<1> QED
  BY <1>3, <1>4, <1>5 DEF c
-----------------------------------------------------------------------------

\* The types of the state.
Cells == {None} \cup [routine : RoutineNames, x : Nat] \cup [routine : RoutineNames, bit : Nat]
Words == Seq(Cells)
FullWords == {word \in Words : Len(word) = WordBits}
Ops == {"command", "push", "pull", "extra", "drain", "none"}
Pcs == RoutineNames \cup {"idle", "branch", "write_bitloop", "jtag_in", "push", "lost"}
Calls == [routine : RoutineNames, bits : Nat \ {0}, capture : BOOLEAN]
Pending == [routine : RoutineNames, bits : Nat \ {0}, next : Nat \ {0}]
Counts == 0..(WordBits - 1)
StateMachines ==
    [pc : Pcs, x : Nat, osr : Words, isr : FullWords, count : Counts]

CallOK ==
    /\ port \in DOMAIN Routines
    /\ cpu \in [op : Ops, word : Nat]
    /\ call \in {None} \cup Calls
    /\ call = None \/ cpu.op = "none" => cpu = Returned
    /\ cpu.op \in {"push", "pull"} => cpu.word \in 1..WordCount(call.bits)
    /\ call # None => call.routine \in Routines[port]
    /\ data \in Words

WireOK ==
    /\ tx \in Seq(Words) /\ rx \in Seq(FullWords)
    /\ sm \in StateMachines
    /\ due \in Seq(Pending)
    /\ clocked \in [bit : Cells, due : Cells]

PioTypeOK == CallOK /\ WireOK

\* A sequence is empty when its length is 0.
LEMMA NotEmpty ==
    ASSUME NEW S, NEW s \in Seq(S)
    PROVE  /\ Len(s) \in Nat /\ (s # <<>> <=> Len(s) > 0)
           /\ s # <<>> => s[1] \in S /\ Head(s) = s[1]
OBVIOUS

\* A command is a word, and tells its routine and its bits.
LEMMA CellFacts ==
    ASSUME NEW r \in RoutineNames, NEW k \in Nat, NEW b \in Nat \ {0}
    PROVE  /\ Bit(r, k) \in Cells /\ CommandWord(r, b) \in FullWords
           /\ IsCommand(CommandWord(r, b))
           /\ CommandWord(r, b)[1].routine = r /\ CommandWord(r, b)[1].x = b - 1
           /\ None \in Cells
<1>1. WordBits \in Nat \ {0}
  BY PioAssumption
<1>2. [routine |-> r, x |-> b - 1] \in Cells
  BY DEF Cells
<1>3. CommandWord(r, b) \in FullWords /\ CommandWord(r, b)[1] = [routine |-> r, x |-> b - 1]
  BY <1>1, <1>2 DEF CommandWord, FullWords, Words
<1>4. "x" \in DOMAIN CommandWord(r, b)[1]
  BY <1>3
<1>5. CommandWord(r, b) # <<>>
  BY <1>1, <1>3 DEF FullWords
<1> QED
  BY <1>2, <1>3, <1>4, <1>5 DEF Cells, Bit, IsCommand

\* A word of data holds its bits of the call.
LEMMA DataWordFacts ==
    ASSUME NEW r \in RoutineNames, NEW w \in Nat \ {0}
    PROVE  /\ DataWord(r, w) \in FullWords
           /\ \A k \in 1..WordBits : DataWord(r, w)[k] = Bit(r, Whole(w - 1) + k)
<1>1. WordBits \in Nat \ {0} /\ Whole(w - 1) \in Nat
  BY PioAssumption, WholeFacts
<1>2. \A k \in 1..WordBits : Bit(r, Whole(w - 1) + k) \in Cells
  BY <1>1, CellFacts
<1>3. DataWord(r, w) = [k \in 1..WordBits |-> Bit(r, Whole(w - 1) + k)]
  BY DEF DataWord, Whole
<1> QED
  BY <1>1, <1>2, <1>3 DEF FullWords, Words

\* The bits in a word are no more than it has room for.
LEMMA InWordFacts ==
    ASSUME NEW b \in Nat, NEW w \in Int
    PROVE  /\ InWord(b, w) \in Int /\ InWord(b, w) <= WordBits
           /\ InWord(b, w) = IF b - Whole(w - 1) < WordBits THEN b - Whole(w - 1) ELSE WordBits
BY PioAssumption, WholeFacts DEF InWord, Whole

\* The types hold at the start.
LEMMA PioTypeInit == PioInit => PioTypeOK
<1> SUFFICES ASSUME PioInit PROVE PioTypeOK
  OBVIOUS
<1>1. WordBits \in Nat \ {0} /\ None \in Cells
  BY PioAssumption DEF Cells
<1>2. Zeros \in FullWords /\ <<>> \in Words
  BY <1>1 DEF Zeros, FullWords, Words
<1>3. sm \in StateMachines
  BY <1>1, <1>2 DEF PioInit, StateMachines, Counts, Pcs
<1>4. clocked \in [bit : Cells, due : Cells]
  BY <1>1 DEF PioInit
<1> QED
  BY <1>1, <1>2, <1>3, <1>4 DEF PioInit, PioTypeOK, CallOK, WireOK, Returned, Op, Ops

\* What the call does behind a word: the next one, or its end.
LEMMA AfterWordFacts ==
    ASSUME call \in Calls, NEW w \in Nat
    PROVE  /\ AfterWord(w) \in [op : Ops, word : Nat]
           /\ w < WordCount(call.bits) /\ call.routine = "read_cmd" => AfterWord(w) = Op("pull", w + 1)
           /\ w < WordCount(call.bits) /\ call.routine # "read_cmd" => AfterWord(w) = Op("push", w + 1)
           /\ w >= WordCount(call.bits) =>
                AfterWord(w) = IF call.routine = "swj_clock" THEN Op("drain", 0)
                               ELSE IF call.routine \in Reading /\ ExtraPull(call.bits) THEN Op("extra", 0)
                               ELSE Returned
<1>1. WordCount(call.bits) \in Nat
  BY WordCountFacts DEF Calls
<1> QED
  BY <1>1 DEF AfterWord, WordsSent, Op, Ops, Returned

\* What a clock does to what is due.
LEMMA ClockFacts ==
    ASSUME PioTypeOK, NEW bit \in Cells, Clocks(bit)
    PROVE  /\ due' \in Seq(Pending)
           /\ clocked' \in [bit : Cells, due : Cells]
           /\ DueBit \in Cells
<1> USE DEF Pending
<1>0. due # <<>> => due[1] \in Pending
  BY NotEmpty DEF PioTypeOK, CallOK, WireOK
<1>1. DueBit \in Cells
  BY <1>0, CellFacts DEF DueBit, Cells
<1>2. CASE due = <<>>
  BY <1>1, <1>2 DEF Clocks, PioTypeOK, CallOK, WireOK
<1>3. CASE due # <<>>
  <2>1. due[1] \in Pending
    BY <1>3, NotEmpty DEF PioTypeOK, CallOK, WireOK
  <2>2. Tail(due) \in Seq(Pending)
    BY <1>3 DEF PioTypeOK, CallOK, WireOK
  <2>3. [due EXCEPT ![1].next = @ + 1] \in Seq(Pending)
    <3>1. [due[1] EXCEPT !.next = @ + 1] \in Pending
      BY <2>1
    <3>2. \A e \in Pending : [due EXCEPT ![1] = e] \in Seq(Pending)
      BY <1>3, NotEmpty DEF PioTypeOK, CallOK, WireOK
    <3>3. [due EXCEPT ![1].next = @ + 1] = [due EXCEPT ![1] = [due[1] EXCEPT !.next = @ + 1]]
      OBVIOUS
    <3> HIDE DEF Pending
    <3> QED
      BY <3>1, <3>2, <3>3
  <2> QED
    BY <1>1, <1>3, <2>2, <2>3 DEF Clocks
<1> QED
  BY <1>2, <1>3

\* A loop of the program counts x down to its end.
LEMMA LoopsFacts ==
    ASSUME NEW state \in StateMachines, NEW loop \in Pcs, NEW after \in Pcs
    PROVE  /\ Loops(state, loop, after) \in StateMachines
           /\ Loops(state, loop, after) =
                IF state.x > 0 THEN [state EXCEPT !.x = state.x - 1, !.pc = loop]
                ELSE [state EXCEPT !.pc = after]
<1>1. state.x \in Nat /\ (state.x > 0 => state.x - 1 \in Nat)
  BY DEF StateMachines
<1>2. \A x \in Nat : [state EXCEPT !.x = x, !.pc = loop] \in StateMachines
  BY DEF StateMachines
<1>3. [state EXCEPT !.pc = after] \in StateMachines
  BY DEF StateMachines
<1> QED
  BY <1>1, <1>2, <1>3 DEF Loops

\* Shifting a bit in leaves words in the registers and the queue.
LEMMA ShiftInFacts ==
    ASSUME PioTypeOK, NEW bit \in Cells, NEW loop \in Pcs, ShiftIn(bit, loop)
    PROVE  /\ Append(Tail(sm.isr), bit) \in FullWords
           /\ sm' \in StateMachines /\ sm'.pc \in {loop, "push"}
           /\ rx' \in Seq(FullWords)
<1>1. WordBits \in Nat \ {0} /\ None \in Cells /\ Zeros \in FullWords /\ "push" \in Pcs
  BY PioAssumption DEF Cells, Zeros, FullWords, Words, Pcs
<1>2. sm.isr \in Seq(Cells) /\ Len(sm.isr) = WordBits /\ sm.isr # <<>>
  <2>1. sm.isr \in FullWords
    BY DEF PioTypeOK, CallOK, WireOK, StateMachines
  <2> QED
    BY <1>1, <2>1 DEF FullWords, Words
<1>3. Append(Tail(sm.isr), bit) \in FullWords
  BY <1>1, <1>2, HeadTailProperties, AppendProperties DEF FullWords, Words
<1>4. ASSUME NEW state \in StateMachines
      PROVE  Loops(state, loop, "push") \in StateMachines /\ Loops(state, loop, "push").pc \in {loop, "push"}
  <2>1. Loops(state, loop, "push") \in StateMachines
    BY <1>1, LoopsFacts
  <2>2. Loops(state, loop, "push").pc \in {loop, "push"}
    BY DEF Loops, StateMachines
  <2> QED
    BY <2>1, <2>2
<1>5. CASE sm.count + 1 < WordBits
  <2> DEFINE state == [sm EXCEPT !.isr = Append(Tail(sm.isr), bit), !.count = @ + 1]
  <2>1. sm.count + 1 \in Counts
    BY <1>1, <1>5 DEF PioTypeOK, CallOK, WireOK, StateMachines, Counts
  <2>2. state \in StateMachines
    BY <1>3, <2>1 DEF PioTypeOK, CallOK, WireOK, StateMachines
  <2>3. sm' = Loops(state, loop, "push") /\ rx' = rx
    BY <1>5 DEF ShiftIn
  <2> HIDE DEF state
  <2> QED
    BY <1>3, <1>4, <2>2, <2>3 DEF PioTypeOK, CallOK, WireOK
<1>6. CASE ~(sm.count + 1 < WordBits)
  <2> DEFINE state == [sm EXCEPT !.isr = Zeros, !.count = 0]
  <2>1. state \in StateMachines
    <3>1. 0 \in Counts /\ sm \in StateMachines
      BY <1>1 DEF PioTypeOK, WireOK, Counts
    <3> QED
      BY <1>1, <3>1 DEF StateMachines
  <2>2. sm' = Loops(state, loop, "push") /\ rx' = Append(rx, Append(Tail(sm.isr), bit))
    BY <1>6 DEF ShiftIn
  <2> HIDE DEF state
  <2> QED
    BY <1>3, <1>4, <2>1, <2>2 DEF PioTypeOK, CallOK, WireOK
<1> QED
  BY <1>5, <1>6

\* Every step keeps the types.
LEMMA PioTypeStep == PioTypeOK /\ [PioNext]_pioVars => PioTypeOK'
<1> SUFFICES ASSUME PioTypeOK, [PioNext]_pioVars PROVE PioTypeOK'
  OBVIOUS
<1>0. WordBits \in Nat \ {0} /\ None \in Cells /\ Zeros \in FullWords /\ <<>> \in Words
  BY PioAssumption DEF Cells, Zeros, FullWords, Words
<1>1. ASSUME NEW routine \in Routines[port], NEW bits \in 1..MaxBits, NEW capture \in BOOLEAN,
             Call(routine, bits, capture)
      PROVE  PioTypeOK'
  <2>1. bits \in Nat \ {0} /\ routine \in RoutineNames /\ port \in DOMAIN Routines
    BY PioAssumption DEF Routines, RoutineNames, PioTypeOK, CallOK
  <2>2. [routine |-> routine, bits |-> bits, capture |-> capture] \in Calls
    BY <2>1 DEF Calls
  <2>3. call' \in Calls /\ call'.routine = routine /\ call' # None
    BY <1>1, <2>2 DEF Call, Calls, None
  <2>4. [routine |-> routine, bits |-> bits, next |-> 1] \in Pending
    BY <2>1 DEF Pending
  <2>5. WireOK'
    BY <1>1, <2>4 DEF Call, PioTypeOK, WireOK
  <2>6. cpu' = [op |-> "command", word |-> 0] /\ port' = port /\ data' = <<>>
    BY <1>1 DEF Call, Op
  <2>7. CallOK'
    BY <1>0, <2>1, <2>3, <2>6 DEF CallOK, Ops
  <2> QED
    BY <2>5, <2>7 DEF PioTypeOK
<1>2. ASSUME NEW w \in Nat, call \in Calls, cpu' = AfterWord(w), UNCHANGED <<port, call>>, data' \in Words
      PROVE  CallOK'
  <2>1. /\ AfterWord(w) \in [op : Ops, word : Nat]
        /\ AfterWord(w).op = "none" => AfterWord(w) = Returned
        /\ AfterWord(w).op \in {"push", "pull"} => AfterWord(w).word \in 1..WordCount(call.bits)
    BY <1>2, AfterWordFacts, WordCountFacts DEF Op, Returned, Calls
  <2>2. call # None
    BY <1>2 DEF Calls, None
  <2> QED
    BY <1>2, <2>1, <2>2 DEF CallOK, PioTypeOK
<1>3. ASSUME cpu.op # "none" PROVE call \in Calls
  BY <1>3 DEF Returned, Op, PioTypeOK, CallOK
<1>4. CASE CpuCommand
  <2>1. CommandWord(call.routine, call.bits) \in Words
    BY <1>3, <1>4, CellFacts DEF CpuCommand, Calls, FullWords
  <2>2. WireOK'
    BY <1>4, <2>1 DEF CpuCommand, PioTypeOK, WireOK
  <2> QED
    BY <1>2, <1>3, <1>4, <2>2 DEF CpuCommand, PioTypeOK, CallOK
<1>5. CASE CpuPush
  <2>1. cpu.word \in Nat \ {0} /\ cpu.word \in 1..WordCount(call.bits)
    BY <1>3, <1>5, WordCountFacts DEF CpuPush, PioTypeOK, CallOK, Calls
  <2>2. DataWord(call.routine, cpu.word) \in Words
    BY <1>3, <1>5, <2>1, DataWordFacts DEF CpuPush, Calls, FullWords
  <2>3. WireOK'
    BY <1>5, <2>2 DEF CpuPush, PioTypeOK, WireOK
  <2>4. CASE call.routine = "jtag"
    <3>1. cpu' = [op |-> "pull", word |-> cpu.word]
      BY <1>5, <2>4 DEF CpuPush, Op
    <3>2. call # None
      BY <1>3, <1>5 DEF Calls, None, CpuPush
    <3> QED
      BY <1>5, <2>1, <2>3, <3>1, <3>2 DEF CpuPush, PioTypeOK, CallOK, Ops
  <2>5. CASE call.routine # "jtag"
    BY <1>2, <1>3, <1>5, <2>1, <2>3, <2>5 DEF CpuPush, PioTypeOK, CallOK
  <2> QED
    BY <2>4, <2>5
<1>6. CASE CpuPull
  <2>1. cpu.word \in Nat /\ rx # <<>> /\ cpu.op = "pull"
    BY <1>6 DEF CpuPull, PioTypeOK, CallOK
  <2>2. Head(rx) \in FullWords /\ Tail(rx) \in Seq(FullWords)
    BY <2>1, NotEmpty DEF PioTypeOK, WireOK
  <2> DEFINE n == InWord(call.bits, cpu.word)
             bits == SubSeq(Head(rx), WordBits - n + 1, WordBits)
  <2>3. n \in Int /\ n <= WordBits
    <3>1. call.bits \in Nat
      BY <1>3, <2>1 DEF Calls
    <3> QED
      <4>1. ASSUME NEW b \in Nat, NEW w \in Int PROVE InWord(b, w) \in Int /\ InWord(b, w) <= WordBits
        BY InWordFacts
      <4>2. cpu.word \in Int
        BY <2>1
      <4>3. InWord(call.bits, cpu.word) \in Int /\ InWord(call.bits, cpu.word) <= WordBits
        BY <3>1, <4>1, <4>2
      <4> QED
        BY <4>3
  <2> HIDE DEF n
  <2>4. bits \in Words
    <3>1. \A i \in (WordBits - n + 1)..WordBits : Head(rx)[i] \in Cells
      BY <1>0, <2>2, <2>3 DEF FullWords, Words
    <3> QED
      BY <1>0, <2>3, <3>1, SubSeqProperties DEF Words
  <2>5. data' \in Words
    BY <1>6, <2>4 DEF CpuPull, PioTypeOK, CallOK, Words, n
  <2>6. WireOK'
    BY <1>6, <2>2 DEF CpuPull, PioTypeOK, WireOK
  <2> QED
    BY <1>2, <1>3, <1>6, <2>1, <2>5, <2>6 DEF CpuPull, PioTypeOK
<1>7. CASE CpuExtra \/ CpuDrain
  <2>1. WireOK'
    <3>1. rx # <<>> => Tail(rx) \in Seq(FullWords)
      BY DEF PioTypeOK, WireOK
    <3> QED
      BY <1>7, <3>1 DEF CpuExtra, CpuDrain, PioTypeOK, WireOK
  <2> QED
    BY <1>7, <2>1 DEF CpuExtra, CpuDrain, Returned, Op, Ops, PioTypeOK, CallOK
<1>8. UNCHANGED cpuVars => CallOK'
  BY DEF cpuVars, PioTypeOK, CallOK
<1>9. ASSUME NEW pc \in Pcs, PullInto(pc) PROVE WireOK'
  <2>1. tx # <<>> => Head(tx) \in Words /\ Tail(tx) \in Seq(Words)
    BY NotEmpty DEF PioTypeOK, WireOK
  <2>2. sm' \in StateMachines
    BY <1>9, <2>1 DEF PullInto, PioTypeOK, WireOK, StateMachines
  <2> QED
    BY <1>9, <2>1, <2>2 DEF PullInto, PioTypeOK, WireOK
<1>10. CASE AutoPull
  <2>1. tx # <<>> => Head(tx) \in Words /\ Tail(tx) \in Seq(Words)
    BY NotEmpty DEF PioTypeOK, WireOK
  <2>2. sm' \in StateMachines
    BY <1>10, <2>1 DEF AutoPull, PioTypeOK, WireOK, StateMachines
  <2> QED
    BY <1>8, <1>10, <2>1, <2>2 DEF AutoPull, PioTypeOK, WireOK
<1>11. CASE Branch
  <2>1. IsCommand(sm.osr) => sm.osr[1] \in [routine : RoutineNames, x : Nat]
    <3> SUFFICES ASSUME IsCommand(sm.osr) PROVE sm.osr[1] \in [routine : RoutineNames, x : Nat]
      OBVIOUS
    <3>1. sm.osr[1] \in Cells
      BY NotEmpty DEF IsCommand, PioTypeOK, WireOK, StateMachines, Words
    <3>2. "x" \notin DOMAIN None
      BY DEF None
    <3>3. ASSUME NEW bit \in [routine : RoutineNames, bit : Nat] PROVE "x" \notin DOMAIN bit
      OBVIOUS
    <3> QED
      BY <3>1, <3>2, <3>3 DEF IsCommand, Cells
  <2>2. sm' \in StateMachines
    BY <1>0, <1>11, <2>1 DEF Branch, PioTypeOK, WireOK, StateMachines, Pcs
  <2> QED
    BY <1>8, <1>11, <2>2 DEF Branch, PioTypeOK, WireOK
<1>12. ASSUME NEW state \in StateMachines, OutBit(state) PROVE PioTypeOK'
  <2>1. Head(sm.osr) \in Cells
    BY <1>12, NotEmpty DEF OutBit, PioTypeOK, WireOK, StateMachines, Words
  <2> QED
    BY <1>8, <1>12, <2>1, ClockFacts DEF OutBit, PioTypeOK, WireOK
<1>13. sm.osr # <<>> => Shifted \in StateMachines
  <2>1. sm \in StateMachines /\ sm.osr \in Seq(Cells)
    BY DEF PioTypeOK, WireOK, StateMachines, Words
  <2>2. sm.osr # <<>> => Tail(sm.osr) \in Words
    BY <2>1 DEF Words
  <2> QED
    BY <2>1, <2>2 DEF Shifted, StateMachines
<1>14. CASE SwjBit \/ WriteBit
  BY <1>12, <1>13, <1>14, LoopsFacts DEF SwjBit, WriteBit, OutBit, Pcs, RoutineNames
<1>15. CASE JtagOut
  <2>1. sm.osr # <<>> => [Shifted EXCEPT !.pc = "jtag_in"] \in StateMachines
    BY <1>13 DEF StateMachines, Pcs
  <2> QED
    BY <1>12, <1>15, <2>1 DEF JtagOut, OutBit
<1>16. CASE JtagIn
  <2>1. clocked.bit \in Cells
    BY DEF PioTypeOK, WireOK
  <2> QED
    BY <1>8, <1>16, <2>1, ShiftInFacts DEF JtagIn, Pcs, RoutineNames, PioTypeOK, WireOK
<1>17. CASE ReadBit
  <2>1. PICK bit \in Cells : Clocks(bit) /\ ShiftIn(bit, "read_cmd")
    <3>1. Bit("read_cmd", 0) \in Cells
      BY CellFacts DEF RoutineNames
    <3>2. due # <<>> => DueBit \in Cells
      <4>1. due # <<>> => due[1] \in Pending
        BY NotEmpty DEF PioTypeOK, WireOK
      <4> QED
        BY <4>1, CellFacts DEF DueBit, Pending
    <3> QED
      BY <1>17, <3>1, <3>2 DEF ReadBit
  <2> QED
    BY <1>8, <1>17, <2>1, ClockFacts, ShiftInFacts DEF ReadBit, Pcs, RoutineNames, PioTypeOK, WireOK
<1>18. CASE PushLast
  <2>1. sm.isr \in FullWords
    BY DEF PioTypeOK, WireOK, StateMachines
  <2>2. sm' \in StateMachines
    <3>1. 0 \in Counts /\ sm \in StateMachines /\ "idle" \in Pcs
      BY <1>0 DEF PioTypeOK, WireOK, Counts, Pcs
    <3> QED
      BY <1>0, <1>18, <3>1 DEF PushLast, StateMachines
  <2> QED
    BY <1>8, <1>18, <2>1, <2>2 DEF PushLast, PioTypeOK, WireOK
<1>19. CASE UNCHANGED pioVars
  BY <1>8, <1>19 DEF pioVars, cpuVars, PioTypeOK, WireOK
<1>20. CASE Idle \/ WritePull
  BY <1>8, <1>9, <1>20 DEF Idle, WritePull, PullInto, Pcs, PioTypeOK
<1> QED
  BY <1>1, <1>4, <1>5, <1>6, <1>7, <1>10, <1>11, <1>14, <1>15, <1>16, <1>17, <1>18, <1>19, <1>20
  DEF PioNext, CpuStep, SmStep

-----------------------------------------------------------------------------

\* A place in the words that are pushed: the call, how many of its words of data
\* went before, and how many later calls have bits that are not clocked.
Places == [routine : RoutineNames, bits : Nat \ {0}, word : Nat, left : Nat]

\* The words of data behind its command, all of which are pushed at the end.
Sent(p) == IF p.routine = "read_cmd" THEN 0 ELSE WordCount(p.bits)
Complete(p) == p.word = Sent(p)
First(p) == [routine |-> p.routine, bits |-> p.bits, next |-> 1]

\* A word that is pushed leads from a place to the next one.
Continues(p, q, word) ==
    /\ p.word < Sent(p) /\ q = [p EXCEPT !.word = @ + 1]
    /\ word = DataWord(p.routine, q.word)
Starts(p, q, word) ==
    /\ Complete(p) /\ q.word = 0 /\ q.left = p.left - 1
    /\ word = CommandWord(q.routine, q.bits)
    /\ due[Len(due) - q.left] = First(q)
Follows(p, q, word) == Continues(p, q, word) \/ Starts(p, q, word)

\* A call that reads is the only one on the way, and has not returned.
Running == cpu.op \notin {"none", "command"}
Alone(p) == p.routine \in Reading => p.left = 0 /\ Running
\* A place with no call behind it is of the last call.
OfCall(p) == p.left = 0 /\ cpu.op # "command" /\ call # None =>
                p.routine = call.routine /\ p.bits = call.bits

\* Where the call is.
CpuAt(p) ==
    /\ p.left = IF cpu.op = "command" THEN 1 ELSE 0
    /\ cpu.op = "push" => p.word = cpu.word - 1
    /\ cpu.op = "pull" => p.word = IF call.routine = "jtag" THEN cpu.word ELSE 0
    /\ cpu.op \notin {"push", "pull"} => Complete(p)

Trails == [0..Len(tx) -> Places]

\* The words in tx lead from the place of the state machine to that of the call.
Trail(L) ==
    /\ \A k \in 1..Len(tx) : Follows(L[k - 1], L[k], tx[k]) /\ Alone(L[k])
    /\ \A j, k \in 0..Len(tx) : j <= k => L[k].left <= L[j].left
    /\ \A k \in 0..Len(tx) : OfCall(L[k])
    /\ CpuAt(L[Len(tx)])
    /\ cpu.op = "command" => due[Len(due)] = First(call)

\* The command of the call is in osr, or the call is done.
Loaded(p, d) == sm.pc \in {"idle", "branch"} /\ p.word = 0 /\ d = 0
Finished(p, d) == sm.pc = "idle" /\ Complete(p) /\ d = p.bits

\* What is left of the words after the first d bits.
Rest(p, d) == [k \in 1..(Whole(p.word) - d) |-> Bit(p.routine, d + k)]

Looping == {"write_cmd", "write_bitloop", "swj_clock", "jtag", "read_cmd"}

\* The bits that are due: of this call from bit d on, and of the later ones.
DueAt(p, d) ==
    IF d < p.bits
    THEN /\ Len(due) = p.left + 1
         /\ due[1] = [routine |-> p.routine, bits |-> p.bits, next |-> d + 1]
    ELSE Len(due) = p.left

\* The state machine is at p and has clocked d bits of its call.
SmAt(p, d) ==
    /\ d \in 0..p.bits /\ DueAt(p, d)
    /\ sm.osr = IF Loaded(p, d) THEN CommandWord(p.routine, p.bits) ELSE Rest(p, d)
    /\ p.routine # "read_cmd" => Whole(p.word - 1) <= d /\ d <= Whole(p.word)
    /\ p.word <= Sent(p)
    /\ sm.pc \notin {"lost"}
    /\ sm.pc = "idle" => Loaded(p, d) \/ Finished(p, d)
    /\ sm.pc = "branch" => Loaded(p, d)
    /\ sm.pc = "write_cmd" => p.routine = "write_cmd" /\ d = 0
    /\ sm.pc = "write_bitloop" => p.routine = "write_cmd" /\ d < p.bits /\ p.word > 0
    /\ sm.pc \in {"swj_clock", "jtag", "read_cmd"} => p.routine = sm.pc /\ d < p.bits
    /\ sm.pc = "jtag_in" => p.routine = "jtag" /\ d > 0 /\ clocked.bit = Bit("jtag", d)
    /\ sm.pc = "push" => p.routine \in Reading /\ Complete(p) /\ d = p.bits
    /\ sm.pc \in Looping => sm.x = p.bits - 1 - d
    /\ sm.pc = "jtag_in" => sm.x = p.bits - d
    /\ ~Finished(p, d) => Alone(p)

\* The call reads, and has pulled some words.
Captures == Running /\ call.routine \in Reading
Pulled == IF cpu.op = "extra" THEN WordCount(call.bits) ELSE cpu.word - 1
ShiftedBits(d) == IF sm.pc = "jtag_in" THEN d - 1 ELSE d
\* The words that are read, with the empty one behind a whole last one.
AllWords(bits) == WordCount(bits) + (IF ExtraPull(bits) THEN 1 ELSE 0)

\* A word that was read: the bits stand at its end.
WordRead(word, w) ==
    \A k \in 1..WordBits : k <= InWord(call.bits, w) =>
        word[WordBits - InWord(call.bits, w) + k] = Bit(call.routine, Whole(w - 1) + k)

\* The state machine has pushed f words of the call.
Pushed(p, d, f) ==
    /\ IF Finished(p, d) THEN f = AllWords(call.bits) /\ sm.count = 0
       ELSE ShiftedBits(d) = Whole(f) + sm.count
    /\ \A k \in 1..sm.count :
            sm.isr[WordBits - sm.count + k] = Bit(call.routine, Whole(f) + k)
    /\ Len(rx) = f - Pulled
    /\ \A i \in 1..Len(rx) : WordRead(rx[i], Pulled + i)

\* Words come in for the call that reads, and for no other.
Reads(p, d, f) ==
    IF Captures /\ p.left = 0 THEN Pushed(p, d, f)
    ELSE sm.count = 0 /\ rx = <<>> /\ (Captures => Pulled = 0)

\* The first bits of a call.
BitsOf(r, n) == [k \in 1..n |-> Bit(r, k)]

\* What the call has, and what it returns.
BitsPulled == IF Whole(Pulled) < call.bits THEN Whole(Pulled) ELSE call.bits
CpuOK ==
    /\ cpu.op = "push" => call.routine # "read_cmd"
    /\ cpu.op = "pull" => call.routine \in Reading
    /\ cpu.op = "extra" => call.routine \in Reading /\ ExtraPull(call.bits)
    /\ cpu.op = "drain" => call.routine = "swj_clock"
    /\ call # None => (call.capture => call.routine \in Reading)
    /\ Captures => data = IF call.capture THEN BitsOf(call.routine, BitsPulled) ELSE <<>>
    /\ cpu.op = "command" => data = <<>>
    /\ cpu = Returned /\ call # None =>
        /\ call.routine # "write_cmd" => tx = <<>>
        /\ call.capture => data = BitsOf(call.routine, call.bits)

\* The call and the state machine agree on how far they are.
InStep(L, d, f) == Trail(L) /\ SmAt(L[0], d) /\ Reads(L[0], d, f)

\* The inductive invariant of PioPort.
PioInv ==
    /\ PioTypeOK /\ CpuOK /\ clocked.bit = clocked.due
    /\ \E L \in Trails, d \in Nat, f \in Nat : InStep(L, d, f)

-----------------------------------------------------------------------------

\* A step that leaves the queue, the call and what is due leaves the trail.
LEMMA TrailSame ==
    ASSUME NEW L \in Trails, Trail(L), UNCHANGED <<tx, due, cpu, call>>
    PROVE  L \in Trails' /\ Trail(L)'
BY DEF Trails, Trail, Follows, Continues, Starts, Alone, OfCall, CpuAt, Running, First, Complete, Sent

\* The word at the head of tx leads to the next place.
LEMMA TrailTaken ==
    ASSUME PioTypeOK, NEW L \in Trails, Trail(L), tx # <<>>,
           tx' = Tail(tx), UNCHANGED <<due, cpu, call>>,
           NEW M, M = [k \in 0..(Len(tx) - 1) |-> L[k + 1]]
    PROVE  /\ M \in Trails' /\ Trail(M)' /\ M[0] = L[1] /\ M[0] \in Places
           /\ L[0] \in Places /\ Follows(L[0], M[0], Head(tx))
           /\ M[0].left <= L[0].left /\ Alone(M[0]) /\ OfCall(M[0]) /\ OfCall(L[0])
<1> DEFINE n == Len(tx)
<1>1. n \in Nat \ {0} /\ Len(tx') = n - 1 /\ tx[1] = Head(tx)
      /\ \A k \in 1..(n - 1) : tx'[k] = tx[k + 1]
  BY NotEmpty, HeadTailProperties DEF PioTypeOK, WireOK
<1>2. M \in Trails' /\ \A k \in 0..(n - 1) : M[k] = L[k + 1] /\ M[k] \in Places
  BY <1>1 DEF Trails
<1>3. \A k \in 1..n : Follows(L[k - 1], L[k], tx[k]) /\ Alone(L[k])
  BY DEF Trail
<1>4. ASSUME NEW k \in 1..(n - 1) PROVE (Follows(M[k - 1], M[k], tx[k]) /\ Alone(M[k]))'
  <2>1. Follows(M[k - 1], M[k], tx[k + 1]) /\ Alone(M[k])
    BY <1>1, <1>2, <1>3
  <2> QED
    BY <1>1, <2>1 DEF Follows, Continues, Starts, Alone, Running
<1>5. \A j, k \in 0..(n - 1) : j <= k => M[k].left <= M[j].left
  BY <1>1, <1>2 DEF Trail
<1>6. ASSUME NEW k \in 0..(n - 1) PROVE OfCall(M[k])'
  BY <1>1, <1>2 DEF Trail, OfCall
<1>7. CpuAt(M[n])'
  <2>1. M[Len(tx')] = L[n]
    BY <1>1, <1>2
  <2> QED
    BY <2>1 DEF Trail, CpuAt, Complete, Sent
<1>8. Trail(M)'
  BY <1>1, <1>4, <1>5, <1>6, <1>7 DEF Trail
<1>9. M[0] = L[1] /\ L[0] \in Places /\ M[0].left <= L[0].left /\ OfCall(M[0]) /\ OfCall(L[0])
  BY <1>1, <1>2 DEF Trail, Trails
<1>10. Follows(L[0], M[0], Head(tx)) /\ Alone(M[0])
  BY <1>1, <1>2, <1>3
<1> QED
  BY <1>1, <1>2, <1>8, <1>9, <1>10

\* A clock for the call of the state machine leaves the later calls due.
LEMMA TrailClocked ==
    ASSUME PioTypeOK, NEW L \in Trails, Trail(L), NEW bit, Clocks(bit),
           Len(due) = L[0].left + 1, UNCHANGED <<tx, cpu, call>>
    PROVE  L \in Trails' /\ Trail(L)'
<1> DEFINE n == Len(tx)
<1>1. n \in Nat /\ due \in Seq(Pending) /\ due # <<>> /\ Len(due) \in Nat /\ Len(due') \in Nat
  BY ClockFacts, NotEmpty DEF PioTypeOK, WireOK, Trails, Places
<1>2. \A i \in 2..Len(due) : due'[i - (Len(due) - Len(due'))] = due[i]
  <2>1. CASE due[1].next < due[1].bits
    BY <1>1, <2>1 DEF Clocks
  <2>2. CASE ~(due[1].next < due[1].bits)
    BY <1>1, <2>2, HeadTailProperties DEF Clocks
  <2> QED
    BY <2>1, <2>2
<1>3. ASSUME NEW k \in 1..n PROVE (Follows(L[k - 1], L[k], tx[k]) /\ Alone(L[k]))'
  <2>1. Follows(L[k - 1], L[k], tx[k]) /\ Alone(L[k])
    BY DEF Trail
  <2>2. L[k - 1] \in Places /\ L[k] \in Places /\ L[0] \in Places
    BY <1>1 DEF Trails
  <2>3. L[k - 1].left <= L[0].left
    BY <1>1 DEF Trail
  <2>4. CASE Continues(L[k - 1], L[k], tx[k])
    BY <2>1, <2>4 DEF Follows, Continues, Alone, Running
  <2>5. CASE Starts(L[k - 1], L[k], tx[k])
    <3> DEFINE i == Len(due) - L[k].left
    <3>1. i \in 2..Len(due)
      <4>1. /\ L[k].left \in Nat /\ L[k - 1].left \in Nat /\ L[0].left \in Nat
            /\ L[k].left = L[k - 1].left - 1
        BY <2>2, <2>5 DEF Starts, Places
      <4>2. PICK x, y, z \in Nat : x = L[k].left /\ y = L[k - 1].left /\ z = L[0].left
        BY <4>1
      <4>3. PICK m \in Nat : m = Len(due)
        BY <1>1
      <4>4. m = z + 1 /\ x = y - 1 /\ y <= z
        BY <2>3, <4>1, <4>2, <4>3
      <4>5. m - x \in 2..m
        BY <4>4
      <4> QED
        BY <4>2, <4>3, <4>5
    <3>2. due'[Len(due') - L[k].left] = due[i]
      <4>1. due'[i - (Len(due) - Len(due'))] = due[i]
        BY <1>2, <3>1
      <4>2. i - (Len(due) - Len(due')) = Len(due') - L[k].left
        BY <1>1, <2>2 DEF Places
      <4> QED
        BY <4>1, <4>2
    <3> QED
      BY <2>1, <2>5, <3>2 DEF Follows, Starts, Alone, Running
  <2> QED
    BY <2>1, <2>4, <2>5 DEF Follows
<1>4. cpu.op = "command" => due'[Len(due')] = First(call)
  <2> SUFFICES ASSUME cpu.op = "command" PROVE due'[Len(due')] = First(call)
    OBVIOUS
  <2>1. L[n].left = 1 /\ L[n].left <= L[0].left /\ L[0].left \in Nat
    BY <1>1 DEF Trail, Trails, CpuAt, Places
  <2>2. Len(due) \in 2..Len(due) /\ Len(due) - (Len(due) - Len(due')) = Len(due')
    <3>1. PICK m, l, z \in Nat : m = Len(due) /\ l = Len(due') /\ z = L[0].left
      BY <1>1, <2>1
    <3>2. m = z + 1 /\ 1 <= z
      BY <2>1, <3>1
    <3>3. m \in 2..m /\ m - (m - l) = l
      BY <3>2
    <3> QED
      BY <3>1, <3>3
  <2>3. due'[Len(due')] = due[Len(due)]
    BY <1>2, <2>2
  <2> QED
    BY <2>3 DEF Trail
<1>5. (cpu.op = "command" => due[Len(due)] = First(call))'
  BY <1>4 DEF First
<1>6. \A k \in 0..n : OfCall(L[k])'
  BY DEF Trail, OfCall
<1>7. CpuAt(L[n])' /\ \A j, k \in 0..n : j <= k => L[k].left <= L[j].left
  BY DEF Trail, CpuAt, Complete, Sent
<1>8. tx' = tx /\ L \in [0..n -> Places]
  BY DEF Trails
<1>9. Trail(L)'
  BY <1>3, <1>5, <1>6, <1>7, <1>8 DEF Trail
<1>10. L \in Trails'
  BY <1>8 DEF Trails
<1> QED
  BY <1>9, <1>10

\* A step of the call that pushes nothing.
LEMMA TrailCpu ==
    ASSUME NEW L \in Trails, Trail(L), UNCHANGED <<tx, due, call>>,
           cpu.op # "command", cpu'.op # "command", Running' \/ Len(tx) = 0, CpuAt(L[Len(tx)])'
    PROVE  L \in Trails' /\ Trail(L)'
<1> DEFINE n == Len(tx)
<1>1. tx' = tx /\ L \in Trails'
  BY DEF Trails
<1>2. ASSUME NEW k \in 1..n PROVE (Follows(L[k - 1], L[k], tx[k]) /\ Alone(L[k]))'
  BY DEF Trail, Follows, Continues, Starts, Alone
<1>3. \A k \in 0..n : OfCall(L[k])'
  BY DEF Trail, OfCall
<1>4. \A j, k \in 0..n : j <= k => L[k].left <= L[j].left
  BY DEF Trail
<1>5. Trail(L)'
  BY <1>1, <1>2, <1>3, <1>4 DEF Trail
<1> QED
  BY <1>1, <1>5

\* A word that is pushed leads to a new place, that of the call.
LEMMA TrailPushed ==
    ASSUME PioTypeOK, NEW L \in Trails, Trail(L), NEW q \in Places, NEW word \in Words,
           Follows(L[Len(tx)], q, word), tx' = Append(tx, word), UNCHANGED <<due, call>>,
           q.left = 0, CpuAt(q)', OfCall(q)', Alone(q)',
           \A k \in 0..Len(tx) : OfCall(L[k])', \A k \in 1..Len(tx) : Alone(L[k])',
           NEW M, M = [k \in 0..(Len(tx) + 1) |-> IF k = Len(tx) + 1 THEN q ELSE L[k]]
    PROVE  M \in Trails' /\ Trail(M)' /\ M[0] = L[0]
<1> DEFINE n == Len(tx)
<1>1. n \in Nat /\ Len(tx') = n + 1 /\ tx'[n + 1] = word /\ \A k \in 1..n : tx'[k] = tx[k]
  BY AppendProperties, NotEmpty DEF PioTypeOK, WireOK
<1>2. M \in Trails' /\ M[n + 1] = q /\ \A k \in 0..n : M[k] = L[k] /\ M[k] \in Places
  BY <1>1 DEF Trails
<1>3. ASSUME NEW k \in 1..(n + 1) PROVE (Follows(M[k - 1], M[k], tx[k]) /\ Alone(M[k]))'
  <2>1. Follows(M[k - 1], M[k], tx'[k])
    <3>1. CASE k = n + 1
      BY <1>1, <1>2, <3>1
    <3>2. CASE k \in 1..n
      BY <1>1, <1>2, <3>2 DEF Trail
    <3> QED
      BY <1>1, <3>1, <3>2
  <2>2. Alone(M[k])'
    BY <1>1, <1>2 DEF Alone
  <2> QED
    BY <2>1, <2>2 DEF Follows, Continues, Starts
<1>4. \A j, k \in 0..(n + 1) : j <= k => M[k].left <= M[j].left
  <2>1. \A k \in 0..(n + 1) : M[k].left \in Nat
    BY <1>1, <1>2 DEF Places
  <2> QED
    BY <1>1, <1>2, <2>1 DEF Trail
<1>5. ASSUME NEW k \in 0..(n + 1) PROVE OfCall(M[k])'
  BY <1>1, <1>2 DEF OfCall
<1>6. CpuAt(M[n])'
  BY <1>1, <1>2 DEF CpuAt, Complete, Sent
<1>7. cpu'.op # "command"
  BY DEF CpuAt
<1>8. Trail(M)'
  BY <1>1, <1>3, <1>4, <1>5, <1>6, <1>7 DEF Trail
<1> QED
  BY <1>1, <1>2, <1>8

\* A place when one more call has begun.
Back(p) == [p EXCEPT !.left = @ + 1]

\* One call more behind a place.
LEMMA BackFacts ==
    ASSUME NEW p \in Places
    PROVE  /\ Back(p) \in Places
           /\ Back(p).routine = p.routine /\ Back(p).bits = p.bits /\ Back(p).word = p.word
           /\ Back(p).left = p.left + 1 /\ p.left \in Nat
           /\ \A n \in Nat : (n + 1) - Back(p).left = n - p.left
           /\ \A q \in Places : p.left <= q.left <=> Back(p).left <= Back(q).left
BY DEF Back, Places

\* A call sends all the others back by one.
LEMMA TrailCalled ==
    ASSUME PioTypeOK, NEW L \in Trails, Trail(L), NEW e \in Pending, due' = Append(due, e),
           e = First(call'), cpu = Returned, cpu'.op = "command", UNCHANGED tx, L[0].left <= Len(due),
           NEW M, M = [k \in 0..Len(tx) |-> Back(L[k])]
    PROVE  M \in Trails' /\ Trail(M)' /\ M[0] = Back(L[0]) /\ L[0] \in Places
<1> DEFINE n == Len(tx)
<1>1. n \in Nat /\ due \in Seq(Pending) /\ Len(due) \in Nat /\ Len(due') = Len(due) + 1
      /\ \A i \in 1..Len(due) : due'[i] = due[i]
  BY AppendProperties, NotEmpty DEF PioTypeOK, WireOK
<1>2. ASSUME NEW k \in 0..n
      PROVE  /\ L[k] \in Places /\ M[k] \in Places /\ M[k] = Back(L[k])
             /\ M[k].routine = L[k].routine /\ M[k].bits = L[k].bits
             /\ M[k].word = L[k].word /\ M[k].left = L[k].left + 1 /\ L[k].left \in Nat
  BY BackFacts DEF Trails
<1>3. ASSUME NEW k \in 1..n PROVE (Follows(M[k - 1], M[k], tx[k]) /\ Alone(M[k]))'
  <2>1. Follows(L[k - 1], L[k], tx[k]) /\ Alone(L[k])
    BY DEF Trail
  <2>2. k - 1 \in 0..n /\ k \in 0..n
    BY <1>1
  <2>3. Alone(M[k])'
    BY <2>1, <2>2, <1>2 DEF Alone, Running, Returned, Op
  <2>4. CASE Continues(L[k - 1], L[k], tx[k])
    <3>1. M[k] = [M[k - 1] EXCEPT !.word = @ + 1]
      BY <1>2, <2>2, <2>4 DEF Continues, Places, Back
    <3> QED
      BY <1>2, <2>2, <2>3, <2>4, <3>1 DEF Follows, Continues, Sent
  <2>5. CASE Starts(L[k - 1], L[k], tx[k])
    <3>1. due'[Len(due') - M[k].left] = First(M[k])
      <4>1. Len(due') - M[k].left = Len(due) - L[k].left
        <5>1. (Len(due) + 1) - M[k].left = Len(due) - L[k].left
          BY <1>1, <1>2, <2>2, BackFacts
        <5> QED
          BY <1>1, <5>1
      <4>2. due[Len(due) - L[k].left] = First(L[k]) /\ First(L[k]) = First(M[k])
        BY <1>2, <2>2, <2>5 DEF Starts, First
      <4>3. Len(due) - L[k].left \in 1..Len(due)
        <5>1. L[k].left \in Nat /\ L[k].left < Len(due)
          <6>1. /\ L[k - 1].left <= L[0].left /\ L[k].left = L[k - 1].left - 1
                /\ L[k].left \in Nat /\ L[k - 1].left \in Nat /\ L[0].left \in Nat
            <7>1. L[k - 1].left <= L[0].left
              <8>1. 0 \in 0..n /\ k - 1 \in 0..n /\ 0 <= k - 1
                BY <1>1
              <8> QED
                BY <8>1 DEF Trail
            <7>2. L[k].left = L[k - 1].left - 1
              BY <2>5 DEF Starts
            <7>3. L[k].left \in Nat /\ L[k - 1].left \in Nat /\ L[0].left \in Nat
              BY <1>1, <1>2, <2>2
            <7> QED
              BY <7>1, <7>2, <7>3
          <6>2. PICK x, y, z \in Nat : x = L[k].left /\ y = L[k - 1].left /\ z = L[0].left
            BY <6>1
          <6>3. PICK m \in Nat : m = Len(due) /\ z <= m
            BY <1>1, <6>2
          <6>4. x < m
            BY <6>1, <6>2, <6>3
          <6> QED
            BY <6>2, <6>3, <6>4
        <5> QED
          BY <1>1, <5>1
      <4> QED
        BY <1>1, <4>1, <4>2, <4>3
    <3> QED
      <4>1. /\ M[k - 1].word = L[k - 1].word /\ Sent(M[k - 1]) = Sent(L[k - 1])
            /\ M[k].word = 0 /\ M[k].routine = L[k].routine /\ M[k].bits = L[k].bits
        BY <1>2, <2>2, <2>5 DEF Starts, Sent
      <4>2. M[k].left = M[k - 1].left - 1
        <5>1. /\ M[k].left = L[k].left + 1 /\ M[k - 1].left = L[k - 1].left + 1
              /\ L[k].left = L[k - 1].left - 1 /\ L[k].left \in Nat /\ L[k - 1].left \in Nat
          BY <1>2, <2>2, <2>5 DEF Starts
        <5> QED
          BY <5>1
      <4>3. tx' = tx
        OBVIOUS
      <4> QED
        BY <2>3, <2>5, <3>1, <4>1, <4>2, <4>3 DEF Follows, Starts, Complete, Sent
  <2> QED
    BY <2>1, <2>4, <2>5 DEF Follows
<1>4. \A j, k \in 0..n : j <= k => M[k].left <= M[j].left
  BY <1>2, BackFacts DEF Trail
<1>5. \A k \in 0..n : OfCall(M[k])'
  BY <1>2 DEF OfCall
<1>6. CpuAt(M[n])'
  BY <1>1, <1>2 DEF CpuAt, Trail, Complete, Sent, Returned, Op
<1>7. M \in Trails'
  <2>1. Len(tx') = n /\ DOMAIN M = 0..n
    OBVIOUS
  <2> QED
    BY <1>2, <2>1 DEF Trails
<1>8. due'[Len(due')] = First(call')
  BY AppendProperties, <1>1
<1>9. Trail(M)'
  BY <1>3, <1>4, <1>5, <1>6, <1>8 DEF Trail
<1> QED
  BY <1>1, <1>2, <1>7, <1>9

\* After the last word of a call that reads, nothing is on the way.
LEMMA NoMore ==
    ASSUME PioTypeOK, NEW L \in Trails, Trail(L), L[0].left = 0, Complete(L[0])
    PROVE  tx = <<>>
<1> SUFFICES ASSUME tx # <<>> PROVE FALSE
  OBVIOUS
<1>1. Len(tx) \in Nat /\ Len(tx) > 0
  BY NotEmpty DEF PioTypeOK, WireOK
<1>2. L[0] \in Places /\ L[1] \in Places /\ Follows(L[0], L[1], tx[1])
  <2>1. Follows(L[1 - 1], L[1], tx[1])
    BY <1>1 DEF Trail
  <2> QED
    BY <1>1, <2>1 DEF Trails
<1>3. ~Continues(L[0], L[1], tx[1])
  BY <1>2, WordCountFacts DEF Continues, Complete, Sent, Places
<1> QED
  BY <1>2, <1>3 DEF Follows, Starts, Places

-----------------------------------------------------------------------------
(* The state machine while the call takes a step. *)

\* The state machine is where it was while it does not step.
LEMMA SmWaits ==
    ASSUME NEW p \in Places, NEW d \in Nat, SmAt(p, d), UNCHANGED <<sm, due, clocked>>,
           Running' \/ Finished(p, d) \/ p.routine \notin Reading
    PROVE  SmAt(p, d)'
BY DEF SmAt, DueAt, Loaded, Finished, Complete, Rest, Alone, First, Sent

\* Nothing was called: a place that is finished stands for it.
LEMMA PioInvInit == PioInit => PioInv
<1> SUFFICES ASSUME PioInit PROVE PioInv
  OBVIOUS
<1> DEFINE p == [routine |-> "read_cmd", bits |-> 1, word |-> 0, left |-> 0]
           L == [k \in 0..0 |-> p]
<1>1. PioTypeOK
  BY PioTypeInit
<1>2. p \in Places /\ Complete(p) /\ p.routine \in Reading
  BY DEF Places, Complete, Sent, RoutineNames, Reading
<1>3. Len(tx) = 0 /\ L \in Trails /\ L[0] = p
  BY <1>2 DEF PioInit, Trails
<1>4. cpu.op = "none" /\ cpu.word = 0 /\ call = None
  BY DEF PioInit, Returned, Op
<1> HIDE DEF L
<1>5. Trail(L)
  <2>1. OfCall(p)
    BY <1>4 DEF OfCall
  <2>2. CpuAt(p)
    BY <1>2, <1>4 DEF CpuAt
  <2> QED
    BY <1>3, <1>4, <2>1, <2>2 DEF Trail
<1>6. Finished(p, 1)
  BY <1>2 DEF PioInit, Finished
<1>7. SmAt(L[0], 1)
  <2>1. DueAt(p, 1)
    BY DEF PioInit, DueAt
  <2>2. Rest(p, 1) = <<>>
    <3>1. Whole(0) = 0
      BY WholeFacts
    <3> QED
      BY <3>1 DEF Rest
  <2> QED
    BY <1>2, <1>3, <1>6, <2>1, <2>2 DEF PioInit, SmAt, Loaded, Looping, Complete
<1>8. Reads(L[0], 1, 0) /\ CpuOK
  BY <1>3, <1>4 DEF PioInit, Reads, Captures, Running, CpuOK
<1>9. clocked.bit = clocked.due
  BY DEF PioInit
<1> QED
  BY <1>1, <1>3, <1>5, <1>7, <1>8, <1>9 DEF PioInv, InStep

\* A call that begins is due behind all the others.
LEMMA CallStep ==
    ASSUME PioInv, PioTypeOK', NEW routine \in Routines[port], NEW bits \in 1..MaxBits,
           NEW capture \in BOOLEAN, capture => routine \in Reading,
           Call(routine, bits, capture)
    PROVE  PioInv'
<1>1. PICK L \in Trails, d \in Nat, f \in Nat : InStep(L, d, f)
  BY DEF PioInv
<1>2. PioTypeOK /\ WordBits \in Nat \ {0}
  BY PioAssumption DEF PioInv
<1> DEFINE e == [routine |-> routine, bits |-> bits, next |-> 1]
<1>3. /\ cpu = Returned /\ cpu' = Op("command", 0) /\ data' = <<>>
      /\ call' = [routine |-> routine, bits |-> bits, capture |-> capture]
      /\ due' = Append(due, e) /\ UNCHANGED <<port, tx, rx, sm, clocked>>
  BY DEF Call
<1>4. e \in Pending /\ e = First(call')
  <2>1. routine \in RoutineNames
    BY <1>2 DEF PioTypeOK, CallOK, Routines, RoutineNames
  <2> QED
    BY <1>3, <2>1, PioAssumption DEF Pending, First
<1>5. cpu'.op = "command" /\ ~Running /\ ~Running'
  BY <1>3 DEF Running, Returned, Op
<1>6. L[0] \in Places /\ d \in 0..L[0].bits /\ Trail(L) /\ SmAt(L[0], d) /\ Reads(L[0], d, f)
  <2>1. Trail(L) /\ SmAt(L[0], d) /\ Reads(L[0], d, f)
    BY <1>1 DEF InStep
  <2>2. Len(tx) \in Nat
    BY <1>2, NotEmpty DEF PioTypeOK, WireOK
  <2>3. L[0] \in Places
    BY <1>1, <2>2 DEF Trails
  <2> QED
    BY <2>1, <2>3 DEF SmAt
<1>7. L[0].left <= Len(due) /\ Len(due) \in Nat
  BY <1>2, <1>6, NotEmpty DEF SmAt, DueAt, Places, PioTypeOK, WireOK
<1> HIDE DEF e
<1>8. PICK M : M \in Trails' /\ Trail(M)' /\ M[0] = Back(L[0])
  <2>1. PICK M : M = [k \in 0..Len(tx) |-> Back(L[k])]
    OBVIOUS
  <2>2. M \in Trails' /\ Trail(M)' /\ M[0] = Back(L[0])
    BY <1>2, <1>3, <1>4, <1>5, <1>6, <1>7, <2>1, TrailCalled
  <2> QED
    BY <2>2
<1> DEFINE p == L[0]
           q == Back(L[0])
<1>9. /\ q.routine = p.routine /\ q.bits = p.bits /\ q.word = p.word /\ q.left = p.left + 1
      /\ p.left \in Nat
  BY <1>6, BackFacts
<1>10. SmAt(q, d)'
  <2>1. DueAt(q, d)'
    <3>1. Len(due') = Len(due) + 1 /\ (due # <<>> => due'[1] = due[1])
      BY <1>2, <1>3, <1>4, AppendProperties, NotEmpty DEF PioTypeOK, WireOK
    <3>2. DueAt(p, d)
      BY <1>6 DEF SmAt
    <3>3. d < p.bits => due # <<>>
      BY <1>2, <1>9, <3>2, NotEmpty DEF DueAt, PioTypeOK, WireOK
    <3> QED
      BY <1>7, <1>9, <3>1, <3>2, <3>3 DEF DueAt
  <2>2. Finished(p, d) \/ p.routine \notin Reading
    BY <1>5, <1>6 DEF SmAt, Alone
  <2>3. /\ Loaded(q, d)' = Loaded(p, d) /\ Finished(q, d)' = Finished(p, d)
        /\ Rest(q, d) = Rest(p, d) /\ Complete(q) = Complete(p) /\ Sent(q) = Sent(p)
    BY <1>3, <1>9 DEF Loaded, Finished, Complete, Sent, Rest
  <2> HIDE DEF q
  <2> QED
    BY <1>3, <1>6, <1>9, <2>1, <2>2, <2>3 DEF SmAt, Alone
<1>11. Reads(q, d, f)'
  BY <1>3, <1>5, <1>6 DEF Reads, Captures
<1>12. CpuOK'
  BY <1>3, <1>5 DEF CpuOK, Op, Captures, Returned
<1>13. (clocked.bit = clocked.due)'
  BY <1>3 DEF PioInv
<1>14. InStep(M, d, f)'
  BY <1>8, <1>10, <1>11 DEF InStep
<1> HIDE DEF q
<1> QED
  BY <1>8, <1>12, <1>13, <1>14 DEF PioInv

\* The command leads to the place where the call begins.
LEMMA CpuCommandStep ==
    ASSUME PioInv, PioTypeOK', CpuCommand PROVE PioInv'
<1>1. PICK L \in Trails, d \in Nat, f \in Nat : InStep(L, d, f)
  BY DEF PioInv
<1>2. PioTypeOK /\ CpuOK /\ clocked.bit = clocked.due
  BY DEF PioInv
<1>3. /\ cpu.op = "command" /\ cpu' = AfterWord(0)
      /\ tx' = Append(tx, CommandWord(call.routine, call.bits))
      /\ UNCHANGED <<port, call, data, rx, sm, due, clocked>>
  BY DEF CpuCommand
<1>4. call \in Calls /\ call # None
  BY <1>2, <1>3 DEF PioTypeOK, CallOK, Returned, Op
<1> DEFINE q == [routine |-> call.routine, bits |-> call.bits, word |-> 0, left |-> 0]
           n == Len(tx)
<1>5. /\ n \in Nat /\ Len(due) \in Nat
      /\ Trail(L) /\ SmAt(L[0], d) /\ Reads(L[0], d, f)
      /\ \A k \in 0..n : L[k] \in Places
      /\ CommandWord(call.routine, call.bits) \in Words
  BY <1>1, <1>2, <1>4, CellFacts, NotEmpty DEF InStep, Trails, PioTypeOK, WireOK, Calls, FullWords
<1>6. L[n].left = 1 /\ Complete(L[n]) /\ \A k \in 0..n : L[k].left >= 1
  BY <1>3, <1>5 DEF Trail, CpuAt
<1>7. /\ cpu' \in {Op("pull", 1), Op("push", 1)}
      /\ cpu' = Op("pull", 1) <=> call.routine = "read_cmd"
      /\ Running' /\ cpu'.word = 1 /\ cpu'.op \in {"pull", "push"}
      /\ cpu'.op = "pull" <=> call.routine = "read_cmd"
  <2>1. WordCount(call.bits) > 0 /\ WordCount(call.bits) \in Nat
    BY <1>4, WordCountFacts DEF Calls
  <2> QED
    BY <1>3, <1>4, <2>1, AfterWordFacts DEF Op, Running
<1>8. q \in Places /\ Follows(L[n], q, CommandWord(call.routine, call.bits))
  <2>1. q \in Places
    BY <1>4 DEF Places, Calls
  <2>2. due[Len(due) - q.left] = First(q)
    BY <1>3, <1>5 DEF Trail, First
  <2> QED
    BY <1>6, <2>1, <2>2 DEF Follows, Starts
<1>9. CpuAt(q)' /\ OfCall(q)' /\ Alone(q)'
  BY <1>3, <1>7 DEF CpuAt, OfCall, Alone
<1>10. /\ \A k \in 0..n : OfCall(L[k])'
       /\ \A k \in 1..n : Alone(L[k])'
  BY <1>6, <1>7, <1>5 DEF OfCall, Alone, Trail
<1>11. PICK M : M \in Trails' /\ Trail(M)' /\ M[0] = L[0]
  <2>1. PICK M : M = [k \in 0..(Len(tx) + 1) |-> IF k = Len(tx) + 1 THEN q ELSE L[k]]
    OBVIOUS
  <2> HIDE DEF q
  <2>2. M \in Trails' /\ Trail(M)' /\ M[0] = L[0]
    BY <1>2, <1>3, <1>5, <1>8, <1>9, <1>10, <2>1, TrailPushed DEF q
  <2> QED
    BY <2>2
<1>12. SmAt(L[0], d)'
  BY <1>3, <1>5, <1>7, SmWaits
<1>13. Reads(L[0], d, f)'
  <2>1. L[0].left # 0 /\ ~Captures
    BY <1>3, <1>5, <1>6 DEF Captures, Running
  <2>2. Pulled' = 0
    BY <1>7 DEF Pulled
  <2> QED
    BY <1>3, <1>5, <2>1, <2>2 DEF Reads
<1>14. CpuOK'
  <2>1. BitsPulled' = 0
    <3>1. Pulled' = 0
      BY <1>7 DEF Pulled
    <3>2. Whole(0) = 0
      BY WholeFacts
    <3> QED
      BY <1>3, <1>4, <3>1, <3>2 DEF BitsPulled, Calls
  <2>2. data' = <<>>
    BY <1>2, <1>3 DEF CpuOK
  <2>3. BitsOf(call.routine, 0) = <<>>
    BY DEF BitsOf
  <2> QED
    BY <1>2, <1>3, <1>7, <2>1, <2>2, <2>3 DEF CpuOK, Returned, Op, Reading
<1>15. InStep(M, d, f)'
  BY <1>11, <1>12, <1>13 DEF InStep
<1> QED
  BY <1>2, <1>3, <1>11, <1>14, <1>15 DEF PioInv

\* The places of a call are the call's, and a call that reads is alone.
LEMMA AloneAfter ==
    ASSUME NEW p, Alone(p), OfCall(p), call # None, cpu.op # "command", UNCHANGED call,
           call.routine \notin Reading \/ Running'
    PROVE  Alone(p)' /\ (Running' \/ p.routine \notin Reading)
BY DEF Alone, OfCall

\* A word of data that is pushed is the next one of the call.
LEMMA CpuPushStep ==
    ASSUME PioInv, PioTypeOK', CpuPush PROVE PioInv'
<1>1. PICK L \in Trails, d \in Nat, f \in Nat : InStep(L, d, f)
  BY DEF PioInv
<1>2. PioTypeOK /\ CpuOK /\ clocked.bit = clocked.due
  BY DEF PioInv
<1> DEFINE w == cpu.word
           n == Len(tx)
<1>3. /\ cpu.op = "push" /\ tx' = Append(tx, DataWord(call.routine, w))
      /\ cpu' = IF call.routine = "jtag" THEN Op("pull", w) ELSE AfterWord(w)
      /\ UNCHANGED <<port, call, data, rx, sm, due, clocked>>
  BY DEF CpuPush
<1>4. /\ call \in Calls /\ call # None /\ call.routine # "read_cmd" /\ call.routine \in RoutineNames
      /\ w \in 1..WordCount(call.bits) /\ WordCount(call.bits) \in Nat /\ w \in Nat \ {0}
  BY <1>2, <1>3, WordCountFacts DEF PioTypeOK, CallOK, Returned, Op, CpuOK, Calls
<1>5. /\ n \in Nat /\ Trail(L) /\ SmAt(L[0], d) /\ Reads(L[0], d, f)
      /\ \A k \in 0..n : L[k] \in Places
      /\ DataWord(call.routine, w) \in Words
  BY <1>1, <1>2, <1>4, DataWordFacts, NotEmpty DEF InStep, Trails, PioTypeOK, WireOK, FullWords
<1>6. /\ L[n].left = 0 /\ L[n].word = w - 1 /\ L[n].routine = call.routine /\ L[n].bits = call.bits
      /\ \A k \in 0..n : OfCall(L[k])
      /\ \A k \in 1..n : Alone(L[k])
  BY <1>3, <1>4, <1>5 DEF Trail, CpuAt, OfCall
<1>0. PICK q : q = [routine |-> call.routine, bits |-> call.bits, word |-> w, left |-> 0]
  OBVIOUS
<1>7. /\ cpu'.op \notin {"none", "command"} \/ call.routine = "write_cmd"
      /\ cpu'.op # "command"
      /\ cpu'.op = "push" => cpu'.word = w + 1
      /\ cpu'.op = "pull" => call.routine = "jtag" /\ cpu'.word = w
      /\ cpu'.op \notin {"push", "pull"} => w = WordCount(call.bits)
      /\ cpu'.op = "drain" => call.routine = "swj_clock"
      /\ cpu'.op # "extra"
  <2>1. CASE call.routine = "jtag"
    BY <1>3, <2>1 DEF Op
  <2>2. CASE call.routine # "jtag" /\ w < WordCount(call.bits)
    <3>1. cpu' = Op("push", w + 1)
      BY <1>3, <1>4, <2>2, AfterWordFacts
    <3>2. cpu'.op = "push" /\ cpu'.word = w + 1
      BY <3>1 DEF Op
    <3> QED
      BY <3>2
  <2>3. CASE call.routine # "jtag" /\ w = WordCount(call.bits)
    <3>1. AfterWord(w) = IF call.routine = "swj_clock" THEN Op("drain", 0) ELSE Returned
      <4>1. call.routine \notin Reading
        BY <1>4, <2>3 DEF Reading
      <4>2. w >= WordCount(call.bits) /\ w \in Nat
        BY <1>4, <2>3
      <4> QED
        BY <1>4, <4>1, <4>2, AfterWordFacts
    <3>2. cpu' = AfterWord(w)
      BY <1>3, <2>3
    <3>3. call.routine \in {"swj_clock", "write_cmd"}
      BY <1>4, <2>3 DEF RoutineNames
    <3> QED
      BY <2>3, <3>1, <3>2, <3>3 DEF Op, Returned
  <2> QED
    BY <1>4, <2>1, <2>2, <2>3
<1>8. q \in Places /\ Follows(L[n], q, DataWord(call.routine, w)) /\ q.left = 0
  <2>1. q \in Places
    BY <1>0, <1>4 DEF Places, Calls
  <2>2. L[n].word < Sent(L[n])
    BY <1>4, <1>6 DEF Sent
  <2>3. q = [L[n] EXCEPT !.word = @ + 1]
    <3>1. L[n] \in Places /\ L[n].word + 1 = w
      BY <1>4, <1>5, <1>6
    <3> QED
      BY <1>0, <1>6, <3>1 DEF Places
  <2> QED
    BY <1>0, <1>6, <2>1, <2>2, <2>3 DEF Follows, Continues
<1>9. CpuAt(q)' /\ OfCall(q)' /\ Alone(q)'
  <2>1. cpu'.op \notin {"push", "pull"} => q.word = Sent(q)
    BY <1>0, <1>4, <1>7 DEF Sent
  <2>2. CpuAt(q)'
    BY <1>0, <1>3, <1>4, <1>7, <2>1 DEF CpuAt, Complete, Sent
  <2>3. OfCall(q)' /\ Alone(q)'
    BY <1>0, <1>3, <1>7 DEF OfCall, Alone, Running, Reading
  <2> QED
    BY <2>2, <2>3
<1>10. Running' \/ call.routine \notin Reading
  BY <1>7 DEF Running, Reading
<1>11. /\ \A k \in 0..n : OfCall(L[k])'
       /\ \A k \in 1..n : Alone(L[k])'
  <2>1. \A k \in 0..n : OfCall(L[k])'
    BY <1>3, <1>6 DEF OfCall
  <2> QED
    BY <1>3, <1>4, <1>5, <1>6, <1>10, <2>1, AloneAfter
<1>12. PICK M : M \in Trails' /\ Trail(M)' /\ M[0] = L[0]
  <2>1. PICK M : M = [k \in 0..(Len(tx) + 1) |-> IF k = Len(tx) + 1 THEN q ELSE L[k]]
    OBVIOUS
  <2>2. M \in Trails' /\ Trail(M)' /\ M[0] = L[0]
    BY <1>2, <1>3, <1>5, <1>8, <1>9, <1>11, <2>1, TrailPushed
  <2> QED
    BY <2>2
<1>13. SmAt(L[0], d)'
  <2>1. Alone(L[0]) => Running' \/ L[0].routine \notin Reading
    BY <1>3, <1>4, <1>5, <1>6, <1>10, AloneAfter
  <2>2. Running' \/ Finished(L[0], d) \/ L[0].routine \notin Reading
    BY <1>5, <2>1 DEF SmAt
  <2> QED
    BY <1>3, <1>5, <2>2, SmWaits
<1>14. (Captures' <=> Captures) /\ (Captures => Pulled' = Pulled /\ cpu'.op = "pull")
  <2>1. CASE call.routine = "jtag"
    BY <1>3, <2>1 DEF Captures, Running, Pulled, Op
  <2>2. CASE call.routine # "jtag"
    BY <1>3, <1>4, <2>2 DEF Captures, Reading
  <2> QED
    BY <2>1, <2>2
<1>15. Reads(L[0], d, f)'
  BY <1>3, <1>5, <1>14 DEF Reads, Pushed, Finished, Complete, Sent, ShiftedBits, WordRead
<1>16. CpuOK'
  BY <1>2, <1>3, <1>4, <1>7, <1>14 DEF CpuOK, BitsPulled, Returned, Op, Reading
<1>17. InStep(M, d, f)'
  BY <1>12, <1>13, <1>15 DEF InStep
<1> QED
  BY <1>2, <1>3, <1>12, <1>16, <1>17 DEF PioInv

\* A step of the call that pushes nothing, and where its reading stands.
LEMMA CpuOnly ==
    ASSUME PioInv, PioTypeOK', UNCHANGED <<call, tx, sm, due, clocked>>,
           NEW L \in Trails, NEW d \in Nat, NEW f \in Nat, InStep(L, d, f),
           call # None, cpu.op # "command", cpu'.op # "command",
           CpuAt(L[Len(tx)])', Reads(L[0], d, f)', CpuOK',
           Running' \/ (tx = <<>> /\ (Finished(L[0], d) \/ call.routine \notin Reading))
    PROVE  PioInv'
<1>1. /\ Trail(L) /\ SmAt(L[0], d) /\ PioTypeOK /\ clocked.bit = clocked.due
  BY DEF PioInv, InStep
<1>2. Running' \/ Len(tx) = 0
  OBVIOUS
<1>3. L \in Trails' /\ Trail(L)'
  BY <1>1, <1>2, TrailCpu
<1>4. SmAt(L[0], d)'
  <2>1. L[0] \in Places /\ OfCall(L[0])
    BY <1>1, NotEmpty DEF Trails, Trail, PioTypeOK, WireOK
  <2>2. Alone(L[0]) \/ Finished(L[0], d)
    BY <1>1 DEF SmAt
  <2>3. Running' \/ Finished(L[0], d) \/ L[0].routine \notin Reading
    BY <2>1, <2>2, AloneAfter
  <2> QED
    BY <1>1, <2>1, <2>3, SmWaits
<1>5. InStep(L, d, f)'
  BY <1>3, <1>4 DEF InStep
<1> QED
  BY <1>1, <1>3, <1>5 DEF PioInv

\* swj_sequence returns when the queue is empty.
LEMMA CpuDrainStep ==
    ASSUME PioInv, PioTypeOK', CpuDrain PROVE PioInv'
<1>1. PICK L \in Trails, d \in Nat, f \in Nat : InStep(L, d, f)
  BY DEF PioInv
<1>2. /\ cpu.op = "drain" /\ tx = <<>> /\ cpu' = Returned
      /\ UNCHANGED <<port, call, data, tx, rx, sm, due, clocked>>
  BY DEF CpuDrain
<1>3. PioTypeOK /\ CpuOK /\ call.routine = "swj_clock" /\ call \in Calls /\ call # None
  BY <1>2 DEF PioInv, CpuOK, PioTypeOK, CallOK, Returned, Op
<1>4. Trail(L) /\ Reads(L[0], d, f)
  BY <1>1 DEF InStep
<1>5. ~Captures /\ ~Captures' /\ call.routine \notin Reading /\ ~call.capture
  BY <1>2, <1>3 DEF Captures, Reading, CpuOK, Calls
<1>6. CpuAt(L[Len(tx)])'
  BY <1>2, <1>4 DEF Trail, CpuAt, Returned, Op, Complete, Sent
<1>7. Reads(L[0], d, f)'
  BY <1>2, <1>4, <1>5 DEF Reads
<1>8. CpuOK'
  BY <1>2, <1>3, <1>5 DEF CpuOK, Returned, Op
<1> QED
  BY <1>1, <1>2, <1>3, <1>5, <1>6, <1>7, <1>8, CpuOnly DEF Returned, Op

\* The first bits of a call and the ones behind them are the first bits of it.
LEMMA ConcatBits ==
    ASSUME NEW r \in RoutineNames, NEW start \in Nat, NEW n \in Nat, NEW s \in Seq(Cells),
           Len(s) = n, \A i \in 1..n : s[i] = Bit(r, start + i)
    PROVE  BitsOf(r, start) \o s = BitsOf(r, start + n)
<1> DEFINE old == BitsOf(r, start)
           t == old \o s
<1>1. old \in Seq(Cells) /\ Len(old) = start /\ \A k \in 1..start : old[k] = Bit(r, k)
  <2>1. \A k \in 1..start : Bit(r, k) \in Cells
    BY CellFacts
  <2>2. old = [k \in 1..start |-> Bit(r, k)]
    BY DEF BitsOf
  <2>3. old \in [1..start -> Cells] /\ \A k \in 1..start : old[k] = Bit(r, k)
    BY <2>1, <2>2
  <2> HIDE DEF old
  <2> QED
    BY <2>3
<1> HIDE DEF old
<1>2. /\ t \in Seq(Cells) /\ Len(t) = start + n
      /\ \A i \in 1..(start + n) : t[i] = IF i <= start THEN old[i] ELSE s[i - start]
  BY <1>1, ConcatProperties
<1> HIDE DEF t
<1>3. ASSUME NEW k \in 1..(start + n) PROVE t[k] = Bit(r, k)
  <2>1. CASE k <= start
    BY <1>1, <1>2, <2>1
  <2>2. CASE ~(k <= start)
    <3>1. k - start \in 1..n /\ start + (k - start) = k
      BY <2>2
    <3> QED
      BY <1>2, <2>2, <3>1
  <2> QED
    BY <2>1, <2>2
<1>4. DOMAIN t = 1..(start + n) /\ t = [k \in DOMAIN t |-> t[k]]
  BY <1>2
<1> QED
  BY <1>3, <1>4 DEF t, old, BitsOf

\* A word that was read, cut to its bits, goes on where the others ended.
LEMMA WordAdded ==
    ASSUME call \in Calls, NEW w \in 1..WordCount(call.bits), NEW word \in FullWords,
           WordRead(word, w)
    PROVE  /\ InWord(call.bits, w) \in Nat /\ Whole(w - 1) \in Nat /\ Whole(w - 1) < call.bits
           /\ Whole(w - 1) + InWord(call.bits, w)
                = IF Whole(w) < call.bits THEN Whole(w) ELSE call.bits
           /\ BitsOf(call.routine, Whole(w - 1))
                \o SubSeq(word, WordBits - InWord(call.bits, w) + 1, WordBits)
                = BitsOf(call.routine, Whole(w - 1) + InWord(call.bits, w))
<1>0. PICK n, start : n = InWord(call.bits, w) /\ start = Whole(w - 1)
  OBVIOUS
<1>1. PICK b \in Nat \ {0} : b = call.bits
  BY DEF Calls
<1>2. call.routine \in RoutineNames /\ WordBits \in Nat \ {0}
  BY PioAssumption DEF Calls
<1>3. WordCount(b) \in Nat \ {0} /\ Whole(WordCount(b) - 1) < b /\ w \in 1..WordCount(b) /\ w \in Int
  BY <1>1, WordCountFacts
<1>4. /\ start \in Nat /\ start <= Whole(WordCount(b) - 1) /\ Whole(w) = start + WordBits
      /\ Whole(WordCount(b) - 1) \in Int
  BY <1>0, <1>3, WholeFacts
<1>5. start < b
  BY <1>3, <1>4
<1>6. n = IF b - start < WordBits THEN b - start ELSE WordBits
  BY <1>0, <1>1, <1>3, InWordFacts
<1>7. n \in 1..WordBits /\ start + n = IF Whole(w) < b THEN Whole(w) ELSE b
  BY <1>2, <1>4, <1>5, <1>6
<1> DEFINE s == SubSeq(word, WordBits - n + 1, WordBits)
<1>8. s \in Seq(Cells) /\ Len(s) = n /\ \A i \in 1..n : s[i] = word[WordBits - n + i]
  <2>1. \A i \in (WordBits - n + 1)..WordBits : word[i] \in Cells
    BY <1>2, <1>7 DEF FullWords, Words
  <2>2. WordBits - n + 1 \in Int /\ WordBits - n + 1 <= WordBits
    BY <1>2, <1>7
  <2>3. /\ s \in Seq(Cells) /\ Len(s) = WordBits - (WordBits - n + 1) + 1
        /\ \A i \in 1..(WordBits - (WordBits - n + 1) + 1) : s[i] = word[(WordBits - n + 1) + i - 1]
    BY <1>2, <2>1, <2>2, SubSeqProperties
  <2>4. WordBits - (WordBits - n + 1) + 1 = n /\ \A i \in 1..n : (WordBits - n + 1) + i - 1 = WordBits - n + i
    BY <1>2, <1>7
  <2> QED
    BY <2>3, <2>4
<1> HIDE DEF s
<1>9. \A i \in 1..n : s[i] = Bit(call.routine, start + i)
  <2>1. \A i \in 1..n : word[WordBits - n + i] = Bit(call.routine, start + i)
    BY <1>0, <1>1, <1>2, <1>7 DEF WordRead
  <2> QED
    BY <1>8, <2>1
<1>10. BitsOf(call.routine, start) \o s = BitsOf(call.routine, start + n)
  <2>1. n \in Nat
    BY <1>2, <1>7
  <2>2. \A r \in RoutineNames :
            (\A i \in 1..n : s[i] = Bit(r, start + i)) => BitsOf(r, start) \o s = BitsOf(r, start + n)
    BY <1>4, <1>8, <2>1, ConcatBits
  <2> QED
    BY <1>2, <1>9, <2>2
<1>11. n \in Nat
  BY <1>2, <1>7
<1> QED
  BY <1>0, <1>1, <1>4, <1>5, <1>7, <1>10, <1>11 DEF s

\* When the last word is there, the state machine is done with the call.
LEMMA LastWord ==
    ASSUME PioTypeOK, NEW p \in Places, NEW d \in Nat, NEW f \in Nat, SmAt(p, d), Pushed(p, d, f),
           call \in Calls, p.bits = call.bits, f >= AllWords(call.bits)
    PROVE  Finished(p, d) /\ f = AllWords(call.bits) /\ sm.count = 0
<1> DEFINE b == call.bits
           c == WordCount(b)
<1>1. /\ b \in Nat \ {0} /\ c \in Nat \ {0} /\ b <= Whole(c) /\ (ExtraPull(b) <=> Whole(c) = b)
      /\ WordBits \in Nat \ {0} /\ sm.count \in Nat /\ d \in 0..b
  BY PioAssumption, WordCountFacts DEF Calls, PioTypeOK, WireOK, StateMachines, Counts, SmAt
<1>2. f >= c /\ (ExtraPull(b) => f >= c + 1)
  BY <1>1 DEF AllWords
<1> HIDE DEF c, b
<1>3. Whole(f) >= Whole(c) /\ (ExtraPull(b) => Whole(f) >= Whole(c) + WordBits)
      /\ Whole(f) \in Int /\ Whole(c) \in Int
  BY <1>1, <1>2, WholeFacts
<1>4. Whole(f) > b
  BY <1>1, <1>3
<1>5. ShiftedBits(d) <= b /\ ShiftedBits(d) \in Int
  BY <1>1 DEF ShiftedBits
<1>6. Finished(p, d)
  BY <1>1, <1>3, <1>4, <1>5 DEF Pushed
<1> QED
  BY <1>6 DEF Pushed

\* A word is there only for the call that reads it.
LEMMA RxFacts ==
    ASSUME PioTypeOK, CpuOK, NEW L \in Trails, NEW d \in Nat, NEW f \in Nat, InStep(L, d, f),
           rx # <<>>
    PROVE  /\ call \in Calls /\ call # None /\ Captures
           /\ L[0] \in Places /\ L[0].left = 0
           /\ L[0].routine = call.routine /\ L[0].bits = call.bits
           /\ Pushed(L[0], d, f) /\ SmAt(L[0], d) /\ Trail(L)
           /\ Len(rx) \in Nat /\ Len(rx) > 0 /\ Head(rx) = rx[1] /\ rx[1] \in FullWords
           /\ Tail(rx) \in Seq(FullWords) /\ Len(Tail(rx)) = Len(rx) - 1
           /\ \A i \in 1..Len(Tail(rx)) : Tail(rx)[i] = rx[i + 1]
<1>1. Captures /\ L[0].left = 0 /\ Pushed(L[0], d, f) /\ SmAt(L[0], d) /\ Trail(L)
  BY DEF InStep, Reads
<1>2. call \in Calls /\ call # None /\ cpu.op # "command"
  BY <1>1 DEF Captures, Running, PioTypeOK, CallOK, Returned, Op
<1>3. L[0] \in Places /\ OfCall(L[0])
  BY <1>1, NotEmpty DEF Trails, Trail, PioTypeOK, WireOK
<1>4. /\ Len(rx) \in Nat /\ Len(rx) > 0 /\ Head(rx) = rx[1] /\ rx[1] \in FullWords
      /\ Tail(rx) \in Seq(FullWords) /\ Len(Tail(rx)) = Len(rx) - 1
      /\ \A i \in 1..Len(Tail(rx)) : Tail(rx)[i] = rx[i + 1]
  BY NotEmpty, HeadTailProperties DEF PioTypeOK, WireOK
<1> QED
  BY <1>1, <1>2, <1>3, <1>4 DEF OfCall

\* The word that is pulled is the next one of the call.
LEMMA ReadsPulled ==
    ASSUME PioTypeOK, CpuOK, NEW L \in Trails, NEW d \in Nat, NEW f \in Nat, InStep(L, d, f),
           rx # <<>>, rx' = Tail(rx), UNCHANGED <<call, sm>>,
           Captures', Pulled' = Pulled + 1, Pulled \in Nat
    PROVE  Reads(L[0], d, f)'
<1>1. Captures /\ L[0].left = 0 /\ Pushed(L[0], d, f)
  BY RxFacts
<1>2. /\ Len(rx) \in Nat /\ Len(rx') = Len(rx) - 1 /\ \A i \in 1..Len(rx') : rx'[i] = rx[i + 1]
  BY RxFacts
<1>3. Len(rx') = f - Pulled'
  <2>1. Len(rx) = f - Pulled
    BY <1>1 DEF Pushed
  <2> QED
    BY <1>2, <2>1
<1>4. ASSUME NEW i \in 1..Len(rx') PROVE WordRead(rx[i], Pulled + i)'
  <2>1. i + 1 \in 1..Len(rx) /\ Pulled + (i + 1) = Pulled' + i
    BY <1>2
  <2>2. WordRead(rx[i + 1], Pulled + (i + 1))
    BY <1>1, <2>1 DEF Pushed
  <2> QED
    BY <1>2, <2>1, <2>2 DEF WordRead
<1>5. Pushed(L[0], d, f)'
  BY <1>1, <1>3, <1>4 DEF Pushed, Finished, Complete, Sent, ShiftedBits
<1> QED
  BY <1>1, <1>5 DEF Reads

\* A pull takes the next bits, and after the last word nothing is left.
LEMMA CpuPullStep ==
    ASSUME PioInv, PioTypeOK', CpuPull PROVE PioInv'
<1>1. PICK L \in Trails, d \in Nat, f \in Nat : InStep(L, d, f)
  BY DEF PioInv
<1>2. PioTypeOK /\ CpuOK /\ clocked.bit = clocked.due
  BY DEF PioInv
<1>0. PICK w, n : w = cpu.word /\ n = InWord(call.bits, w)
  OBVIOUS
<1> DEFINE c == WordCount(call.bits)
           word == SubSeq(rx[1], WordBits - n + 1, WordBits)
<1>3. /\ cpu.op = "pull" /\ rx # <<>> /\ rx' = Tail(rx) /\ cpu' = AfterWord(w)
      /\ UNCHANGED <<port, call, tx, sm, due, clocked>>
  BY <1>0 DEF CpuPull
<1>4. data' = IF call.capture THEN data \o word ELSE data
  <2>1. Head(rx) = rx[1]
    BY <1>1, <1>2, <1>3, RxFacts
  <2> QED
    BY <1>0, <2>1 DEF CpuPull
<1>5. /\ call \in Calls /\ call # None /\ call.routine \in Reading
      /\ L[0] \in Places /\ L[0].left = 0 /\ L[0].bits = call.bits
      /\ Pushed(L[0], d, f) /\ SmAt(L[0], d) /\ Trail(L) /\ Captures
      /\ rx[1] \in FullWords /\ Len(rx) > 0 /\ Len(rx) \in Nat
  BY <1>1, <1>2, <1>3, RxFacts DEF Captures
<1>6. c \in Nat \ {0} /\ w \in 1..c /\ w \in Nat /\ Pulled = w - 1 /\ Pulled \in Nat
  <2>1. w \in 1..c
    BY <1>0, <1>2, <1>3 DEF PioTypeOK, CallOK
  <2>2. c \in Nat \ {0}
    BY <1>5, WordCountFacts DEF Calls
  <2> QED
    BY <1>0, <1>3, <2>1, <2>2 DEF Pulled
<1> HIDE DEF c
<1>7. WordRead(rx[1], w) /\ f >= w
  <2>1. WordRead(rx[1], Pulled + 1) /\ Len(rx) = f - Pulled
    BY <1>5 DEF Pushed
  <2>2. Pulled + 1 = w
    BY <1>6
  <2> QED
    BY <1>5, <1>6, <2>1, <2>2
<1>8. PICK start : start = Whole(w - 1)
  OBVIOUS
<1>9. /\ n \in Nat /\ start \in Nat /\ start < call.bits
      /\ start + n = IF Whole(w) < call.bits THEN Whole(w) ELSE call.bits
      /\ BitsOf(call.routine, start) \o word = BitsOf(call.routine, start + n)
  <2>1. w \in 1..WordCount(call.bits)
    BY <1>6 DEF c
  <2> QED
    BY <1>0, <1>5, <1>7, <1>8, <2>1, WordAdded
<1> HIDE DEF word
<1>10. BitsPulled = start
  BY <1>6, <1>8, <1>9 DEF BitsPulled
<1>11. data' = IF call.capture THEN BitsOf(call.routine, start + n) ELSE <<>>
  BY <1>2, <1>4, <1>5, <1>9, <1>10 DEF CpuOK
<1>12. CASE w < c \/ ExtraPull(call.bits)
  <2>1. /\ Captures' /\ cpu'.op \notin {"command", "none"} /\ Running'
        /\ cpu'.op = "push" => w < c /\ call.routine # "read_cmd" /\ cpu'.word = w + 1
        /\ cpu'.op = "pull" => w < c /\ call.routine = "read_cmd" /\ cpu'.word = w + 1
        /\ cpu'.op \notin {"push", "pull"} => cpu'.op = "extra" /\ ExtraPull(call.bits) /\ w = c
    <3>1. CASE w < c
      <4>1. cpu' = IF call.routine = "read_cmd" THEN Op("pull", w + 1) ELSE Op("push", w + 1)
        BY <1>3, <1>5, <1>6, <3>1, AfterWordFacts DEF c
      <4> QED
        BY <1>3, <1>5, <3>1, <4>1 DEF Captures, Running, Op
    <3>2. CASE ~(w < c)
      <4>1. w = c /\ ExtraPull(call.bits) /\ call.routine # "swj_clock"
        BY <1>5, <1>6, <1>12, <3>2 DEF Reading
      <4>2. cpu' = Op("extra", 0)
        BY <1>3, <1>5, <1>6, <4>1, AfterWordFacts DEF c
      <4> QED
        BY <1>3, <1>5, <4>1, <4>2 DEF Captures, Running, Op
    <3> QED
      BY <3>1, <3>2
  <2>2. Pulled' = Pulled + 1 /\ Pulled' = w
    BY <1>3, <1>6, <2>1 DEF Pulled, c
  <2>3. Reads(L[0], d, f)'
    BY <1>1, <1>2, <1>3, <1>6, <2>1, <2>2, ReadsPulled
  <2>4. CpuAt(L[Len(tx)])'
    <3>1. CpuAt(L[Len(tx)]) /\ Len(tx') = Len(tx)
      BY <1>3, <1>5 DEF Trail
    <3>2. L[Len(tx)].routine = call.routine /\ L[Len(tx)].bits = call.bits
      BY <1>3, <1>5, <1>2, <3>1, NotEmpty DEF Trail, OfCall, CpuAt, PioTypeOK, WireOK
    <3>3. L[Len(tx)].word = IF call.routine = "jtag" THEN w ELSE 0
      BY <1>0, <1>3, <3>1 DEF CpuAt
    <3>4. call.routine \in {"jtag", "read_cmd"}
      BY <1>5 DEF Reading
    <3> QED
      BY <1>3, <1>6, <2>1, <3>1, <3>2, <3>3, <3>4 DEF CpuAt, Complete, Sent, c
  <2>5. BitsPulled' = start + n
    BY <1>3, <1>9, <2>2 DEF BitsPulled
  <2>6. CpuOK'
    BY <1>3, <1>5, <1>11, <2>1, <2>5 DEF CpuOK, Returned, Op
  <2> QED
    BY <1>1, <1>3, <1>5, <2>1, <2>3, <2>4, <2>6, CpuOnly
<1>13. CASE w = c /\ ~ExtraPull(call.bits)
  <2>1. cpu' = Returned
    <3>1. w >= WordCount(call.bits) /\ call.routine # "swj_clock"
      BY <1>5, <1>6, <1>13 DEF c, Reading
    <3>2. AfterWord(w) = Returned
      BY <1>5, <1>6, <1>13, <3>1, AfterWordFacts
    <3> QED
      BY <1>3, <3>2
  <2>2. AllWords(call.bits) = c
    BY <1>6, <1>13 DEF AllWords, c
  <2>3. Finished(L[0], d) /\ f = c /\ sm.count = 0
    BY <1>2, <1>5, <1>6, <1>7, <1>13, <2>2, LastWord
  <2>4. rx' = <<>>
    <3>1. Len(rx) = f - Pulled
      BY <1>5 DEF Pushed
    <3>2. Len(rx) = 1
      BY <1>6, <1>13, <2>3, <3>1
    <3>3. Tail(rx) \in Seq(FullWords) /\ Len(Tail(rx)) = Len(rx) - 1
      BY <1>1, <1>2, <1>3, RxFacts
    <3>4. Len(Tail(rx)) = 0
      BY <3>2, <3>3
    <3> QED
      BY <1>3, <3>3, <3>4
  <2>5. tx = <<>>
    BY <1>2, <1>5, <2>3, NoMore DEF Finished
  <2>6. ~Captures' /\ cpu'.op = "none"
    BY <2>1 DEF Captures, Running, Returned, Op
  <2>7. Reads(L[0], d, f)'
    BY <1>3, <2>3, <2>4, <2>6 DEF Reads
  <2>8. CpuAt(L[Len(tx)])'
    <3>1. Len(tx) = 0 /\ Complete(L[0])
      BY <2>3, <2>5 DEF Finished
    <3> QED
      BY <1>3, <1>5, <2>6, <3>1 DEF CpuAt, Complete, Sent
  <2>9. start + n = call.bits
    <3>1. call.bits \in Nat \ {0} /\ call.bits <= Whole(w)
      BY <1>5, <1>13, WordCountFacts DEF Calls, c
    <3>2. Whole(w) \in Int
      BY <1>6, WholeFacts
    <3> QED
      BY <1>9, <3>1, <3>2
  <2>10. CpuOK'
    BY <1>3, <1>5, <1>11, <2>5, <2>6, <2>9 DEF CpuOK, Reading
  <2> QED
    BY <1>1, <1>3, <1>5, <2>3, <2>5, <2>6, <2>7, <2>8, <2>10, CpuOnly
<1> QED
  BY <1>6, <1>12, <1>13

\* The extra pull takes the empty word behind the last whole one.
LEMMA CpuExtraStep ==
    ASSUME PioInv, PioTypeOK', CpuExtra PROVE PioInv'
<1>1. PICK L \in Trails, d \in Nat, f \in Nat : InStep(L, d, f)
  BY DEF PioInv
<1>2. PioTypeOK /\ CpuOK /\ clocked.bit = clocked.due
  BY DEF PioInv
<1>3. /\ cpu.op = "extra" /\ rx # <<>> /\ rx' = Tail(rx) /\ cpu' = Returned
      /\ UNCHANGED <<port, call, data, tx, sm, due, clocked>>
  BY DEF CpuExtra
<1>4. /\ call \in Calls /\ call # None /\ call.routine \in Reading /\ ExtraPull(call.bits)
      /\ L[0] \in Places /\ L[0].left = 0 /\ L[0].bits = call.bits
      /\ Pushed(L[0], d, f) /\ SmAt(L[0], d) /\ Trail(L) /\ Captures
      /\ Len(rx) > 0 /\ Len(rx) \in Nat
  BY <1>1, <1>2, <1>3, RxFacts DEF CpuOK
<1> DEFINE c == WordCount(call.bits)
<1>5. c \in Nat \ {0} /\ Whole(c) = call.bits /\ Pulled = c /\ AllWords(call.bits) = c + 1
  BY <1>3, <1>4, WordCountFacts DEF Calls, Pulled, AllWords
<1> HIDE DEF c
<1>6. Len(rx) = f - c
  BY <1>4, <1>5 DEF Pushed
<1>7. Finished(L[0], d) /\ f = c + 1 /\ sm.count = 0
  <2>1. f >= c + 1
    BY <1>4, <1>5, <1>6
  <2> QED
    BY <1>2, <1>4, <1>5, <2>1, LastWord
<1>8. rx' = <<>>
  <2>1. Len(rx) = 1
    BY <1>5, <1>6, <1>7
  <2>2. Tail(rx) \in Seq(FullWords) /\ Len(Tail(rx)) = Len(rx) - 1
    BY <1>1, <1>2, <1>3, RxFacts
  <2>3. Len(Tail(rx)) = 0
    BY <2>1, <2>2
  <2> QED
    BY <1>3, <2>2, <2>3
<1>9. tx = <<>> /\ Len(tx) = 0 /\ Complete(L[0])
  BY <1>2, <1>4, <1>7, NoMore DEF Finished
<1>10. ~Captures' /\ cpu'.op = "none"
  BY <1>3 DEF Captures, Running, Returned, Op
<1>11. Reads(L[0], d, f)'
  BY <1>3, <1>7, <1>8, <1>10 DEF Reads
<1>12. CpuAt(L[Len(tx)])'
  BY <1>3, <1>4, <1>9, <1>10 DEF CpuAt, Complete, Sent
<1>13. BitsPulled = call.bits
  <2>1. ~(Whole(c) < call.bits)
    BY <1>4, <1>5 DEF Calls
  <2> QED
    BY <1>5, <2>1 DEF BitsPulled
<1>14. CpuOK'
  BY <1>2, <1>3, <1>4, <1>9, <1>10, <1>13 DEF CpuOK, Reading
<1> QED
  BY <1>1, <1>3, <1>4, <1>7, <1>9, <1>10, <1>11, <1>12, <1>14, CpuOnly

-----------------------------------------------------------------------------
(* The steps of the state machine. *)

\* The next bit is the first of what is left.
LEMMA RestFacts ==
    ASSUME NEW p \in Places, NEW d \in Nat
    PROVE  /\ Rest(p, d) \in Seq(Cells) /\ Whole(p.word) \in Nat
           /\ Len(Rest(p, d)) = IF d < Whole(p.word) THEN Whole(p.word) - d ELSE 0
           /\ Rest(p, d) # <<>> <=> d < Whole(p.word)
           /\ d < Whole(p.word) => /\ Head(Rest(p, d)) = Bit(p.routine, d + 1)
                                  /\ Tail(Rest(p, d)) = Rest(p, d + 1)
<1>0. PICK r, n : r = p.routine /\ n = Whole(p.word)
  OBVIOUS
<1>1. n \in Nat /\ r \in RoutineNames /\ Rest(p, d) = [k \in 1..(n - d) |-> Bit(r, d + k)]
  <2>1. p.word \in Nat /\ p.word \in Int /\ r \in RoutineNames
    BY <1>0 DEF Places
  <2> QED
    BY <1>0, <2>1, WholeFacts DEF Rest
<1> DEFINE s == [k \in 1..(n - d) |-> Bit(r, d + k)]
<1>2. \A k \in 1..(n - d) : Bit(r, d + k) \in Cells
  BY <1>1, CellFacts
<1>3. CASE ~(d < n)
  <2>1. Rest(p, d) = <<>>
    BY <1>1, <1>3
  <2>2. <<>> \in Seq(Cells) /\ Len(<<>>) = 0
    OBVIOUS
  <2>3. ~(d < Whole(p.word)) /\ Whole(p.word) \in Nat
    BY <1>0, <1>1, <1>3
  <2> HIDE DEF s
  <2> QED
    BY <2>1, <2>2, <2>3
<1>4. CASE d < n
  <2>1. n - d \in Nat \ {0}
    BY <1>1, <1>4
  <2>2. s \in Seq(Cells) /\ Len(s) = n - d /\ s # <<>> /\ Head(s) = Bit(r, d + 1)
    BY <1>2, <2>1
  <2>3. Tail(s) = [k \in 1..(n - (d + 1)) |-> Bit(r, (d + 1) + k)]
    <3>1. Tail(s) = [k \in 1..(n - d - 1) |-> s[k + 1]]
      BY <2>1, <2>2
    <3>2. \A k \in 1..(n - d - 1) : s[k + 1] = Bit(r, (d + 1) + k)
      BY <1>1, <2>1
    <3>3. n - d - 1 = n - (d + 1)
      BY <1>1
    <3> QED
      BY <3>1, <3>2, <3>3
  <2>4. Rest(p, d + 1) = [k \in 1..(n - (d + 1)) |-> Bit(r, (d + 1) + k)]
    BY <1>0 DEF Rest
  <2>5. Rest(p, d) = s
    BY <1>1
  <2> HIDE DEF s
  <2> QED
    BY <1>0, <1>1, <1>4, <2>2, <2>3, <2>4, <2>5
<1> QED
  BY <1>3, <1>4

\* When the words hold all the bits of a call, they are all the words of it.
LEMMA LastPlace ==
    ASSUME NEW p \in Places, p.routine # "read_cmd", p.word <= Sent(p), p.bits <= Whole(p.word)
    PROVE  Complete(p)
<1> DEFINE c == WordCount(p.bits)
<1>1. /\ c \in Nat \ {0} /\ Whole(c - 1) < p.bits /\ p.bits \in Nat /\ p.word \in Nat
      /\ Sent(p) = c
  BY WordCountFacts DEF Places, Sent
<1> HIDE DEF c
<1>2. p.word \in Int /\ c - 1 \in Int
  BY <1>1
<1>3. /\ p.word <= c - 1 => Whole(p.word) <= Whole(c - 1)
      /\ Whole(p.word) \in Int /\ Whole(c - 1) \in Int
  BY <1>2, WholeFacts
<1>4. ~(p.word <= c - 1)
  BY <1>1, <1>3
<1> QED
  BY <1>1, <1>4 DEF Complete

\* A step of the state machine leaves what the call has as it was.
LEMMA SmOnly ==
    ASSUME PioInv, PioTypeOK', UNCHANGED cpuVars, tx = <<>> => tx' = <<>>,
           (clocked.bit = clocked.due)',
           NEW M, M \in Trails', NEW d \in Nat, NEW f \in Nat, InStep(M, d, f)'
    PROVE  PioInv'
<1>1. CpuOK'
  BY DEF PioInv, cpuVars, CpuOK, Captures, Running, BitsPulled, Pulled
<1> QED
  BY <1>1 DEF PioInv

\* The place of the state machine, of the call when it reads.
LEMMA PlaceFacts ==
    ASSUME PioTypeOK, NEW L \in Trails, NEW d \in Nat, NEW f \in Nat, InStep(L, d, f)
    PROVE  /\ L[0] \in Places /\ Trail(L) /\ SmAt(L[0], d) /\ Reads(L[0], d, f)
           /\ OfCall(L[0]) /\ L[0].left \in Nat /\ L[0].bits \in Nat \ {0}
           /\ Captures => call \in Calls /\ call # None /\ cpu.op # "command"
           /\ Alone(L[0]) /\ L[0].routine \in Reading =>
                /\ Captures /\ L[0].left = 0 /\ Pushed(L[0], d, f)
                /\ L[0].routine = call.routine /\ L[0].bits = call.bits
           /\ L[0].routine \notin Reading => ~(Captures /\ L[0].left = 0)
<1>1. /\ L[0] \in Places /\ Trail(L) /\ SmAt(L[0], d) /\ Reads(L[0], d, f)
      /\ OfCall(L[0]) /\ L[0].left \in Nat /\ L[0].bits \in Nat \ {0}
  BY NotEmpty DEF InStep, Trails, Trail, PioTypeOK, WireOK, Places
<1>2. Running => call \in Calls /\ call # None /\ cpu.op # "command"
  BY DEF Running, PioTypeOK, CallOK, Returned, Op
<1>3. Captures => Running /\ call.routine \in Reading
  BY DEF Captures
<1>4. Alone(L[0]) /\ L[0].routine \in Reading =>
                /\ Captures /\ L[0].left = 0
                /\ L[0].routine = call.routine /\ L[0].bits = call.bits
  BY <1>1, <1>2 DEF Alone, OfCall, Captures
<1>5. Alone(L[0]) /\ L[0].routine \in Reading => Pushed(L[0], d, f)
  BY <1>1, <1>4 DEF Reads
<1>6. L[0].routine \notin Reading => ~(Captures /\ L[0].left = 0)
  BY <1>1, <1>2, <1>3 DEF OfCall
<1> QED
  BY <1>1, <1>2, <1>3, <1>4, <1>5, <1>6

\* A word of data that is taken goes on where the last one ended.
LEMMA DataTaken ==
    ASSUME NEW p \in Places, NEW q \in Places, NEW d \in Nat, NEW f \in Nat, NEW word,
           SmAt(p, d), Reads(p, d, f), Continues(p, q, word), Alone(q),
           d = Whole(p.word), sm.pc \notin {"idle", "branch"},
           sm'.pc = sm.pc \/ (sm.pc = "write_cmd" /\ sm'.pc = "write_bitloop"),
           sm'.osr = word, UNCHANGED <<sm.x, sm.isr, sm.count, rx, due, clocked, cpu, call>>
    PROVE  SmAt(q, d)' /\ Reads(q, d, f)'
<1>1. /\ p.word < Sent(p) /\ q = [p EXCEPT !.word = @ + 1] /\ word = DataWord(p.routine, q.word)
  BY DEF Continues
<1>2. /\ q.word = p.word + 1 /\ q.routine = p.routine /\ q.bits = p.bits /\ q.left = p.left
      /\ p.word \in Nat /\ p.bits \in Nat \ {0} /\ p.routine \in RoutineNames
      /\ Sent(p) \in Nat /\ Sent(q) = Sent(p) /\ p.routine # "read_cmd"
  <2>1. q.word = p.word + 1 /\ q.routine = p.routine /\ q.bits = p.bits /\ q.left = p.left
    BY <1>1 DEF Places
  <2>2. p.word \in Nat /\ p.bits \in Nat \ {0} /\ p.routine \in RoutineNames
    BY DEF Places
  <2>3. Sent(p) \in Nat /\ Sent(q) = Sent(p) /\ p.routine # "read_cmd"
    BY <1>1, <2>1, <2>2, WordCountFacts DEF Sent
  <2> QED
    BY <2>1, <2>2, <2>3
<1>3. /\ Whole(q.word) = d + WordBits /\ Whole(q.word - 1) = d /\ WordBits \in Nat \ {0}
  <2>1. q.word - 1 = p.word /\ p.word \in Int
    BY <1>2
  <2>2. Whole(p.word + 1) = Whole(p.word) + WordBits
    BY <2>1, WholeFacts
  <2> QED
    BY <1>2, <2>1, <2>2, PioAssumption
<1>4. word = Rest(q, d)
  <2>1. word = [k \in 1..WordBits |-> Bit(p.routine, d + k)]
    BY <1>1, <1>3 DEF DataWord, Whole
  <2>2. Whole(q.word) - d = WordBits
    BY <1>3
  <2> QED
    BY <1>2, <2>1, <2>2 DEF Rest
<1>5. d < p.bits
  <2>1. Whole(WordCount(p.bits) - 1) < p.bits /\ WordCount(p.bits) \in Nat \ {0} /\ Sent(p) = WordCount(p.bits)
    BY <1>2, WordCountFacts DEF Sent
  <2>2. Whole(p.word) <= Whole(WordCount(p.bits) - 1) /\ Whole(WordCount(p.bits) - 1) \in Int
    BY <1>1, <1>2, <2>1, WholeFacts
  <2> QED
    BY <1>2, <2>1, <2>2
<1>6. DueAt(q, d)'
  BY <1>2 DEF SmAt, DueAt
<1>7. ~Loaded(q, d)' /\ ~Finished(q, d)' /\ ~Finished(p, d) /\ sm'.pc \notin {"idle", "branch", "push"}
  <2>1. sm.pc # "push"
    BY <1>1, <1>2 DEF SmAt, Complete
  <2> QED
    BY <1>2, <2>1 DEF Loaded, Finished
<1>8. Alone(q)'
  BY DEF Alone, Running
<1>9. /\ Whole(q.word - 1) <= d /\ d <= Whole(q.word) /\ q.word <= Sent(q) /\ q.word > 0
      /\ d \in 0..q.bits
  BY <1>1, <1>2, <1>3, <1>5
<1>10. SmAt(q, d)'
  BY <1>2, <1>4, <1>5, <1>6, <1>7, <1>8, <1>9 DEF SmAt, Looping, Sent
<1>11. Reads(q, d, f)'
  <2>1. Pushed(p, d, f) => Pushed(q, d, f)'
    BY <1>7, <1>2 DEF Pushed, ShiftedBits, WordRead, Pulled
  <2> QED
    BY <1>2, <2>1 DEF Reads, Captures, Running, Pulled
<1> QED
  BY <1>10, <1>11

\* The command of the next call is taken when the last one is done.
LEMMA CommandTaken ==
    ASSUME PioTypeOK, NEW p \in Places, NEW q \in Places, NEW d \in Nat, NEW f \in Nat, NEW word,
           SmAt(p, d), Reads(p, d, f), Starts(p, q, word), Alone(q), Finished(p, d),
           sm'.pc \in {"idle", "branch"},
           sm'.osr = word, UNCHANGED <<sm.x, sm.isr, sm.count, rx, due, clocked, cpu, call>>
    PROVE  SmAt(q, 0)' /\ Reads(q, 0, 0)'
<1>1. /\ q.word = 0 /\ q.left = p.left - 1 /\ word = CommandWord(q.routine, q.bits)
      /\ due[Len(due) - q.left] = First(q)
  BY DEF Starts
<1>2. /\ q.left \in Nat /\ p.left \in Nat /\ q.bits \in Nat \ {0} /\ d = p.bits
      /\ Len(due) = p.left /\ Len(due) - q.left = 1 /\ p.left = q.left + 1
      /\ Whole(0) = 0 /\ Whole(0 - 1) <= 0
  <2>1. q.left \in Nat /\ p.left \in Nat /\ q.bits \in Nat \ {0} /\ d = p.bits /\ p.bits \in Nat
    BY DEF Places, Finished
  <2>2. Len(due) = p.left
    BY <2>1 DEF SmAt, DueAt
  <2>3. Whole(0) = 0 /\ Whole(0 - 1) <= 0
    BY WholeFacts, PioAssumption
  <2> QED
    BY <1>1, <2>1, <2>2, <2>3
<1>3. DueAt(q, 0)'
  <2>1. due[1] = [routine |-> q.routine, bits |-> q.bits, next |-> 0 + 1]
    <3>1. due[1] = First(q)
      <4>1. Len(due) - q.left = 1
        BY <1>2
      <4> QED
        BY <1>1, <4>1, Zenon
    <3> QED
      BY <3>1 DEF First
  <2>2. Len(due) = q.left + 1
    <3>1. p.left = q.left + 1 /\ Len(due) = p.left
      BY <1>2
    <3> QED
      BY <3>1
  <2>3. 0 < q.bits
    BY <1>2
  <2> QED
    BY <2>1, <2>2, <2>3 DEF DueAt
<1>4. Loaded(q, 0)' /\ ~Finished(q, 0)'
  BY <1>1, <1>2 DEF Loaded, Finished
<1>5. q.word <= Sent(q) /\ Alone(q)'
  <2>1. WordCount(q.bits) \in Nat
    BY <1>2, WordCountFacts
  <2> QED
    BY <1>1, <2>1 DEF Sent, Alone, Running
<1>6. SmAt(q, 0)'
  <2>1. sm'.pc \notin {"lost", "write_cmd", "write_bitloop", "swj_clock", "jtag", "read_cmd", "jtag_in", "push"}
    OBVIOUS
  <2>2. sm'.osr = CommandWord(q.routine, q.bits)
    BY <1>1, Zenon
  <2>4. 0 \in 0..q.bits
    BY <1>2
  <2>3. Whole(q.word - 1) <= 0 /\ 0 <= Whole(q.word)
    BY <1>1, <1>2
  <2> QED
    BY <1>3, <1>4, <1>5, <2>1, <2>2, <2>3, <2>4 DEF SmAt, Looping
<1>7. sm.count = 0 /\ rx = <<>> /\ (Captures => Pulled = 0)
  BY <1>1, <1>2 DEF Reads
<1>8. Reads(q, 0, 0)'
  <2>1. (Captures <=> Captures') /\ Pulled' = Pulled
    BY DEF Captures, Running, Pulled
  <2>2. ASSUME Captures PROVE Pushed(q, 0, 0)'
    <3>1. sm'.count = 0 /\ Len(rx') = 0 /\ Pulled' = 0 /\ ShiftedBits(0)' = 0
      BY <1>7, <2>1, <2>2 DEF ShiftedBits
    <3> QED
      BY <1>2, <1>4, <3>1 DEF Pushed
  <2> QED
    BY <1>7, <2>1, <2>2 DEF Reads
<1> QED
  BY <1>6, <1>8

\* A word that is taken leads to a place the state machine may be at.
LEMMA WordTaken ==
    ASSUME PioInv, PioTypeOK', tx # <<>>, tx' = Tail(tx), UNCHANGED <<cpuVars, rx, due, clocked>>,
           NEW L \in Trails, NEW d \in Nat, NEW f \in Nat, InStep(L, d, f),
           \A q \in Places :
                /\ Follows(L[0], q, Head(tx)) /\ Alone(q) /\ q.left <= L[0].left
                => \E e \in Nat, g \in Nat : SmAt(q, e)' /\ Reads(q, e, g)'
    PROVE  PioInv'
<1>1. PioTypeOK /\ Trail(L) /\ clocked.bit = clocked.due
  BY DEF PioInv, InStep
<1>2. PICK M : M = [k \in 0..(Len(tx) - 1) |-> L[k + 1]]
  OBVIOUS
<1>3. UNCHANGED <<due, cpu, call>>
  BY DEF cpuVars
<1>4. /\ M \in Trails' /\ Trail(M)' /\ M[0] \in Places
      /\ Follows(L[0], M[0], Head(tx)) /\ M[0].left <= L[0].left /\ Alone(M[0])
  BY <1>1, <1>2, <1>3, TrailTaken
<1>5. PICK e \in Nat, g \in Nat : SmAt(M[0], e)' /\ Reads(M[0], e, g)'
  BY <1>4
<1>6. InStep(M, e, g)'
  BY <1>4, <1>5 DEF InStep
<1>7. (clocked.bit = clocked.due)' /\ ~(tx = <<>>)
  BY <1>1
<1> QED
  BY <1>4, <1>6, <1>7, SmOnly

\* The automatic pull takes the next word of the call, or the next command.
LEMMA AutoPullStep ==
    ASSUME PioInv, PioTypeOK', AutoPull PROVE PioInv'
<1>1. PICK L \in Trails, d \in Nat, f \in Nat : InStep(L, d, f)
  BY DEF PioInv
<1>0. PICK p : p = L[0]
  OBVIOUS
<1>2. /\ p \in Places /\ SmAt(p, d) /\ Reads(p, d, f) /\ p.bits \in Nat \ {0}
      /\ p.left \in Nat /\ PioTypeOK
  BY <1>0, <1>1, PlaceFacts DEF PioInv
<1>3. /\ sm.osr = <<>> /\ tx # <<>> /\ tx' = Tail(tx)
      /\ sm'.pc = sm.pc /\ sm'.osr = Head(tx)
      /\ UNCHANGED <<sm.x, sm.isr, sm.count>> /\ UNCHANGED <<cpuVars, rx, due, clocked>>
  BY <1>2 DEF AutoPull, PioTypeOK, WireOK, StateMachines
<1>4. ~Loaded(p, d) /\ d >= Whole(p.word) /\ Whole(p.word) \in Nat
  <2>1. CommandWord(p.routine, p.bits) # <<>>
    BY <1>2, CellFacts DEF Places, IsCommand
  <2>2. ~Loaded(p, d)
    BY <1>2, <1>3, <2>1 DEF SmAt
  <2>3. Rest(p, d) = <<>>
    BY <1>2, <1>3, <2>2 DEF SmAt
  <2> QED
    BY <1>2, <2>2, <2>3, RestFacts
<1>5. ASSUME NEW q \in Places, Follows(p, q, Head(tx)), Alone(q), q.left <= p.left
      PROVE  \E e \in Nat, g \in Nat : SmAt(q, e)' /\ Reads(q, e, g)'
  <2>1. CASE Continues(p, q, Head(tx))
    <3>1. p.routine # "read_cmd" /\ ~Complete(p)
      BY <1>2, <2>1, WordCountFacts DEF Continues, Sent, Complete, Places
    <3>2. d = Whole(p.word)
      BY <1>2, <1>4, <3>1 DEF SmAt
    <3>3. sm.pc \notin {"idle", "branch"}
      BY <1>2, <1>4, <3>1 DEF SmAt, Finished
    <3>4. UNCHANGED <<sm.x, sm.isr, sm.count, rx, due, clocked, cpu, call>>
      BY <1>3 DEF cpuVars
    <3> QED
      BY <1>2, <1>3, <1>5, <2>1, <3>2, <3>3, <3>4, DataTaken
  <2>2. CASE Starts(p, q, Head(tx))
    <3>1. Complete(p) /\ p.left > 0
      BY <1>2, <2>2 DEF Starts, Places
    <3>2. p.routine # "read_cmd" => d = p.bits
      <4>1. p.routine # "read_cmd" => p.bits <= Whole(p.word)
        BY <1>2, <3>1, WordCountFacts DEF Complete, Sent
      <4> QED
        BY <1>2, <1>4, <4>1 DEF SmAt
    <3>3. ~Finished(p, d) => p.routine \notin Reading
      BY <1>2, <3>1 DEF SmAt, Alone
    <3>4. Finished(p, d)
      <4> SUFFICES ASSUME ~Finished(p, d) PROVE FALSE
        OBVIOUS
      <4>1. p.routine \notin Reading /\ d = p.bits /\ d > 0
        BY <1>2, <3>2, <3>3 DEF Reading
      <4>2. sm.pc \in Pcs
        BY <1>2 DEF PioTypeOK, WireOK, StateMachines
      <4> QED
        BY <1>2, <1>4, <4>1, <4>2 DEF SmAt, Pcs, RoutineNames, Reading
    <3>5. UNCHANGED <<sm.x, sm.isr, sm.count, rx, due, clocked, cpu, call>>
      BY <1>3 DEF cpuVars
    <3>6. sm'.pc \in {"idle", "branch"}
      BY <1>3, <3>4 DEF Finished
    <3>7. SmAt(q, 0)' /\ Reads(q, 0, 0)'
      BY <1>2, <1>3, <1>5, <2>2, <3>4, <3>5, <3>6, CommandTaken
    <3> QED
      BY <3>7
  <2> QED
    BY <1>5, <2>1, <2>2 DEF Follows
<1> QED
  BY <1>0, <1>1, <1>3, <1>5, WordTaken

\* A step that moves the state machine on, its registers and its call as they were.
LEMMA MovedOn ==
    ASSUME NEW p \in Places, NEW d \in Nat, NEW f \in Nat, Reads(p, d, f),
           UNCHANGED <<sm.isr, sm.count, rx, cpu, call>>,
           ~Finished(p, d), ~Finished(p, d)', sm.pc # "jtag_in", sm'.pc # "jtag_in"
    PROVE  Reads(p, d, f)'
<1>1. Pushed(p, d, f) => Pushed(p, d, f)'
  BY DEF Pushed, ShiftedBits, WordRead, Pulled
<1> QED
  BY <1>1 DEF Reads, Captures, Running, Pulled

\* At pull the register holds a command, or is empty: no bit is lost.
LEMMA IdleStep ==
    ASSUME PioInv, PioTypeOK', Idle PROVE PioInv'
<1>1. PICK L \in Trails, d \in Nat, f \in Nat : InStep(L, d, f)
  BY DEF PioInv
<1>0. PICK p : p = L[0]
  OBVIOUS
<1>2. /\ p \in Places /\ SmAt(p, d) /\ Reads(p, d, f) /\ p.bits \in Nat \ {0}
      /\ p.left \in Nat /\ PioTypeOK /\ clocked.bit = clocked.due /\ Trail(L)
      /\ WordBits \in Nat \ {0} /\ p.routine \in RoutineNames
  BY <1>0, <1>1, PlaceFacts, PioAssumption DEF PioInv, Places
<1>3. /\ sm.pc = "idle" /\ sm'.pc = "branch"
      /\ UNCHANGED <<sm.x, sm.isr, sm.count>> /\ UNCHANGED <<cpuVars, rx, due, clocked>>
      /\ UNCHANGED <<cpu, call>>
  BY <1>2 DEF Idle, PullInto, PioTypeOK, WireOK, StateMachines, cpuVars
<1>4. Loaded(p, d) => OsrFull
  BY <1>2, CellFacts DEF SmAt, FullWords, OsrFull
<1>5. ~Loaded(p, d) => ~OsrFull /\ Finished(p, d)
  <2> SUFFICES ASSUME ~Loaded(p, d) PROVE ~OsrFull /\ Finished(p, d)
    OBVIOUS
  <2>1. Finished(p, d) /\ sm.osr = Rest(p, d)
    BY <1>2, <1>3 DEF SmAt
  <2>2. Complete(p) /\ d = p.bits
    BY <2>1 DEF Finished
  <2>3. Whole(p.word) < d + WordBits
    <3>1. CASE p.routine = "read_cmd"
      <4>1. p.word = 0 /\ Whole(0) = 0
        BY <2>2, <3>1, WholeFacts DEF Complete, Sent
      <4> QED
        BY <1>2, <2>2, <4>1
    <3>2. CASE p.routine # "read_cmd"
      <4>1. p.word = WordCount(p.bits)
        BY <2>2, <3>2 DEF Complete, Sent
      <4>2. WordCount(p.bits) \in Int /\ Whole(WordCount(p.bits) - 1) < p.bits
        BY <1>2, WordCountFacts
      <4>3. /\ Whole(WordCount(p.bits) - 1) = Whole(WordCount(p.bits)) - WordBits
            /\ Whole(WordCount(p.bits)) \in Int
        BY <4>2, WholeFacts
      <4> QED
        BY <1>2, <2>2, <4>1, <4>2, <4>3
    <3> QED
      BY <3>1, <3>2
  <2>4. Len(sm.osr) = (IF d < Whole(p.word) THEN Whole(p.word) - d ELSE 0) /\ Whole(p.word) \in Nat
    BY <1>2, <2>1, RestFacts
  <2>5. Len(sm.osr) < WordBits
    BY <1>2, <2>3, <2>4
  <2> QED
    BY <2>1, <2>5, <1>2 DEF OsrFull
<1>6. CASE OsrFull
  <2>1. Loaded(p, d) /\ sm'.osr = sm.osr /\ UNCHANGED tx
    BY <1>2, <1>5, <1>6 DEF Idle, PullInto, PioTypeOK, WireOK, StateMachines
  <2>2. Loaded(p, d)' /\ ~Finished(p, d) /\ ~Finished(p, d)'
    BY <1>2, <1>3, <2>1 DEF Loaded, Finished
  <2>3. SmAt(p, d)'
    <3>1. DueAt(p, d)' /\ Alone(p)'
      BY <1>2, <1>3, <2>2 DEF SmAt, DueAt, Alone, Running
    <3> QED
      BY <1>2, <1>3, <2>1, <2>2, <3>1 DEF SmAt, Looping
  <2>4. Reads(p, d, f)'
    BY <1>2, <1>3, <2>2, MovedOn
  <2>5. L \in Trails' /\ Trail(L)'
    BY <1>2, <1>3, <2>1, TrailSame
  <2>6. InStep(L, d, f)' /\ (clocked.bit = clocked.due)'
    BY <1>0, <1>2, <1>3, <2>3, <2>4, <2>5 DEF InStep
  <2> QED
    BY <1>3, <2>1, <2>5, <2>6, SmOnly
<1>7. CASE ~OsrFull
  <2>1. Finished(p, d) /\ tx # <<>> /\ tx' = Tail(tx) /\ sm'.osr = Head(tx)
    BY <1>2, <1>4, <1>5, <1>7 DEF Idle, PullInto, PioTypeOK, WireOK, StateMachines
  <2>2. ASSUME NEW q \in Places, Follows(p, q, Head(tx)), Alone(q)
        PROVE  \E e \in Nat, g \in Nat : SmAt(q, e)' /\ Reads(q, e, g)'
    <3>1. ~Continues(p, q, Head(tx))
      BY <1>2, <2>1, WordCountFacts DEF Continues, Finished, Complete, Sent, Places
    <3>2. Starts(p, q, Head(tx))
      BY <2>2, <3>1 DEF Follows
    <3>3. SmAt(q, 0)' /\ Reads(q, 0, 0)'
      BY <1>2, <1>3, <2>1, <2>2, <3>2, CommandTaken
    <3> QED
      BY <3>3
  <2> QED
    BY <1>0, <1>1, <1>3, <2>1, <2>2, WordTaken
<1> QED
  BY <1>6, <1>7

\* The pull of write_cmd finds the first word, taken already or not.
LEMMA WritePullStep ==
    ASSUME PioInv, PioTypeOK', WritePull PROVE PioInv'
<1>1. PICK L \in Trails, d \in Nat, f \in Nat : InStep(L, d, f)
  BY DEF PioInv
<1>0. PICK p : p = L[0]
  OBVIOUS
<1>2. /\ p \in Places /\ SmAt(p, d) /\ Reads(p, d, f) /\ p.bits \in Nat \ {0}
      /\ p.left \in Nat /\ PioTypeOK /\ clocked.bit = clocked.due /\ Trail(L)
      /\ WordBits \in Nat \ {0} /\ p.word \in Nat
  BY <1>0, <1>1, PlaceFacts, PioAssumption DEF PioInv, Places
<1>3. /\ sm.pc = "write_cmd" /\ sm'.pc = "write_bitloop"
      /\ UNCHANGED <<sm.x, sm.isr, sm.count>> /\ UNCHANGED <<cpuVars, rx, due, clocked>>
      /\ UNCHANGED <<cpu, call>>
  BY <1>2 DEF WritePull, PullInto, PioTypeOK, WireOK, StateMachines, cpuVars
<1>4. /\ p.routine = "write_cmd" /\ d = 0 /\ sm.osr = Rest(p, d) /\ Whole(p.word - 1) <= 0
      /\ ~Finished(p, d) /\ ~Finished(p, d)' /\ ~Loaded(p, d) /\ ~Loaded(p, d)'
  BY <1>2, <1>3 DEF SmAt, Loaded, Finished
<1>5. p.word \in {0, 1} /\ Whole(0) = 0 /\ Whole(1) = WordBits
  <2>0. p.word - 1 \in Int /\ 0 \in Int
    BY <1>2
  <2>1. 0 < p.word - 1 => Whole(0) + WordBits <= Whole(p.word - 1)
    BY <2>0, WholeFacts
  <2>2. Whole(0) = 0 /\ Whole(1) = WordBits
    BY WholeFacts
  <2>3. Whole(p.word - 1) \in Int
    BY <2>0, WholeFacts
  <2> QED
    BY <1>2, <1>4, <2>1, <2>2, <2>3
<1>6. Len(sm.osr) = Whole(p.word) /\ (OsrFull <=> p.word = 1)
  <2>1. Len(sm.osr) = (IF d < Whole(p.word) THEN Whole(p.word) - d ELSE 0)
    BY <1>2, <1>4, RestFacts
  <2> QED
    BY <1>2, <1>4, <1>5, <2>1 DEF OsrFull
<1>7. CASE OsrFull
  <2>1. sm'.osr = sm.osr /\ UNCHANGED tx
    BY <1>2, <1>7 DEF WritePull, PullInto, PioTypeOK, WireOK, StateMachines
  <2>2. SmAt(p, d)'
    <3>1. DueAt(p, d)' /\ Alone(p)'
      BY <1>2, <1>3, <1>4 DEF SmAt, DueAt, Alone, Running
    <3> QED
      BY <1>2, <1>3, <1>4, <1>6, <1>7, <2>1, <3>1 DEF SmAt, Looping
  <2>3. Reads(p, d, f)'
    BY <1>2, <1>3, <1>4, MovedOn
  <2>4. L \in Trails' /\ Trail(L)'
    BY <1>2, <1>3, <2>1, TrailSame
  <2>5. InStep(L, d, f)' /\ (clocked.bit = clocked.due)'
    BY <1>0, <1>2, <1>3, <2>2, <2>3, <2>4 DEF InStep
  <2> QED
    BY <1>3, <2>1, <2>4, <2>5, SmOnly
<1>8. CASE ~OsrFull
  <2>1. tx # <<>> /\ tx' = Tail(tx) /\ sm'.osr = Head(tx)
    BY <1>2, <1>8 DEF WritePull, PullInto, PioTypeOK, WireOK, StateMachines
  <2>2. p.word = 0 /\ d = Whole(p.word)
    BY <1>4, <1>5, <1>6, <1>8
  <2>3. ASSUME NEW q \in Places, Follows(p, q, Head(tx)), Alone(q)
        PROVE  \E e \in Nat, g \in Nat : SmAt(q, e)' /\ Reads(q, e, g)'
    <3>1. ~Complete(p)
      BY <1>2, <1>4, <2>2, WordCountFacts DEF Complete, Sent
    <3>2. Continues(p, q, Head(tx))
      BY <2>3, <3>1 DEF Follows, Starts
    <3>3. SmAt(q, d)' /\ Reads(q, d, f)'
      BY <1>2, <1>3, <2>1, <2>2, <2>3, <3>2, DataTaken
    <3> QED
      BY <3>3
  <2> QED
    BY <1>0, <1>1, <1>3, <2>1, <2>3, WordTaken
<1> QED
  BY <1>7, <1>8

\* What the branch takes is the command of a call, and never its data.
LEMMA BranchStep ==
    ASSUME PioInv, PioTypeOK', Branch PROVE PioInv'
<1>1. PICK L \in Trails, d \in Nat, f \in Nat : InStep(L, d, f)
  BY DEF PioInv
<1>0. PICK p : p = L[0]
  OBVIOUS
<1>2. /\ p \in Places /\ SmAt(p, d) /\ Reads(p, d, f) /\ p.bits \in Nat \ {0}
      /\ p.left \in Nat /\ PioTypeOK /\ clocked.bit = clocked.due /\ Trail(L)
      /\ p.routine \in RoutineNames
  BY <1>0, <1>1, PlaceFacts DEF PioInv, Places
<1>3. /\ sm.pc = "branch" /\ UNCHANGED <<cpuVars, tx, rx, due, clocked>>
      /\ UNCHANGED <<cpu, call>>
  BY DEF Branch, cpuVars
<1>4. /\ Loaded(p, d) /\ p.word = 0 /\ d = 0 /\ sm.osr = CommandWord(p.routine, p.bits)
  BY <1>2, <1>3 DEF SmAt, Loaded
<1>5. /\ sm'.pc = p.routine /\ sm'.x = p.bits - 1 /\ sm'.osr = <<>>
      /\ UNCHANGED <<sm.isr, sm.count>>
  <2>1. IsCommand(sm.osr) /\ sm.osr[1].routine = p.routine /\ sm.osr[1].x = p.bits - 1
    BY <1>2, <1>4, CellFacts
  <2>2. sm' = [sm EXCEPT !.pc = sm.osr[1].routine, !.x = sm.osr[1].x, !.osr = <<>>]
    BY <2>1 DEF Branch
  <2> QED
    BY <1>2, <2>1, <2>2 DEF PioTypeOK, WireOK, StateMachines
<1>6. /\ ~Loaded(p, d)' /\ ~Finished(p, d) /\ ~Finished(p, d)'
      /\ sm'.pc \notin {"idle", "branch", "write_bitloop", "jtag_in", "push", "lost"}
  BY <1>2, <1>3, <1>4, <1>5 DEF Loaded, Finished, RoutineNames
<1>7. Rest(p, d) = <<>>
  <2>1. ~(d < Whole(p.word))
    BY <1>4, WholeFacts
  <2> QED
    BY <1>2, <2>1, RestFacts
<1>8. SmAt(p, d)'
  <2>1. DueAt(p, d)' /\ Alone(p)'
    BY <1>2, <1>3, <1>6 DEF SmAt, DueAt, Alone, Running
  <2>2. d < p.bits /\ p.bits - 1 = p.bits - 1 - d
    BY <1>2, <1>4
  <2> QED
    BY <1>2, <1>4, <1>5, <1>6, <1>7, <2>1, <2>2 DEF SmAt, Looping
<1>9. Reads(p, d, f)'
  BY <1>2, <1>3, <1>5, <1>6, MovedOn
<1>10. L \in Trails' /\ Trail(L)'
  BY <1>2, <1>3, TrailSame
<1>11. InStep(L, d, f)' /\ (clocked.bit = clocked.due)'
  BY <1>0, <1>2, <1>3, <1>8, <1>9, <1>10 DEF InStep
<1> QED
  BY <1>3, <1>10, <1>11, SmOnly

\* A clock for the call of the state machine is of the bit that is due.
LEMMA BitClocked ==
    ASSUME PioTypeOK, NEW p \in Places, NEW d \in Nat, DueAt(p, d), d < p.bits,
           NEW bit, Clocks(bit)
    PROVE  /\ DueBit = Bit(p.routine, d + 1) /\ Len(due) = p.left + 1 /\ due # <<>>
           /\ due[1].routine = p.routine
           /\ clocked'.bit = bit /\ clocked'.due = Bit(p.routine, d + 1)
           /\ DueAt(p, d + 1)'
<1>1. /\ p.left \in Nat /\ p.bits \in Nat \ {0} /\ due \in Seq(Pending) /\ Len(due) = p.left + 1
      /\ due[1] = [routine |-> p.routine, bits |-> p.bits, next |-> d + 1]
  BY DEF Places, PioTypeOK, WireOK, DueAt
<1>2. due # <<>> /\ Len(due) \in Nat \ {0}
  BY <1>1
<1>3. /\ DueBit = Bit(p.routine, d + 1)
      /\ clocked'.bit = bit /\ clocked'.due = Bit(p.routine, d + 1)
  BY <1>1, <1>2 DEF DueBit, Clocks
<1>4. CASE d + 1 < p.bits
  <2>1. due' = [due EXCEPT ![1].next = @ + 1]
    BY <1>1, <1>2, <1>4 DEF Clocks
  <2>2. Len(due') = p.left + 1
    BY <1>1, <2>1
  <2>3. due'[1] = [routine |-> p.routine, bits |-> p.bits, next |-> (d + 1) + 1]
    BY <1>1, <1>2, <2>1
  <2> QED
    BY <1>1, <1>2, <1>3, <1>4, <2>2, <2>3 DEF DueAt
<1>5. CASE ~(d + 1 < p.bits)
  <2>1. due' = Tail(due)
    BY <1>1, <1>2, <1>5 DEF Clocks
  <2>2. Len(due') = p.left
    BY <1>1, <1>2, <2>1, HeadTailProperties
  <2> QED
    BY <1>1, <1>2, <1>3, <1>5, <2>2 DEF DueAt
<1> QED
  BY <1>4, <1>5

\* A bit goes out: what is left of the words is one bit shorter.
LEMMA BitOut ==
    ASSUME PioInv, NEW L \in Trails, NEW d \in Nat, NEW f \in Nat, InStep(L, d, f),
           NEW p, p = L[0], sm.pc \in {"swj_clock", "write_bitloop", "jtag"},
           sm.osr # <<>>, Clocks(Head(sm.osr)), UNCHANGED <<cpuVars, tx, rx>>
    PROVE  /\ L \in Trails' /\ Trail(L)' /\ (clocked.bit = clocked.due)'
           /\ clocked'.bit = Bit(p.routine, d + 1) /\ DueAt(p, d + 1)'
           /\ Tail(sm.osr) = Rest(p, d + 1) /\ d < Whole(p.word) /\ Whole(p.word) \in Nat
           /\ d < p.bits /\ p.word > 0 /\ p.routine # "read_cmd"
           /\ p.bits <= Whole(p.word) => Complete(p)
           /\ ~Finished(p, d) /\ Alone(p)'
<1>1. /\ p \in Places /\ SmAt(p, d) /\ p.bits \in Nat \ {0} /\ p.word \in Nat
      /\ PioTypeOK /\ Trail(L)
  BY PlaceFacts DEF PioInv, Places
<1>2. /\ ~Loaded(p, d) /\ ~Finished(p, d) /\ Alone(p) /\ d < p.bits
      /\ sm.osr = Rest(p, d) /\ p.routine # "read_cmd" /\ DueAt(p, d)
  BY <1>1 DEF SmAt, Loaded, Finished
<1>3. /\ d < Whole(p.word) /\ Whole(p.word) \in Nat /\ Head(sm.osr) = Bit(p.routine, d + 1)
      /\ Tail(sm.osr) = Rest(p, d + 1)
  BY <1>1, <1>2, RestFacts
<1>4. /\ DueAt(p, d + 1)' /\ clocked'.bit = Bit(p.routine, d + 1) /\ (clocked.bit = clocked.due)'
      /\ Len(due) = p.left + 1
  BY <1>1, <1>2, <1>3, BitClocked
<1>5. L \in Trails' /\ Trail(L)'
  BY <1>1, <1>4, TrailClocked DEF cpuVars
<1>6. p.word > 0
  <2>1. Whole(0) = 0
    BY WholeFacts
  <2> QED
    BY <1>1, <1>3, <2>1
<1>7. p.bits <= Whole(p.word) => Complete(p)
  BY <1>1, <1>2, LastPlace DEF SmAt
<1>8. Alone(p)'
  BY <1>2 DEF Alone, Running, cpuVars
<1> QED
  BY <1>2, <1>3, <1>4, <1>5, <1>6, <1>7, <1>8

\* The routines that only write clock the next bit.
LEMMA WriteBitStep ==
    ASSUME PioInv, PioTypeOK', SwjBit \/ WriteBit PROVE PioInv'
<1>1. PICK L \in Trails, d \in Nat, f \in Nat : InStep(L, d, f)
  BY DEF PioInv
<1>0. PICK p, loop : p = L[0] /\ loop = sm.pc
  OBVIOUS
<1>2. /\ p \in Places /\ SmAt(p, d) /\ Reads(p, d, f) /\ p.bits \in Nat \ {0}
      /\ PioTypeOK
  BY <1>0, <1>1, PlaceFacts DEF PioInv
<1>3. /\ loop \in {"swj_clock", "write_bitloop"} /\ sm.pc = loop /\ sm.osr # <<>>
      /\ Clocks(Head(sm.osr)) /\ UNCHANGED <<cpuVars, tx, rx>> /\ UNCHANGED <<cpu, call>>
      /\ sm' = Loops(Shifted, loop, "idle")
  BY <1>0 DEF SwjBit, WriteBit, OutBit, cpuVars
<1>4. /\ L \in Trails' /\ Trail(L)' /\ (clocked.bit = clocked.due)'
      /\ DueAt(p, d + 1)' /\ Tail(sm.osr) = Rest(p, d + 1)
      /\ d < Whole(p.word) /\ Whole(p.word) \in Nat
      /\ d < p.bits /\ p.word > 0 /\ p.routine # "read_cmd"
      /\ p.bits <= Whole(p.word) => Complete(p)
      /\ ~Finished(p, d) /\ Alone(p)'
  BY <1>0, <1>1, <1>3, BitOut DEF PioInv
<1>5. /\ sm.x = p.bits - 1 - d
      /\ loop = "swj_clock" => p.routine = "swj_clock"
      /\ loop = "write_bitloop" => p.routine = "write_cmd"
      /\ Whole(p.word - 1) <= d /\ p.word <= Sent(p) /\ Whole(p.word - 1) \in Int
  <2>1. p.word - 1 \in Int
    BY <1>2 DEF Places
  <2>2. Whole(p.word - 1) \in Int
    BY <2>1, WholeFacts
  <2> QED
    BY <1>2, <1>3, <1>4, <2>2 DEF SmAt, Looping
<1>6. /\ sm'.pc = (IF sm.x > 0 THEN loop ELSE "idle") /\ (sm.x > 0 => sm'.x = sm.x - 1)
      /\ sm'.osr = Tail(sm.osr) /\ sm'.isr = sm.isr /\ sm'.count = sm.count
  <2>1. sm \in StateMachines
    BY <1>2 DEF PioTypeOK, WireOK
  <2>2. /\ Shifted.x = sm.x /\ Shifted.osr = Tail(sm.osr) /\ Shifted.isr = sm.isr
        /\ Shifted.count = sm.count /\ "pc" \in DOMAIN Shifted /\ "x" \in DOMAIN Shifted
    BY <2>1 DEF Shifted, StateMachines
  <2> HIDE DEF Shifted
  <2> QED
    BY <1>3, <2>1, <2>2 DEF Loops, Shifted, StateMachines
<1>10. /\ sm.x > 0 => d + 1 < p.bits /\ sm.x - 1 = p.bits - 1 - (d + 1)
       /\ ~(sm.x > 0) => d + 1 = p.bits
  <2>1. PICK b \in Nat : b = p.bits
    BY <1>2
  <2>2. sm.x = b - 1 - d /\ d < b
    BY <1>4, <1>5, <2>1
  <2> QED
    BY <2>1, <2>2
<1>7. SmAt(p, d + 1)'
  <2>1. ~Loaded(p, d + 1)' /\ d + 1 \in 0..p.bits
    BY <1>2, <1>4 DEF Loaded
  <2>2. Whole(p.word - 1) <= d + 1 /\ d + 1 <= Whole(p.word)
    BY <1>4, <1>5
  <2>3. CASE sm.x > 0
    <3>1. d + 1 < p.bits /\ sm'.x = p.bits - 1 - (d + 1) /\ sm'.pc = loop
      BY <1>6, <1>10, <2>3
    <3>2. CASE loop = "swj_clock"
      BY <1>4, <1>5, <1>6, <2>1, <2>2, <3>1, <3>2 DEF SmAt, Looping
    <3>3. CASE loop = "write_bitloop"
      BY <1>4, <1>5, <1>6, <2>1, <2>2, <3>1, <3>3 DEF SmAt, Looping
    <3> QED
      BY <1>3, <3>2, <3>3
  <2>4. CASE ~(sm.x > 0)
    <3>1. d + 1 = p.bits /\ sm'.pc = "idle"
      BY <1>6, <1>10, <2>4
    <3>2. Finished(p, d + 1)'
      BY <1>4, <2>2, <3>1 DEF Finished, Complete, Sent
    <3> QED
      BY <1>4, <1>5, <1>6, <2>1, <2>2, <3>1, <3>2 DEF SmAt, Looping
  <2> QED
    BY <2>3, <2>4
<1>8. Reads(p, d + 1, f)'
  <2>1. ~(Captures /\ p.left = 0)
    <3>1. p.routine \notin Reading
      BY <1>3, <1>5 DEF Reading
    <3> QED
      BY <1>0, <1>1, <1>2, <3>1, PlaceFacts
  <2> QED
    BY <1>2, <1>3, <1>6, <2>1 DEF Reads, Captures, Running, Pulled
<1>9. InStep(L, d + 1, f)' /\ d + 1 \in Nat
  BY <1>0, <1>4, <1>7, <1>8 DEF InStep
<1> QED
  BY <1>3, <1>4, <1>9, SmOnly

\* jtag clocks the next bit out.
LEMMA JtagOutStep ==
    ASSUME PioInv, PioTypeOK', JtagOut PROVE PioInv'
<1>1. PICK L \in Trails, d \in Nat, f \in Nat : InStep(L, d, f)
  BY DEF PioInv
<1>0. PICK p : p = L[0]
  OBVIOUS
<1>2. /\ p \in Places /\ SmAt(p, d) /\ Reads(p, d, f) /\ p.bits \in Nat \ {0}
      /\ PioTypeOK
  BY <1>0, <1>1, PlaceFacts DEF PioInv
<1>3. /\ sm.pc = "jtag" /\ sm.osr # <<>>
      /\ Clocks(Head(sm.osr)) /\ UNCHANGED <<cpuVars, tx, rx>> /\ UNCHANGED <<cpu, call>>
      /\ sm' = [Shifted EXCEPT !.pc = "jtag_in"]
  BY DEF JtagOut, OutBit, cpuVars
<1>4. /\ L \in Trails' /\ Trail(L)' /\ (clocked.bit = clocked.due)'
      /\ clocked'.bit = Bit(p.routine, d + 1)
      /\ DueAt(p, d + 1)' /\ Tail(sm.osr) = Rest(p, d + 1)
      /\ d < Whole(p.word) /\ Whole(p.word) \in Nat
      /\ d < p.bits /\ p.word > 0 /\ p.routine # "read_cmd"
      /\ ~Finished(p, d) /\ Alone(p)'
  BY <1>0, <1>1, <1>3, BitOut DEF PioInv
<1>5. /\ sm.x = p.bits - 1 - d /\ p.routine = "jtag"
      /\ Whole(p.word - 1) <= d /\ p.word <= Sent(p) /\ Whole(p.word - 1) \in Int
  <2>1. p.word - 1 \in Int
    BY <1>2 DEF Places
  <2>2. Whole(p.word - 1) \in Int
    BY <2>1, WholeFacts
  <2> QED
    BY <1>2, <1>3, <1>4, <2>2 DEF SmAt, Looping
<1>6. /\ sm'.pc = "jtag_in" /\ sm'.x = sm.x
      /\ sm'.osr = Tail(sm.osr) /\ sm'.isr = sm.isr /\ sm'.count = sm.count
  BY <1>2, <1>3 DEF PioTypeOK, WireOK, Shifted, StateMachines
<1>7. SmAt(p, d + 1)'
  <2>1. ~Loaded(p, d + 1)' /\ ~Finished(p, d + 1)' /\ d + 1 \in 0..p.bits
    BY <1>2, <1>4, <1>6 DEF Loaded, Finished
  <2>2. Whole(p.word - 1) <= d + 1 /\ d + 1 <= Whole(p.word) /\ d + 1 > 0
        /\ p.bits - 1 - d = p.bits - (d + 1)
    BY <1>2, <1>4, <1>5
  <2> QED
    BY <1>4, <1>5, <1>6, <2>1, <2>2 DEF SmAt, Looping
<1>8. Reads(p, d + 1, f)'
  <2>1. ShiftedBits(d + 1)' = ShiftedBits(d)
    BY <1>3, <1>6 DEF ShiftedBits
  <2>2. ~Finished(p, d) /\ ~Finished(p, d + 1)'
    BY <1>4, <1>6 DEF Finished
  <2>3. Pushed(p, d, f) => Pushed(p, d + 1, f)'
    BY <1>3, <1>6, <2>1, <2>2 DEF Pushed, WordRead, Pulled
  <2> QED
    BY <1>2, <1>3, <1>6, <2>3 DEF Reads, Captures, Running, Pulled
<1>9. InStep(L, d + 1, f)' /\ d + 1 \in Nat
  BY <1>0, <1>4, <1>7, <1>8 DEF InStep
<1> QED
  BY <1>3, <1>4, <1>9, SmOnly

\* The bit e of the call is shifted in, and a full register is pushed.
LEMMA BitIn ==
    ASSUME PioTypeOK, NEW p \in Places, NEW e \in Nat \ {0}, NEW f \in Nat,
           call \in Calls, e <= call.bits, Captures, UNCHANGED <<cpu, call>>,
           NEW bit, bit = Bit(call.routine, e), NEW loop \in {"jtag", "read_cmd"},
           ShiftIn(bit, loop),
           e - 1 = Whole(f) + sm.count,
           \A k \in 1..sm.count : sm.isr[WordBits - sm.count + k] = Bit(call.routine, Whole(f) + k),
           Len(rx) = f - Pulled, \A i \in 1..Len(rx) : WordRead(rx[i], Pulled + i)
    PROVE  /\ \E g \in Nat : Pushed(p, e, g)'
           /\ sm'.pc = (IF sm.x > 0 THEN loop ELSE "push") /\ sm'.osr = sm.osr
           /\ sm.x > 0 => sm'.x = sm.x - 1
<1> DEFINE isr == Append(Tail(sm.isr), bit)
<1>0. PICK c, pulled, b : c = sm.count /\ pulled = Pulled /\ b = call.bits
  OBVIOUS
<1>1. /\ WordBits \in Nat \ {0} /\ Whole(f) \in Nat /\ Whole(f + 1) = Whole(f) + WordBits
      /\ c \in 0..(WordBits - 1) /\ sm \in StateMachines /\ b \in Nat \ {0}
      /\ sm.isr \in Seq(Cells) /\ Len(sm.isr) = WordBits
      /\ rx \in Seq(FullWords) /\ Len(rx) \in Nat
  <2>1. WordBits \in Nat \ {0} /\ Whole(f) \in Nat /\ Whole(f + 1) = Whole(f) + WordBits
    BY PioAssumption, WholeFacts
  <2>2. sm \in StateMachines /\ rx \in Seq(FullWords) /\ b \in Nat \ {0}
    BY <1>0 DEF PioTypeOK, WireOK, Calls
  <2>3. c \in 0..(WordBits - 1) /\ sm.isr \in FullWords
    BY <1>0, <2>2 DEF StateMachines, Counts
  <2>4. sm.isr \in Seq(Cells) /\ Len(sm.isr) = WordBits
    BY <2>3 DEF FullWords, Words
  <2>5. Len(rx) \in Nat
    BY <2>2
  <2> QED
    BY <2>1, <2>2, <2>3, <2>4, <2>5
<1>7. pulled \in Int
  <2>1. WordCount(b) \in Nat /\ cpu.word \in Nat
    BY <1>1, WordCountFacts DEF PioTypeOK, CallOK
  <2> QED
    BY <1>0, <2>1 DEF Pulled
<1>8. e = Whole(f) + (c + 1) /\ f + 1 = pulled + (Len(rx) + 1)
  <2>1. PICK wf \in Nat : wf = Whole(f)
    BY <1>1
  <2>2. e - 1 = wf + c
    BY <1>0, <2>1
  <2>3. e = wf + (c + 1)
    BY <1>1, <2>2
  <2>4. PICK n \in Nat : n = Len(rx)
    BY <1>1
  <2>5. n = f - pulled
    BY <1>0, <2>4
  <2>6. f + 1 = pulled + (n + 1)
    BY <1>7, <2>5
  <2> QED
    BY <2>1, <2>3, <2>4, <2>6
<1>2. /\ Len(isr) = WordBits /\ isr[WordBits] = bit
      /\ \A k \in 1..(WordBits - 1) : isr[k] = sm.isr[k + 1]
  <2>1. sm.isr # <<>>
    BY <1>1
  <2>2. /\ Tail(sm.isr) \in Seq(Cells) /\ Len(Tail(sm.isr)) = WordBits - 1
        /\ \A k \in 1..(WordBits - 1) : Tail(sm.isr)[k] = sm.isr[k + 1]
    BY <1>1, <2>1, HeadTailProperties
  <2>3. bit \in Cells
    <3>1. call.routine \in RoutineNames
      BY DEF Calls
    <3> QED
      BY <3>1, CellFacts
  <2> QED
    BY <1>1, <2>2, <2>3, AppendProperties
<1> HIDE DEF isr
<1>3. ASSUME NEW k \in 1..(c + 1)
      PROVE  isr[WordBits - (c + 1) + k] = Bit(call.routine, Whole(f) + k)
  <2>1. CASE k = c + 1
    <3>1. WordBits - (c + 1) + k = WordBits /\ Whole(f) + k = e
      BY <1>0, <1>1, <2>1
    <3> QED
      BY <1>2, <3>1
  <2>2. CASE k \in 1..c
    <3>1. /\ WordBits - (c + 1) + k \in 1..(WordBits - 1)
          /\ WordBits - (c + 1) + k + 1 = WordBits - c + k
      BY <1>1, <2>2
    <3>2. sm.isr[WordBits - c + k] = Bit(call.routine, Whole(f) + k)
      BY <1>0, <2>2
    <3> QED
      BY <1>2, <3>1, <3>2
  <2> QED
    BY <1>1, <2>1, <2>2
<1>4. ASSUME NEW state \in StateMachines, state.osr = sm.osr, state.x = sm.x,
             sm' = Loops(state, loop, "push")
      PROVE  /\ sm'.pc = (IF sm.x > 0 THEN loop ELSE "push") /\ sm'.osr = sm.osr
             /\ sm.x > 0 => sm'.x = sm.x - 1
             /\ sm'.isr = state.isr /\ sm'.count = state.count
  BY <1>4 DEF Loops, StateMachines
<1>5. CASE c + 1 < WordBits
  <2> DEFINE state == [sm EXCEPT !.isr = isr, !.count = @ + 1]
  <2>1. isr \in FullWords /\ c + 1 \in Counts
    <3>1. loop \in Pcs /\ bit \in Cells
      <4>1. call.routine \in RoutineNames
        BY DEF Calls
      <4> QED
        BY <4>1, CellFacts DEF Pcs, RoutineNames
    <3>2. isr \in FullWords
      BY <3>1, ShiftInFacts DEF isr
    <3> QED
      BY <1>1, <1>5, <3>2 DEF Counts
  <2>2. /\ state \in StateMachines /\ state.osr = sm.osr /\ state.x = sm.x
        /\ state.isr = isr /\ state.count = c + 1
    BY <1>0, <1>1, <2>1 DEF StateMachines
  <2>3. sm' = Loops(state, loop, "push") /\ rx' = rx
    BY <1>0, <1>5 DEF ShiftIn, isr
  <2> HIDE DEF state
  <2>4. /\ sm'.pc = (IF sm.x > 0 THEN loop ELSE "push") /\ sm'.osr = sm.osr
        /\ sm.x > 0 => sm'.x = sm.x - 1
        /\ sm'.isr = isr /\ sm'.count = c + 1
    BY <1>4, <2>2, <2>3
  <2>5. sm'.pc # "idle" /\ sm'.pc # "jtag_in"
    BY <2>4
  <2>8. e = Whole(f) + (c + 1)
    BY <1>8
  <2>6. /\ ~Finished(p, e)' /\ ShiftedBits(e)' = Whole(f) + (c + 1) /\ Pulled' = Pulled
    BY <2>5, <2>8 DEF Finished, ShiftedBits, Pulled
  <2>7. Pushed(p, e, f)'
    BY <1>0, <1>3, <2>3, <2>4, <2>6 DEF Pushed, WordRead
  <2> QED
    BY <2>4, <2>7
<1>6. CASE ~(c + 1 < WordBits)
  <2> DEFINE state == [sm EXCEPT !.isr = Zeros, !.count = 0]
  <2>1. Zeros \in FullWords /\ 0 \in Counts
    BY <1>1 DEF Counts, Zeros, FullWords, Words, Cells
  <2>2. /\ state \in StateMachines /\ state.osr = sm.osr /\ state.x = sm.x
        /\ state.count = 0
    BY <1>1, <2>1 DEF StateMachines
  <2>3. sm' = Loops(state, loop, "push") /\ rx' = Append(rx, isr)
    BY <1>0, <1>6 DEF ShiftIn, isr
  <2> HIDE DEF state
  <2>4. /\ sm'.pc = (IF sm.x > 0 THEN loop ELSE "push") /\ sm'.osr = sm.osr
        /\ sm.x > 0 => sm'.x = sm.x - 1
        /\ sm'.count = 0
    BY <1>4, <2>2, <2>3
  <2>5. sm'.pc # "idle" /\ sm'.pc # "jtag_in"
    BY <2>4
  <2>6. c + 1 = WordBits /\ e = Whole(f + 1)
    BY <1>0, <1>1, <1>6
  <2>7. /\ ~Finished(p, e)' /\ ShiftedBits(e)' = Whole(f + 1) + 0 /\ Pulled' = Pulled
    BY <1>1, <2>5, <2>6 DEF Finished, ShiftedBits, Pulled
  <2>8. WordRead(isr, f + 1)
    <3>1. ASSUME NEW k \in 1..WordBits PROVE isr[WordBits - WordBits + k] = Bit(call.routine, Whole(f) + k)
      <4>1. k \in 1..(c + 1) /\ WordBits - (c + 1) + k = WordBits - WordBits + k
        BY <1>1, <2>6
      <4> QED
        BY <1>3, <4>1
    <3>2. f + 1 - 1 = f /\ f + 1 \in Int
      OBVIOUS
    <3>3. InWord(b, f + 1) = WordBits
      <4>0. PICK w \in Int : w = f + 1 /\ w - 1 = f
        BY <3>2
      <4>1. InWord(b, f + 1) = IF b - Whole(f) < WordBits THEN b - Whole(f) ELSE WordBits
        BY <1>1, <4>0, InWordFacts
      <4>2. b >= Whole(f) + WordBits
        BY <1>0, <1>1, <2>6
      <4> QED
        BY <1>1, <4>1, <4>2
    <3> QED
      BY <1>0, <3>1, <3>2, <3>3 DEF WordRead
  <2>9. /\ Len(rx') = Len(rx) + 1 /\ rx'[Len(rx) + 1] = isr /\ \A i \in 1..Len(rx) : rx'[i] = rx[i]
    <3>1. isr \in FullWords
      <4>1. call.routine \in RoutineNames
        BY DEF Calls
      <4>2. loop \in Pcs /\ bit \in Cells
        BY <4>1, CellFacts DEF Pcs, RoutineNames
      <4> QED
        BY <4>2, ShiftInFacts DEF isr
    <3> QED
      BY <1>1, <2>3, <3>1, AppendProperties
  <2>10. ASSUME NEW i \in 1..Len(rx') PROVE WordRead(rx'[i], pulled + i)
    <3>1. CASE i \in 1..Len(rx)
      BY <1>0, <2>9, <3>1
    <3>2. CASE i = Len(rx) + 1
      <4>1. pulled + i = f + 1
        BY <1>8, <3>2
      <4> QED
        BY <2>8, <2>9, <3>2, <4>1
    <3> QED
      BY <1>1, <2>9, <3>1, <3>2
  <2>11. Len(rx') = (f + 1) - pulled
    BY <1>0, <1>1, <1>7, <2>9
  <2>12. Pushed(p, e, f + 1)'
    <3>1. \A i \in 1..Len(rx') : WordRead(rx[i], Pulled + i)'
      BY <1>0, <2>7, <2>10 DEF WordRead
    <3>2. \A k \in 1..sm'.count : FALSE
      BY <2>4
    <3> QED
      BY <1>0, <2>4, <2>7, <2>11, <3>1, <3>2 DEF Pushed
  <2> QED
    BY <2>4, <2>12
<1> QED
  BY <1>5, <1>6

\* jtag reads the bit of the clock before.
LEMMA JtagInStep ==
    ASSUME PioInv, PioTypeOK', JtagIn PROVE PioInv'
<1>1. PICK L \in Trails, d \in Nat, f \in Nat : InStep(L, d, f)
  BY DEF PioInv
<1>0. PICK p : p = L[0]
  OBVIOUS
<1>2. /\ p \in Places /\ SmAt(p, d) /\ Reads(p, d, f) /\ p.bits \in Nat \ {0}
      /\ p.left \in Nat /\ PioTypeOK /\ clocked.bit = clocked.due /\ Trail(L)
  BY <1>0, <1>1, PlaceFacts DEF PioInv
<1>3. /\ sm.pc = "jtag_in" /\ ShiftIn(clocked.bit, "jtag")
      /\ UNCHANGED <<cpuVars, tx, due, clocked>> /\ UNCHANGED <<cpu, call>>
  BY DEF JtagIn, cpuVars
<1>4. /\ p.routine = "jtag" /\ d > 0 /\ clocked.bit = Bit("jtag", d) /\ sm.x = p.bits - d
      /\ ~Finished(p, d) /\ Alone(p) /\ d \in 0..p.bits /\ d \in Nat \ {0}
      /\ ~Loaded(p, d) /\ sm.osr = Rest(p, d)
      /\ Whole(p.word - 1) <= d /\ d <= Whole(p.word) /\ p.word <= Sent(p)
      /\ DueAt(p, d)
  BY <1>2, <1>3 DEF SmAt, Loaded, Finished
<1>5. /\ Captures /\ p.left = 0 /\ call \in Calls /\ Pushed(p, d, f)
      /\ p.routine = call.routine /\ p.bits = call.bits
  BY <1>0, <1>1, <1>2, <1>4, PlaceFacts DEF Reading
<1>6. /\ d - 1 = Whole(f) + sm.count
      /\ \A k \in 1..sm.count : sm.isr[WordBits - sm.count + k] = Bit(call.routine, Whole(f) + k)
      /\ Len(rx) = f - Pulled
      /\ \A i \in 1..Len(rx) : WordRead(rx[i], Pulled + i)
  BY <1>3, <1>4, <1>5 DEF Pushed, ShiftedBits
<1>7. /\ \E g \in Nat : Pushed(p, d, g)'
      /\ sm'.pc = (IF sm.x > 0 THEN "jtag" ELSE "push") /\ sm'.osr = sm.osr
      /\ sm.x > 0 => sm'.x = sm.x - 1
  <2>1. PICK bit, loop :
            /\ loop \in {"jtag", "read_cmd"} /\ loop = "jtag"
            /\ bit = Bit(call.routine, d) /\ ShiftIn(bit, loop)
    BY <1>3, <1>4, <1>5
  <2>2. d <= call.bits
    BY <1>4, <1>5
  <2> QED
    BY <1>2, <1>3, <1>4, <1>5, <1>6, <2>1, <2>2, BitIn
<1>8. SmAt(p, d)'
  <2>1. DueAt(p, d)' /\ Alone(p)' /\ ~Loaded(p, d)' /\ ~Finished(p, d)'
    BY <1>3, <1>4, <1>7 DEF DueAt, Alone, Running, Loaded, Finished
  <2>2. CASE sm.x > 0
    <3>1. d < p.bits /\ sm.x - 1 = p.bits - 1 - d
      BY <1>2, <1>4, <2>2
    <3> QED
      BY <1>4, <1>7, <2>1, <2>2, <3>1 DEF SmAt, Looping
  <2>3. CASE ~(sm.x > 0)
    <3>1. d = p.bits
      BY <1>2, <1>4, <2>3
    <3>2. Complete(p)
      BY <1>2, <1>4, <3>1, LastPlace
    <3> QED
      BY <1>4, <1>7, <2>1, <2>3, <3>1, <3>2 DEF SmAt, Looping, Reading
  <2> QED
    BY <2>2, <2>3
<1>9. PICK g \in Nat : Pushed(p, d, g)'
  BY <1>7
<1>10. Reads(p, d, g)'
  BY <1>3, <1>5, <1>9 DEF Reads, Captures, Running
<1>11. L \in Trails' /\ Trail(L)'
  BY <1>2, <1>3, TrailSame
<1>12. InStep(L, d, g)' /\ (clocked.bit = clocked.due)'
  BY <1>0, <1>2, <1>3, <1>8, <1>10, <1>11 DEF InStep
<1> QED
  BY <1>3, <1>9, <1>11, <1>12, SmOnly

\* read_cmd clocks and reads the next bit.
LEMMA ReadBitStep ==
    ASSUME PioInv, PioTypeOK', ReadBit PROVE PioInv'
<1>1. PICK L \in Trails, d \in Nat, f \in Nat : InStep(L, d, f)
  BY DEF PioInv
<1>0. PICK p : p = L[0]
  OBVIOUS
<1>2. /\ p \in Places /\ SmAt(p, d) /\ Reads(p, d, f) /\ p.bits \in Nat \ {0}
      /\ p.left \in Nat /\ PioTypeOK /\ Trail(L)
  BY <1>0, <1>1, PlaceFacts DEF PioInv
<1>3. /\ sm.pc = "read_cmd" /\ UNCHANGED <<cpuVars, tx>> /\ UNCHANGED <<cpu, call>>
  BY DEF ReadBit, cpuVars
<1>4. /\ p.routine = "read_cmd" /\ d < p.bits /\ sm.x = p.bits - 1 - d
      /\ ~Finished(p, d) /\ Alone(p) /\ ~Loaded(p, d) /\ sm.osr = Rest(p, d)
      /\ p.word <= Sent(p) /\ DueAt(p, d)
  BY <1>2, <1>3 DEF SmAt, Loaded, Finished, Looping
<1>5. /\ Captures /\ p.left = 0 /\ call \in Calls /\ Pushed(p, d, f)
      /\ p.routine = call.routine /\ p.bits = call.bits
  BY <1>0, <1>1, <1>2, <1>4, PlaceFacts DEF Reading
<1>6. /\ (d + 1) - 1 = Whole(f) + sm.count
      /\ \A k \in 1..sm.count : sm.isr[WordBits - sm.count + k] = Bit(call.routine, Whole(f) + k)
      /\ Len(rx) = f - Pulled
      /\ \A i \in 1..Len(rx) : WordRead(rx[i], Pulled + i)
  <2>1. ShiftedBits(d) = d /\ ShiftedBits(d) = Whole(f) + sm.count
    BY <1>3, <1>4, <1>5 DEF Pushed, ShiftedBits
  <2> QED
    BY <1>5, <2>1 DEF Pushed
<1>7. PICK bit : bit = Bit("read_cmd", d + 1) /\ Clocks(bit) /\ ShiftIn(bit, "read_cmd")
  <2>1. PICK bit : /\ Clocks(bit) /\ ShiftIn(bit, "read_cmd")
                   /\ bit = IF due # <<>> /\ due[1].routine = "read_cmd" THEN DueBit
                            ELSE Bit("read_cmd", 0)
    BY DEF ReadBit
  <2>2. due # <<>> /\ due[1].routine = p.routine /\ DueBit = Bit(p.routine, d + 1)
    BY <1>2, <1>4, <2>1, BitClocked
  <2> QED
    BY <1>4, <2>1, <2>2
<1>8. /\ DueAt(p, d + 1)' /\ (clocked.bit = clocked.due)' /\ Len(due) = p.left + 1
  BY <1>2, <1>4, <1>7, BitClocked
<1>9. /\ \E g \in Nat : Pushed(p, d + 1, g)'
      /\ sm'.pc = (IF sm.x > 0 THEN "read_cmd" ELSE "push") /\ sm'.osr = sm.osr
      /\ sm.x > 0 => sm'.x = sm.x - 1
  <2>1. PICK e \in Nat \ {0}, loop \in {"jtag", "read_cmd"} :
            e = d + 1 /\ loop = "read_cmd" /\ ShiftIn(bit, loop)
    BY <1>7
  <2>2. e <= call.bits /\ bit = Bit(call.routine, e) /\ e - 1 = Whole(f) + sm.count
    BY <1>2, <1>4, <1>5, <1>6, <1>7, <2>1
  <2> QED
    BY <1>2, <1>3, <1>5, <1>6, <2>1, <2>2, BitIn
<1>10. SmAt(p, d + 1)'
  <2>1. DueAt(p, d + 1)' /\ Alone(p)' /\ ~Loaded(p, d + 1)' /\ ~Finished(p, d + 1)'
    BY <1>3, <1>4, <1>8, <1>9 DEF Alone, Running, Loaded, Finished
  <2>2. sm'.osr = Rest(p, d + 1) /\ Complete(p) /\ d + 1 \in 0..p.bits
    <3>1. p.word = 0 /\ Whole(0) = 0
      BY <1>2, <1>4, WholeFacts DEF Sent, Places
    <3>2. Rest(p, d) = <<>> /\ Rest(p, d + 1) = <<>>
      <4>1. ~(d < Whole(p.word)) /\ ~(d + 1 < Whole(p.word)) /\ d + 1 \in Nat
        BY <3>1
      <4> QED
        BY <1>2, <4>1, RestFacts
    <3>3. Complete(p)
      BY <1>4, <3>1 DEF Complete, Sent
    <3> QED
      BY <1>2, <1>4, <1>9, <3>2, <3>3
  <2>3. CASE sm.x > 0
    <3>1. d + 1 < p.bits /\ sm.x - 1 = p.bits - 1 - (d + 1)
      BY <1>2, <1>4, <2>3
    <3> QED
      BY <1>4, <1>9, <2>1, <2>2, <2>3, <3>1 DEF SmAt, Looping
  <2>4. CASE ~(sm.x > 0)
    <3>1. d + 1 = p.bits
      BY <1>2, <1>4, <2>4
    <3> QED
      BY <1>4, <1>9, <2>1, <2>2, <2>4, <3>1 DEF SmAt, Looping, Reading
  <2> QED
    BY <2>3, <2>4
<1>11. PICK g \in Nat : Pushed(p, d + 1, g)'
  BY <1>9
<1>12. Reads(p, d + 1, g)'
  BY <1>3, <1>5, <1>11 DEF Reads, Captures, Running
<1>13. L \in Trails' /\ Trail(L)'
  <2>1. Len(due) = L[0].left + 1
    BY <1>0, <1>8
  <2> QED
    BY <1>2, <1>3, <1>7, <2>1, TrailClocked
<1>14. InStep(L, d + 1, g)' /\ d + 1 \in Nat
  BY <1>0, <1>10, <1>12, <1>13 DEF InStep
<1> QED
  BY <1>3, <1>8, <1>11, <1>13, <1>14, SmOnly

\* The word that is pushed last holds what is left over from the whole ones.
LEMMA LastPushed ==
    ASSUME NEW b \in Nat \ {0}, NEW f \in Nat, NEW n \in Counts, b = Whole(f) + n
    PROVE  /\ f + 1 = AllWords(b)
           /\ InWord(b, f + 1) = n
<1> DEFINE c == WordCount(b)
<1>1. /\ c \in Nat \ {0} /\ Whole(c - 1) < b /\ b <= Whole(c) /\ (ExtraPull(b) <=> Whole(c) = b)
      /\ AllWords(b) = c + (IF ExtraPull(b) THEN 1 ELSE 0)
  BY WordCountFacts DEF AllWords
<1> HIDE DEF c
<1>2. /\ WordBits \in Nat \ {0} /\ Whole(f) \in Nat /\ n \in 0..(WordBits - 1)
      /\ Whole(f + 1) = Whole(f) + WordBits
  BY PioAssumption, WholeFacts DEF Counts
<1>3. c \in Int /\ c - 1 \in Int /\ f + 1 \in Int /\ f \in Int /\ f + 1 - 1 = f
  BY <1>1
<1>4. Whole(c) \in Int /\ Whole(c - 1) \in Int
  BY <1>3, WholeFacts
<1>5. /\ c <= f => Whole(c) <= Whole(f)
      /\ c <= f + 1 - 1 => Whole(c) <= Whole(f)
      /\ f + 1 <= c - 1 => Whole(f + 1) <= Whole(c - 1)
      /\ f <= c - 1 => Whole(f) <= Whole(c - 1)
      /\ c < f => Whole(c) + WordBits <= Whole(f)
  BY <1>3, WholeFacts
<1>6. CASE n = 0
  <2>1. b = Whole(f)
    BY <1>2, <1>6
  <2>2. c = f
    <3>1. ~(c < f)
      BY <1>1, <1>2, <1>4, <1>5, <2>1
    <3>2. ~(f <= c - 1)
      BY <1>1, <1>2, <1>4, <1>5, <2>1
    <3> QED
      BY <1>3, <3>1, <3>2
  <2> QED
    <3>1. f + 1 = AllWords(b)
      BY <1>1, <2>1, <2>2
    <3>2. InWord(b, f + 1) = 0
      <4>1. PICK w \in Int : w = f + 1 /\ w - 1 = f
        BY <1>3
      <4> QED
        BY <1>2, <2>1, <4>1, InWordFacts
    <3> QED
      BY <1>6, <3>1, <3>2
<1>7. CASE n > 0
  <2>1. Whole(f) < b /\ b < Whole(f + 1) /\ b - Whole(f) = n /\ n < WordBits
    BY <1>2, <1>7
  <2>2. c = f + 1
    <3>1. ~(c <= f)
      BY <1>1, <1>2, <1>4, <1>5, <2>1
    <3>2. ~(f + 1 <= c - 1)
      BY <1>1, <1>2, <1>4, <1>5, <2>1
    <3> QED
      BY <1>3, <3>1, <3>2
  <2>3. Whole(c) # b
    BY <1>2, <2>1, <2>2
  <2>4. InWord(b, f + 1) = n
    <3>1. PICK w \in Int : w = f + 1 /\ w - 1 = f
      BY <1>3
    <3> QED
      BY <1>2, <2>1, <3>1, InWordFacts
  <2> QED
    BY <1>1, <2>2, <2>3, <2>4
<1> QED
  BY <1>2, <1>6, <1>7

\* The last push ends the call with the words it pulls, no more and no fewer.
LEMMA PushLastStep ==
    ASSUME PioInv, PioTypeOK', PushLast PROVE PioInv'
<1>1. PICK L \in Trails, d \in Nat, f \in Nat : InStep(L, d, f)
  BY DEF PioInv
<1>0. PICK p, n : p = L[0] /\ n = sm.count
  OBVIOUS
<1>2. /\ p \in Places /\ SmAt(p, d) /\ p.bits \in Nat \ {0}
      /\ p.left \in Nat /\ PioTypeOK /\ clocked.bit = clocked.due /\ Trail(L)
      /\ WordBits \in Nat \ {0}
  BY <1>0, <1>1, PlaceFacts, PioAssumption DEF PioInv
<1>3. /\ sm.pc = "push" /\ rx' = Append(rx, sm.isr)
      /\ sm' = [sm EXCEPT !.pc = "idle", !.isr = Zeros, !.count = 0]
      /\ UNCHANGED <<cpuVars, tx, due, clocked>> /\ UNCHANGED <<cpu, call>>
  BY DEF PushLast, cpuVars
<1>4. /\ p.routine \in Reading /\ Complete(p) /\ d = p.bits
      /\ ~Finished(p, d) /\ Alone(p) /\ ~Loaded(p, d)
  BY <1>2, <1>3 DEF SmAt, Loaded, Finished
<1>5. /\ Captures /\ p.left = 0 /\ call \in Calls /\ Pushed(p, d, f)
      /\ p.routine = call.routine /\ p.bits = call.bits
  BY <1>0, <1>1, <1>2, <1>4, PlaceFacts
<1>6. /\ sm'.pc = "idle" /\ sm'.osr = sm.osr /\ sm'.count = 0 /\ n \in Counts
      /\ sm.isr \in FullWords
  BY <1>0, <1>2, <1>3 DEF PioTypeOK, WireOK, StateMachines
<1>7. Finished(p, d)' /\ ~Loaded(p, d)'
  BY <1>2, <1>4, <1>6 DEF Finished, Loaded, Complete, Sent
<1>8. SmAt(p, d)'
  <2>1. DueAt(p, d)'
    BY <1>2, <1>3 DEF SmAt, DueAt
  <2> QED
    BY <1>2, <1>4, <1>6, <1>7, <2>1 DEF SmAt, Looping
<1>9. p.bits = Whole(f) + n
  <2>1. ShiftedBits(d) = Whole(f) + n /\ ShiftedBits(d) = d
    BY <1>0, <1>3, <1>4, <1>5 DEF Pushed, ShiftedBits
  <2> QED
    BY <1>4, <2>1
<1>10. f + 1 = AllWords(call.bits) /\ InWord(call.bits, f + 1) = n
  BY <1>2, <1>5, <1>6, <1>9, LastPushed
<1>11. WordRead(sm.isr, f + 1)
  <2>1. f + 1 - 1 = f
    OBVIOUS
  <2>2. \A k \in 1..n : sm.isr[WordBits - n + k] = Bit(call.routine, Whole(f) + k)
    BY <1>0, <1>5 DEF Pushed
  <2>3. \A k \in 1..WordBits : k <= n => k \in 1..n
    BY <1>2, <1>6 DEF Counts
  <2> QED
    BY <1>10, <2>1, <2>2, <2>3 DEF WordRead
<1>12. PICK pulled \in Int : pulled = Pulled
  <2>1. WordCount(call.bits) \in Nat /\ cpu.word \in Nat
    BY <1>2, <1>5, WordCountFacts DEF PioTypeOK, CallOK, Calls
  <2> QED
    BY <2>1 DEF Pulled
<1>13. /\ Len(rx) \in Nat /\ Len(rx') = Len(rx) + 1 /\ rx'[Len(rx) + 1] = sm.isr
       /\ \A i \in 1..Len(rx) : rx'[i] = rx[i]
  BY <1>2, <1>3, <1>6, NotEmpty, AppendProperties DEF PioTypeOK, WireOK
<1>14. f + 1 = pulled + (Len(rx) + 1)
  <2>1. PICK l \in Nat : l = Len(rx)
    BY <1>13
  <2>2. l = f - pulled
    BY <1>5, <1>12, <2>1 DEF Pushed
  <2>3. f + 1 = pulled + (l + 1)
    BY <1>12, <2>2
  <2> QED
    BY <2>1, <2>3
<1>15. ASSUME NEW i \in 1..Len(rx') PROVE WordRead(rx'[i], pulled + i)
  <2>1. CASE i \in 1..Len(rx)
    BY <1>5, <1>12, <1>13, <2>1 DEF Pushed
  <2>2. CASE i = Len(rx) + 1
    BY <1>11, <1>13, <1>14, <2>2
  <2> QED
    BY <1>13, <2>1, <2>2
<1>16. Pushed(p, d, f + 1)'
  <2>1. Pulled' = pulled
    BY <1>3, <1>12 DEF Pulled
  <2>2. \A i \in 1..Len(rx') : WordRead(rx[i], Pulled + i)'
    BY <1>3, <1>15, <2>1 DEF WordRead
  <2>3. Len(rx') = (f + 1) - pulled
    BY <1>12, <1>13, <1>14
  <2>4. \A k \in 1..sm'.count : FALSE
    BY <1>6
  <2> QED
    BY <1>3, <1>6, <1>7, <1>10, <2>1, <2>2, <2>3, <2>4 DEF Pushed
<1>17. Reads(p, d, f + 1)'
  BY <1>3, <1>5, <1>16 DEF Reads, Captures, Running
<1>18. L \in Trails' /\ Trail(L)'
  BY <1>2, <1>3, TrailSame
<1>19. InStep(L, d, f + 1)' /\ (clocked.bit = clocked.due)' /\ f + 1 \in Nat
  BY <1>0, <1>2, <1>3, <1>8, <1>17, <1>18 DEF InStep
<1> QED
  BY <1>3, <1>18, <1>19, SmOnly

\* A step of nothing keeps the invariant.
LEMMA PioStutter ==
    ASSUME PioInv, PioTypeOK', UNCHANGED pioVars PROVE PioInv'
<1>1. PICK L \in Trails, d \in Nat, f \in Nat : InStep(L, d, f)
  BY DEF PioInv
<1>2. /\ Trail(L) /\ SmAt(L[0], d) /\ Reads(L[0], d, f) /\ clocked.bit = clocked.due
  BY <1>1 DEF InStep, PioInv
<1>3. UNCHANGED <<port, cpu, call, data, tx, rx, sm, due, clocked>> /\ UNCHANGED cpuVars
  BY DEF pioVars, cpuVars
<1>4. L \in Trails' /\ Trail(L)'
  BY <1>2, <1>3, TrailSame
<1>5. SmAt(L[0], d)'
  BY <1>2, <1>3 DEF SmAt, DueAt, Loaded, Finished, Alone, Running
<1>6. Reads(L[0], d, f)'
  BY <1>2, <1>3 DEF Reads, Captures, Running, Pulled, Pushed, Finished, ShiftedBits, WordRead
<1>7. InStep(L, d, f)' /\ (clocked.bit = clocked.due)'
  BY <1>2, <1>3, <1>4, <1>5, <1>6 DEF InStep
<1> QED
  BY <1>3, <1>4, <1>7, SmOnly

\* The invariant is inductive.
LEMMA PioInductive == PioInv /\ [PioNext]_pioVars => PioInv'
<1> SUFFICES ASSUME PioInv, [PioNext]_pioVars PROVE PioInv'
  OBVIOUS
<1>1. PioTypeOK'
  BY PioTypeStep DEF PioInv
<1>2. ASSUME NEW routine \in Routines[port], NEW bits \in 1..MaxBits, NEW capture \in BOOLEAN,
             capture => routine \in Reading, Call(routine, bits, capture)
      PROVE  PioInv'
  BY <1>1, <1>2, CallStep
<1>3. CASE CpuStep
  BY <1>1, <1>3, CpuCommandStep, CpuPushStep, CpuPullStep, CpuExtraStep, CpuDrainStep DEF CpuStep
<1>4. CASE SmStep
  BY <1>1, <1>4, AutoPullStep, IdleStep, BranchStep, WritePullStep, WriteBitStep, JtagOutStep,
     JtagInStep, ReadBitStep, PushLastStep DEF SmStep
<1>5. CASE UNCHANGED pioVars
  BY <1>1, <1>5, PioStutter
<1> QED
  BY <1>2, <1>3, <1>4, <1>5 DEF PioNext

\* With nothing on the way the state machine has clocked what the calls asked for.
LEMMA PioInvClocks == PioInv => ClocksAsAsked
<1> SUFFICES ASSUME PioInv PROVE ClocksAsAsked
  OBVIOUS
<1>1. PICK L \in Trails, d \in Nat, f \in Nat : InStep(L, d, f)
  BY DEF PioInv
<1>2. /\ L[0] \in Places /\ SmAt(L[0], d) /\ L[0].bits \in Nat \ {0} /\ Trail(L) /\ PioTypeOK
      /\ L[0].routine \in RoutineNames
  BY <1>1, PlaceFacts DEF PioInv, Places
<1>3. clocked.bit = clocked.due /\ sm.pc # "lost"
  BY <1>2 DEF PioInv, SmAt
<1>4. ASSUME sm.pc = "idle", tx = <<>>, cpu = Returned, ~IsCommand(sm.osr) PROVE due = <<>>
  <2>1. ~Loaded(L[0], d)
    BY <1>2, <1>4, CellFacts DEF SmAt
  <2>2. Finished(L[0], d)
    BY <1>2, <1>4, <2>1 DEF SmAt
  <2>3. Len(due) = L[0].left
    BY <1>2, <2>2 DEF SmAt, DueAt, Finished
  <2>4. L[0].left = 0
    BY <1>2, <1>4 DEF Trail, CpuAt, Returned, Op
  <2> QED
    BY <1>2, <2>3, <2>4, NotEmpty DEF PioTypeOK, WireOK
<1> QED
  BY <1>3, <1>4 DEF ClocksAsAsked

\* A call that returned has pulled all its bits, and left no word.
LEMMA PioInvCaptures == PioInv => CapturesInPlace
<1> SUFFICES ASSUME PioInv, cpu = Returned, call # None
    PROVE  /\ call.capture => data = [k \in 1..call.bits |-> Bit(call.routine, k)]
           /\ rx = <<>> /\ (port = "JTAG" => tx = <<>>)
  BY DEF CapturesInPlace
<1>1. PICK L \in Trails, d \in Nat, f \in Nat : InStep(L, d, f)
  BY DEF PioInv
<1>2. ~Captures
  BY DEF Captures, Running, Returned, Op
<1>3. rx = <<>>
  BY <1>1, <1>2 DEF InStep, Reads
<1>4. call.capture => data = [k \in 1..call.bits |-> Bit(call.routine, k)]
  BY DEF PioInv, CpuOK, BitsOf
<1>5. port = "JTAG" => call.routine # "write_cmd"
  BY DEF PioInv, PioTypeOK, CallOK, Routines
<1>6. port = "JTAG" => tx = <<>>
  BY <1>5 DEF PioInv, CpuOK
<1> QED
  BY <1>3, <1>4, <1>6

\* The queues and the state machine stay in step with the calls, for every width
\* of a word, depth of a queue and number of bits (pio_access_port.rs against
\* jtag.pio and swd.pio).
THEOREM PioInvariance == PioSpec => []PioInv
BY PioInvInit, PioInductive, PTL DEF PioSpec

\* Every bit that is clocked is the one due, and none is missing in the end.
THEOREM ClocksRight == PioSpec => []ClocksAsAsked
BY PioInvariance, PioInvClocks, PTL

\* A call that reads returns its own bits, each in its place, and leaves the
\* queues empty for the next.
THEOREM CapturesRight == PioSpec => []CapturesInPlace
BY PioInvariance, PioInvCaptures, PTL
=============================================================================

------------------------------ MODULE JtagChain ------------------------------
(***************************************************************************)
(* The wire side of a JTAG debug port: what the register accesses of       *)
(* DapTransfer do, clock by clock, to a chain of devices.                  *)
(*                                                                         *)
(*   JTAG, JTAGOperator (dap.rs)     the chain as the host configured it,  *)
(*                                   and the scans of one command          *)
(*   JTAGAccessPort (both drivers)   clocks and transfers, one bit each    *)
(*   the chain (external)            TAP controllers that share TMS, and   *)
(*                                   one shift register from TDI to TDO    *)
(*                                                                         *)
(* A handler never awaits between two clocks, so an access is one action.  *)
(* Sequences of bits have the bit that is clocked first at their head, and *)
(* the device at TDO, index 0 in the code, is device 1.                    *)
(***************************************************************************)
EXTENDS Integers, SequencesExt

CONSTANTS
    Chains,        \* the IR lengths of the chains, each a sequence, TDO first
    DataBits,      \* bound: the bits of a data word (32 in the code)
    HostData,      \* the words the host writes, as numbers
    HostAddresses  \* the register addresses the host uses

DebugPortLengths == 4..8   \* below, APACC is BYPASS; above, the byte is short

ASSUME ChainAssumption ==
    /\ DataBits \in Nat \ {0, 1}
    /\ \A chain \in Chains : chain # <<>> /\ \A k \in DOMAIN chain : chain[k] \in Nat \ {0}
    /\ HostData \subseteq 0..(2^DataBits - 1) /\ HostAddresses \subseteq 0..3

VARIABLES
    lengths,    \* the instruction registers that are really in the chain
    jtag,       \* Transfer::jtag: ir_lengths of the device_count first devices
    chain,      \* the devices: [tap, ir, shift, ack], and what a scan left behind:
                \* tdo, the bits that came out, and executed, what each device did
    operator,   \* the JTAGOperator of a command, none between commands
    request,    \* what the last access asked of which device
    answer      \* what it returned

vars == <<lengths, jtag, chain, operator, request, answer>>

None == [none |-> TRUE]

Bits(value, n) == [k \in 1..n |-> (value \div 2^(k - 1)) % 2]
Ones(n) == [k \in 1..n |-> 1]

\* JTAGInstruction, a byte each.
Code == [Abort |-> 248, DebugPort |-> 250, AccessPort |-> 251,
         IDCode |-> 254, Bypass |-> 255]
Addressed == {"Abort", "DebugPort", "AccessPort"}

OkAck == <<0, 1, 0>>
WaitAck == <<1, 0, 0>>

LastBits(s, n) == SubSeq(s, Len(s) - n + 1, Len(s))

-----------------------------------------------------------------------------
(***************************************************************************)
(* The chain.  Capture, shift and update happen at the clock that finds    *)
(* the controllers in, respectively takes them to, the state of that name. *)
(***************************************************************************)

Devices == DOMAIN lengths

\* Where a controller goes when TMS is <<low, high>>.
Tap == [Reset    |-> <<"Idle", "Reset">>,       Idle     |-> <<"Idle", "SelectDR">>,
        SelectDR |-> <<"CaptureDR", "SelectIR">>, SelectIR |-> <<"CaptureIR", "Reset">>,
        CaptureDR |-> <<"ShiftDR", "Exit1DR">>, CaptureIR |-> <<"ShiftIR", "Exit1IR">>,
        ShiftDR  |-> <<"ShiftDR", "Exit1DR">>,  ShiftIR  |-> <<"ShiftIR", "Exit1IR">>,
        Exit1DR  |-> <<"PauseDR", "UpdateDR">>, Exit1IR  |-> <<"PauseIR", "UpdateIR">>,
        PauseDR  |-> <<"PauseDR", "Exit2DR">>,  PauseIR  |-> <<"PauseIR", "Exit2IR">>,
        Exit2DR  |-> <<"ShiftDR", "UpdateDR">>, Exit2IR  |-> <<"ShiftIR", "UpdateIR">>,
        UpdateDR |-> <<"Idle", "SelectDR">>,    UpdateIR |-> <<"Idle", "SelectDR">>]

\* The instruction a device decodes: a debug port knows five, a device of
\* another kind only BYPASS.
Decoded(ir) ==
    IF ir = Ones(Len(ir)) THEN "Bypass"
    ELSE IF /\ Len(ir) \in DebugPortLengths
            /\ \E i \in DOMAIN Code : Bits(Code[i], Len(ir)) = ir
         THEN CHOOSE i \in DOMAIN Code : Bits(Code[i], Len(ir)) = ir
         ELSE "Unknown"

\* A word that tells the devices apart: what each has to say.
Word(k) == Bits(2 * k - 1, DataBits)

CapturedDR(c, k) ==
    CASE Decoded(c.ir[k]) = "Bypass" -> <<0>>
      [] Decoded(c.ir[k]) \in Addressed -> c.ack \o Word(k)
      [] OTHER -> Word(k)

Joined(part(_)) == FlattenSeq([k \in Devices |-> part(k)])

\* The bits of device k in a shift register whose parts have these lengths.
Part(shift, length(_), k) ==
    LET before == SumFunctionOnSet([j \in Devices |-> length(j)], 1..(k - 1))
    IN  SubSeq(shift, before + 1, before + length(k))

\* An access that was told to wait is not executed when it is updated.
Executed(c, k) ==
    IF Decoded(c.ir[k]) \in Addressed /\ c.ack = OkAck
    THEN [instruction |-> Decoded(c.ir[k]),
          bits |-> Part(c.shift, LAMBDA j : Len(CapturedDR(c, j)), k)]
    ELSE None

\* One clock: TMS and TDI are sampled, and a bit leaves at TDO while shifting.
Tick(c, t) ==
    LET tap == Tap[c.tap][t.tms + 1]
        shifting == c.tap \in {"ShiftDR", "ShiftIR"}
        shift == CASE c.tap = "CaptureDR" -> Joined(LAMBDA k : CapturedDR(c, k))
                   [] c.tap = "CaptureIR" -> Joined(LAMBDA k : Bits(1, lengths[k]))
                   [] shifting -> Append(Tail(c.shift), t.tdi)
                   [] OTHER -> c.shift
    IN [c EXCEPT
          !.tap = tap,
          !.shift = IF tap \in {"UpdateDR", "UpdateIR"} THEN <<>> ELSE shift,
          !.tdo = Append(@, IF shifting THEN Head(c.shift) ELSE 1),
          !.ir = CASE tap = "UpdateIR" ->
                          [k \in Devices |-> Part(shift, LAMBDA j : lengths[j], k)]
                   [] tap = "Reset" -> [k \in Devices |-> Bits(Code["IDCode"], lengths[k])]
                   [] OTHER -> @,
          !.executed = IF tap # "UpdateDR" THEN @
                       ELSE [k \in Devices |->
                               IF Executed(c, k) = None THEN @[k] ELSE Executed(c, k)]]

Run(c, ticks) == FoldLeft(Tick, c, ticks)

-----------------------------------------------------------------------------
(* JTAGAccessPort, what both drivers make of a call. *)

Clock(cycles, tms, tdi) == [k \in 1..cycles |-> [tms |-> tms, tdi |-> tdi]]

\* truncate: never more bits than the data has.
Transfer(num_bits, tms, data) ==
    LET bits == IF num_bits < Len(data) THEN num_bits ELSE Len(data)
    IN  [k \in 1..bits |-> [tms |-> tms, tdi |-> data[k]]]

-----------------------------------------------------------------------------
(* JTAG::recalculate and try_make_operator. *)

IrBefore(d) == SumFunctionOnSet(jtag, 1..(d - 1))
IrAfter(d) == SumFunction(jtag) - jtag[d] - IrBefore(d)

-----------------------------------------------------------------------------
(* JTAGOperator: the scans of an access, as the clocks they send. *)

ToIdle == Clock(2, 1, 1) \o Clock(1, 0, 1)     \* exit1, update, idle

\* write_ir: BYPASS for everybody else.
WriteIr(d, instruction) ==
    LET data == Bits(Code[instruction], 8)
        size == jtag[d]
    IN  Clock(2, 1, 0) \o Clock(IrBefore(d) + 2, 0, 1)
        \o (IF IrAfter(d) > 0
            THEN Transfer(size, 0, data) \o Clock(IrAfter(d) - 1, 0, 1) \o Clock(2, 1, 1)
            ELSE Transfer(size - 1, 0, data) \o Clock(2, 1, Bits(Code[instruction], size)[size]))
        \o Clock(1, 0, 1)

\* transfer_reg: a bit of BYPASS for every device nearer to TDO, three bits of
\* address against three of acknowledge, and the word.
SelectDr(d) == Clock(1, 1, 1) \o Clock(2, 0, 1) \o Clock(d - 1, 0, 1)

DataPhaseLong(d, data) ==
    Transfer(DataBits, 0, data) \o Clock(Len(jtag) - d, 0, 1) \o ToIdle
DataPhase(d, data) ==
    IF d < Len(jtag)
    THEN Transfer(DataBits, 0, data) \o Clock(Len(jtag) - d - 1, 0, 1) \o ToIdle
    ELSE Transfer(DataBits - 1, 0, data) \o Transfer(1, 1, <<data[DataBits]>>)
         \o Clock(1, 1, 1) \o Clock(1, 0, 1)

\* JTAGTransferAck::is_ok, ack & 6.
IsOk(ack) == ack[2] = 1 \/ ack[3] = 1

\* The chain after transfer_reg, and what it returns.
TransferReg(c, d, instruction, address, data) ==
    LET start == Run(c, SelectDr(d))
        addressed == IF instruction = "IDCode" THEN start ELSE Run(start, Transfer(3, 0, address))
        ack == IF instruction = "IDCode" THEN OkAck ELSE LastBits(addressed.tdo, 3)
        done == Run(addressed, DataPhase(d, data))
        from == Len(addressed.tdo)
    IN  IF IsOk(ack)
        THEN [chain |-> done, ok |-> TRUE,
              data |-> SubSeq(done.tdo, from + 1, from + DataBits)]
        ELSE [chain |-> Run(addressed, ToIdle), ok |-> FALSE, data |-> Bits(0, DataBits)]

\* An access of the operator, which loads the instruction first if it must.
Access(instruction, write_ir, address, data) ==
    LET d == operator.device
        loaded == IF write_ir THEN Run(chain, WriteIr(d, instruction)) ELSE chain
    IN \E ack \in {OkAck, WaitAck} :
        LET blank == [loaded EXCEPT !.ack = ack, !.executed = [k \in Devices |-> None]]
            result == TransferReg(blank, d, instruction, address, data)
        IN /\ chain' = [result.chain EXCEPT !.tdo = <<>>]
           /\ answer' = [ok |-> result.ok, data |-> result.data]
           /\ operator' = [operator EXCEPT !.instruction = instruction]
           /\ request' = [device |-> d, instruction |-> instruction, ack |-> ack,
                          bits |-> address \o data]
           /\ UNCHANGED <<lengths, jtag>>

-----------------------------------------------------------------------------

Init ==
    /\ lengths \in Chains /\ jtag = <<>>
    /\ chain = [tap |-> "Reset", shift |-> <<>>, tdo |-> <<>>, ack |-> OkAck,
                ir |-> [k \in Devices |-> Bits(Code["IDCode"], lengths[k])],
                executed |-> [k \in Devices |-> None]]
    /\ operator = None /\ request = None /\ answer = None

\* handle_jtag_configure, with one device or more.
Configure(ir_lengths) ==
    /\ operator = None
    /\ jtag' = ir_lengths /\ request' = None /\ answer' = None
    /\ UNCHANGED <<lengths, chain, operator>>

\* handle_jtag_sequence: clocks of the host's own, that may end in any state.
JtagSequence(num_bits, tms) ==
    /\ operator = None
    /\ chain' = [Run(chain, Transfer(num_bits, tms, Ones(num_bits))) EXCEPT
                   !.tdo = <<>>, !.executed = [k \in Devices |-> None]]
    /\ request' = None /\ answer' = None
    /\ UNCHANGED <<lengths, jtag, operator>>

\* A command addresses a debug port of the chain the host believes in, and the
\* host has taken the controllers to idle before it does.
MakeOperator(d) ==
    /\ operator = None /\ chain.tap = "Idle"
    /\ d <= Len(jtag) /\ jtag[d] \in DebugPortLengths
    /\ operator' = [device |-> d, instruction |-> "Bypass"]
    /\ request' = None /\ answer' = None
    /\ UNCHANGED <<lengths, jtag, chain>>

EndCommand ==
    /\ operator # None
    /\ operator' = None /\ request' = None /\ answer' = None
    /\ chain' = [chain EXCEPT !.executed = [k \in Devices |-> None], !.ack = OkAck]
    /\ UNCHANGED <<lengths, jtag>>

\* A register access loads the instruction only when it changes.
LoadsOnce(instruction) == operator.instruction = "Bypass"
Loads(instruction) == instruction # operator.instruction

RegisterInstruction(ap) == IF ap THEN "AccessPort" ELSE "DebugPort"

ReadRegister(ap, address) ==
    /\ operator # None
    /\ Access(RegisterInstruction(ap), Loads(RegisterInstruction(ap)),
              <<1>> \o Bits(address, 2), Bits(0, DataBits))

WriteRegister(ap, address, data) ==
    /\ operator # None
    /\ Access(RegisterInstruction(ap), Loads(RegisterInstruction(ap)),
              <<0>> \o Bits(address, 2), Bits(data, DataBits))

\* jtag_read_idcode and write_abort are commands of their own.
ReadIdcode ==
    /\ operator # None /\ request = None
    /\ Access("IDCode", TRUE, Bits(0, 3), Bits(0, DataBits))

WriteAbort(data) ==
    /\ operator # None /\ request = None
    /\ Access("Abort", TRUE, Bits(0, 3), Bits(data, DataBits))

WaitIdleCycles ==
    /\ operator # None /\ request # None
    /\ chain' = [Run(chain, Clock(2, 0, 0)) EXCEPT !.tdo = <<>>]
    /\ UNCHANGED <<lengths, jtag, operator, request, answer>>

Next ==
    \/ \E ir_lengths \in Chains : Configure(ir_lengths)
    \/ \E num_bits \in {1, 5}, tms \in 0..1 : JtagSequence(num_bits, tms)
    \/ \E d \in DOMAIN jtag : MakeOperator(d)
    \/ EndCommand
    \/ \E ap \in BOOLEAN, address \in HostAddresses : ReadRegister(ap, address)
    \/ \E ap \in BOOLEAN, address \in HostAddresses, data \in HostData :
            WriteRegister(ap, address, data)
    \/ ReadIdcode
    \/ \E data \in HostData : WriteAbort(data)
    \/ WaitIdleCycles

Spec == Init /\ [][Next]_vars

-----------------------------------------------------------------------------

\* The chain is the one the host configured.
Agreed == jtag = lengths

\* An access reaches the device it addresses and no other, wherever it sits in
\* the chain: the device executes the request bit for bit, unless it answered
\* WAIT; the others execute nothing; and the caller gets that device's
\* acknowledge and word (transfer_reg, write_ir).
ScanReaches ==
    request # None /\ Agreed =>
        /\ \A k \in Devices \ {request.device} : chain.executed[k] = None
        /\ LET d == request.device
               ok == request.instruction = "IDCode" \/ request.ack = OkAck
           IN /\ answer = [ok |-> ok, data |-> IF ok THEN Word(d) ELSE Bits(0, DataBits)]
              /\ chain.executed[d] =
                    IF ok /\ request.instruction # "IDCode"
                    THEN [instruction |-> request.instruction, bits |-> request.bits]
                    ELSE None

\* What an operator relies on between two accesses.  The controllers are in idle,
\* where write_ir and transfer_reg start from, whatever the host configured and
\* the access returned.  And in the chain the host configured, the instruction it
\* remembers, and leaves out to save a scan, is the one the device has, every
\* other device being bypassed (JTAGOperator's instruction against the chain).
OperatorKnowsChain ==
    operator # None =>
        /\ chain.tap = "Idle"
        /\ Agreed /\ operator.instruction # "Bypass" =>
            \A k \in Devices :
                chain.ir[k] = IF k = operator.device
                              THEN Bits(Code[operator.instruction], lengths[k])
                              ELSE Ones(lengths[k])
=============================================================================

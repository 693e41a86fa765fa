------------------------------ MODULE PioPort ------------------------------
(***************************************************************************)
(* The driver of the target's wires: a call of the access port on one      *)
(* side, a PIO state machine that runs jtag.pio or swd.pio on the other,   *)
(* and two short queues of words between them.                             *)
(*                                                                         *)
(* A call pushes a command word, with the number of bits less one and the  *)
(* routine to branch to, then words of data, and pulls the words that were *)
(* read.  It never asks the state machine how far it is: both must come to *)
(* the same number of words for every number of bits, or the next command  *)
(* is taken for data.  The calls that only write return before their bits  *)
(* are on the wire.                                                        *)
(*                                                                         *)
(* The queues and the shift registers with their automatic push and pull   *)
(* are the chip's (external).  A register is a sequence, its bit 0 first;  *)
(* a bit is named for its call and its place in it.                        *)
(***************************************************************************)
EXTENDS Integers, SequencesExt

CONSTANTS
    WordBits,    \* of a word and of the shift registers, 32 in the chip
    FifoDepth,   \* words of each queue, 4 in the chip
    MaxBits      \* bound of the bits of a call

ASSUME PioAssumption ==
    /\ WordBits \in Nat \ {0} /\ FifoDepth \in Nat \ {0} /\ MaxBits \in Nat \ {0}

VARIABLES
    port,      \* the program that is loaded
    cpu,       \* the next operation of the call on the queues, and its word
    call,      \* the last call: its routine, its bits, and if it captures
    data,      \* the bits it has read
    tx, rx,    \* the queues, of words
    sm,        \* the state machine: pc, x, its shift registers osr and isr, and
               \* the bits that isr has counted
    due,       \* the calls with bits that are not yet clocked: the next bit
    clocked    \* the bit that was clocked last, and the one that was due

pioVars == <<port, cpu, call, data, tx, rx, sm, due, clocked>>

cpuVars == <<port, cpu, call, data>>

Routines == [JTAG |-> {"jtag", "swj_clock"}, SWD |-> {"read_cmd", "write_cmd"}]
Reading == {"jtag", "read_cmd"}

None == [none |-> TRUE]
Zeros == [k \in 1..WordBits |-> None]
Bit(routine, k) == [routine |-> routine, bit |-> k]

\* The words of a number of bits, the last one in part.
WordCount(bits) == (bits + WordBits - 1) \div WordBits
InWord(bits, w) == IF bits - (w - 1) * WordBits < WordBits
                   THEN bits - (w - 1) * WordBits ELSE WordBits

-----------------------------------------------------------------------------
(* The calls: JTAG::transfer and swj_sequence, SWD::write_bits and read_bits. *)

CommandWord(routine, bits) == [k \in 1..WordBits |-> [routine |-> routine, x |-> bits - 1]]
DataWord(routine, w) == [k \in 1..WordBits |-> Bit(routine, (w - 1) * WordBits + k)]

Op(op, word) == [op |-> op, word |-> word]
Returned == Op("none", 0)

\* "if we sent a multple of 32 bits, there's an extra pull."
ExtraNever(bits) == FALSE
ExtraPull(bits) == bits % WordBits = 0

WordsDown(bits) == bits \div WordBits
WordsSent(bits) == WordCount(bits)

\* The loops over the words, and what is behind them.
AfterWord(w) ==
    IF w < WordsSent(call.bits)
    THEN Op(IF call.routine = "read_cmd" THEN "pull" ELSE "push", w + 1)
    ELSE IF call.routine = "swj_clock" THEN Op("drain", 0)
    ELSE IF call.routine \in Reading /\ ExtraPull(call.bits) THEN Op("extra", 0)
    ELSE Returned

\* tdo may be empty: the words are pulled all the same.
Call(routine, bits, capture) ==
    /\ cpu = Returned
    /\ cpu' = Op("command", 0) /\ data' = <<>>
    /\ call' = [routine |-> routine, bits |-> bits, capture |-> capture]
    /\ due' = Append(due, [routine |-> routine, bits |-> bits, next |-> 1])
    /\ UNCHANGED <<port, tx, rx, sm, clocked>>

CpuCommand ==
    /\ cpu.op = "command" /\ Len(tx) < FifoDepth
    /\ tx' = Append(tx, CommandWord(call.routine, call.bits)) /\ cpu' = AfterWord(0)
    /\ UNCHANGED <<port, call, data, rx, sm, due, clocked>>

CpuPush ==
    /\ cpu.op = "push" /\ Len(tx) < FifoDepth
    /\ tx' = Append(tx, DataWord(call.routine, cpu.word))
    /\ cpu' = IF call.routine = "jtag" THEN Op("pull", cpu.word) ELSE AfterWord(cpu.word)
    /\ UNCHANGED <<port, call, data, rx, sm, due, clocked>>

\* word >> (32 - bits)
CpuPull ==
    /\ cpu.op = "pull" /\ rx # <<>>
    /\ LET bits == InWord(call.bits, cpu.word)
       IN data' = IF call.capture
                  THEN data \o SubSeq(Head(rx), WordBits - bits + 1, WordBits) ELSE data
    /\ rx' = Tail(rx) /\ cpu' = AfterWord(cpu.word)
    /\ UNCHANGED <<port, call, tx, sm, due, clocked>>

CpuExtra ==
    /\ cpu.op = "extra" /\ rx # <<>>
    /\ rx' = Tail(rx) /\ cpu' = Returned
    /\ UNCHANGED <<port, call, data, tx, sm, due, clocked>>

CpuDrain ==
    /\ cpu.op = "drain" /\ tx = <<>>
    /\ cpu' = Returned
    /\ UNCHANGED <<port, call, data, tx, rx, sm, due, clocked>>

-----------------------------------------------------------------------------
(* The state machine.  osr is empty when all its bits are out. *)

IsCommand(word) == word # <<>> /\ "x" \in DOMAIN word[1]
OsrFull == Len(sm.osr) = WordBits

\* Automatic pull: at any cycle that finds the register empty.
AutoPull ==
    /\ sm.osr = <<>> /\ tx # <<>>
    /\ sm' = [sm EXCEPT !.osr = Head(tx)] /\ tx' = Tail(tx)
    /\ UNCHANGED <<cpuVars, rx, due, clocked>>

\* pull: nothing when the register is full, else what is left in it is lost.
PullInto(pc) ==
    /\ \/ OsrFull /\ sm' = [sm EXCEPT !.pc = pc] /\ UNCHANGED tx
       \/ /\ ~OsrFull /\ tx # <<>>
          /\ sm' = [sm EXCEPT !.pc = pc, !.osr = Head(tx)] /\ tx' = Tail(tx)
    /\ UNCHANGED <<cpuVars, rx, due, clocked>>

Idle == sm.pc = "idle" /\ PullInto("branch")
WritePull == sm.pc = "write_cmd" /\ PullInto("write_bitloop")

\* out x, out y and out pc take the whole word.  A word of data names no routine.
Branch ==
    /\ sm.pc = "branch"
    /\ sm' = IF IsCommand(sm.osr)
             THEN [sm EXCEPT !.pc = sm.osr[1].routine, !.x = sm.osr[1].x, !.osr = <<>>]
             ELSE [sm EXCEPT !.pc = "lost"]
    /\ UNCHANGED <<cpuVars, tx, rx, due, clocked>>

\* A clock, of the bit that is next in osr or of the next bit read.
DueBit == IF due = <<>> THEN None ELSE Bit(due[1].routine, due[1].next)

Clocks(bit) ==
    /\ clocked' = [bit |-> bit, due |-> DueBit]
    /\ due' = IF due = <<>> THEN due
              ELSE IF due[1].next < due[1].bits THEN [due EXCEPT ![1].next = @ + 1]
              ELSE Tail(due)

\* jmp x--
Loops(state, loop, after) ==
    IF state.x > 0 THEN [state EXCEPT !.x = @ - 1, !.pc = loop]
    ELSE [state EXCEPT !.pc = after]

OutBit(state) ==
    /\ sm.osr # <<>>
    /\ Clocks(Head(sm.osr)) /\ sm' = state
    /\ UNCHANGED <<cpuVars, tx, rx>>

Shifted == [sm EXCEPT !.osr = Tail(@)]

SwjBit == sm.pc = "swj_clock" /\ OutBit(Loops(Shifted, "swj_clock", "idle"))
WriteBit == sm.pc = "write_bitloop" /\ OutBit(Loops(Shifted, "write_bitloop", "idle"))
JtagOut == sm.pc = "jtag" /\ OutBit([Shifted EXCEPT !.pc = "jtag_in"])

\* in pins, with the automatic push of a full register.
ShiftIn(bit, loop) ==
    LET isr == Append(Tail(sm.isr), bit)
    IN IF sm.count + 1 < WordBits
       THEN /\ sm' = Loops([sm EXCEPT !.isr = isr, !.count = @ + 1], loop, "push")
            /\ UNCHANGED rx
       ELSE /\ Len(rx) < FifoDepth /\ rx' = Append(rx, isr)
            /\ sm' = Loops([sm EXCEPT !.isr = Zeros, !.count = 0], loop, "push")

JtagIn ==
    /\ sm.pc = "jtag_in"
    /\ ShiftIn(clocked.bit, "jtag")
    /\ UNCHANGED <<cpuVars, tx, due, clocked>>

ReadBit ==
    /\ sm.pc = "read_cmd"
    /\ LET bit == IF due # <<>> /\ due[1].routine = "read_cmd" THEN DueBit
                  ELSE Bit("read_cmd", 0)
       IN Clocks(bit) /\ ShiftIn(bit, "read_cmd")
    /\ UNCHANGED <<cpuVars, tx>>

\* "push the last bits", of which there may be none.
PushLast ==
    /\ sm.pc = "push" /\ Len(rx) < FifoDepth
    /\ rx' = Append(rx, sm.isr)
    /\ sm' = [sm EXCEPT !.pc = "idle", !.isr = Zeros, !.count = 0]
    /\ UNCHANGED <<cpuVars, tx, due, clocked>>

-----------------------------------------------------------------------------

PioInit ==
    /\ port \in DOMAIN Routines
    /\ cpu = Returned /\ call = None /\ data = <<>> /\ tx = <<>> /\ rx = <<>>
    /\ sm = [pc |-> "idle", x |-> 0, osr |-> <<>>, isr |-> Zeros, count |-> 0]
    /\ due = <<>> /\ clocked = [bit |-> None, due |-> None]

CpuStep == CpuCommand \/ CpuPush \/ CpuPull \/ CpuExtra \/ CpuDrain

SmStep ==
    \/ AutoPull \/ Idle \/ Branch \/ WritePull
    \/ SwjBit \/ WriteBit \/ JtagOut \/ JtagIn \/ ReadBit \/ PushLast

PioNext ==
    \/ \E routine \in Routines[port], bits \in 1..MaxBits, capture \in BOOLEAN :
        /\ capture => routine \in Reading
        /\ Call(routine, bits, capture)
    \/ CpuStep
    \/ SmStep

PioSpec == PioInit /\ [][PioNext]_pioVars

-----------------------------------------------------------------------------

\* What the calls asked for is what is clocked, bit by bit and in order, for
\* every number of bits and however far the calls are ahead of the wire; and when
\* both are idle no bit is missing (the four calls against jtag.pio and swd.pio).
ClocksAsAsked ==
    /\ clocked.bit = clocked.due /\ sm.pc # "lost"
    /\ sm.pc = "idle" /\ tx = <<>> /\ cpu = Returned /\ ~IsCommand(sm.osr) => due = <<>>

\* A call that reads returns the bits of its own clocks, each in its place, and
\* leaves no word behind: the queues are as empty as the next call asserts.
CapturesInPlace ==
    cpu = Returned /\ call # None =>
        /\ call.capture => data = [k \in 1..call.bits |-> Bit(call.routine, k)]
        /\ rx = <<>> /\ (port = "JTAG" => tx = <<>>)
=============================================================================

# grapple-probe: a TLA+ model of the debug probe

The Grapple probe is a USB debug probe: firmware for an RP2040 that speaks
CMSIS-DAP v2 to a host, drives SWD, JTAG and SWO on a target, and adds a UART
bridge, an I2C bridge and a power supply of its own. This directory holds TLA+
modules of the firmware and of the host programs that talk to it, the TLC
configurations that check them, and TLAPS proofs about nine of the ten systems
that are checked. Paths below are relative to the repository; line numbers are in
`PROJECT.json` under `map`.

## How the program runs

Everything runs in one embassy executor, cooperatively and in thread mode: the
USB device, `cmsis_dap.run` (reader, dispatcher and SWO bulk task, joined), the
UART bridge, the SWO task and the I2C bridge are futures of the main task, and
the UI, power and watchdog tasks are beside it. Code is atomic from one await
to the next. The handlers that touch the target never await (they busy-wait),
so a command is one step of the model unless its handler awaits; an action is
"what a future does from one await to the next". What varies is which future
runs next, what the target and the host do, and whether USB is there.

## Inventory

| Component | State | Operations | Interacts through | Hard part |
|---|---|---|---|---|
| Reader, packet buffer, dispatch loop (`cmsis-dap/src/usb.rs`, `packet_buffer.rs`, `dispatcher.rs`) | a byte ring, two signals, the abort token | read a packet, commit, fetch, answer, release | signals, USB endpoints | lost wakeups, wrap, unplugging, abort overtaking |
| Debug access port (`dap.rs`, `types.rs`) | protocol, transfer configuration, JTAG chain | connect, Transfer, TransferBlock, abort | synchronous calls on the access port | posted reads, WAIT retries, partial failure |
| Target pins (`grapple-probe-firmware/src/pio_access_port.rs`) | the open driver, two tokens, the clock | open and close drivers, pins, clock, sequences | `try_lock` on the tokens | two users of one wire, drivers dropped before their successor opens |
| SWO (`swo.rs`) | control, status and transport watches, trace buffer | the SWO commands, capture task, bulk task | three watches, a mutex, a ring | who sleeps on what; overrun; discarding |
| Packet formats (`protocol/`) | none | parse and fill | bytes | counts and lengths from the host |
| Probe state and configuration (`bin/cmsis_dap.rs`, `config_storage.rs`) | `STATE` watch, flash map | vendor packets | watch, mutex | reset between store and use |
| Power (`bin/cmsis_dap.rs`, `pwm_vreg.rs`, `adc.rs`) | PWM, enables | gate two rails | `STATE` | stale samples across awaits |
| UI, watchdog | LED, counters | blink, feed | `STATE`, time | arithmetic on another task's value; busy waits |
| UART bridge | two buffers, line coding | `select3` over USB, UART, control | futures that are dropped | data lost with a dropped future |
| I2C bridge (`usb-i2c`) | one answer buffer | configure, write, read, write-read | USB endpoints | error paths that reuse a buffer |
| Host library (`grapple-probe`) | cached power configuration | request/response, lazy read, modify | USB endpoints | timeouts, stale cache |
| Device information (`device-info`) | none | build, parse | EEPROM bytes | lengths |
| Bit-banged port, packet generator, board support, Python and test tools | - | - | - | not part of the running firmware, or no changing state |

What makes each modelled component correct is stated with its module below.
`PROJECT.json` lists the hazards, each at its line, with the properties that
cover it.

## Modules

`AccessPort` composes the debug port's protocol state, the open driver, the
tokens and the SWO control; `ProbeSystem` composes the tasks beside it; the other
modules take one path of data each.

| Module | Models | Abstraction |
|---|---|---|
| `WireArbiter` | nothing of the code: what the two tokens promise | each group of wires has at most one user and changes hands only through being free |
| `AccessPort` | connect/disconnect, `PioAccessPort`, `PioSWO`, the SWO control watch, SWJ commands | frequencies are a few numbers around the range of the dividers; a driver is its kind and its clock |
| `BBQueue` | the ring of the `bbqueue` crate (external), with lemmas about its operations | read, write and last positions; no bytes |
| `SwoTrace` | the trace buffer, `SWO::status`, `SWOTask`, `SWOBulkTask`, SWO_Data | bytes are counted, not stored; a capture's port is `AccessPort`'s business |
| `PacketPipeline` | `Reader`, `PacketBuffer`, `dispatch_all`, `Writer`, the abort token | a packet is its number, its size and its kind: a command, an abort, or a reset of an unknown type |
| `DapTransfer` | `handle_transfer`, `handle_transfer_block`, `TransferOperator` over both register operators | a register is AP or not; the n-th AP access of a command has value n; the target answers anything at every access |
| `Commands` | every command's way from request to answer, the three iterators | a request is bytes; a byte of an answer is named for what it holds; what a handler does to the target is elsewhere |
| `JtagChain` | `write_ir`, `transfer_reg`, IDCODE, abort, `recalculate` | clock by clock against TAP controllers; a data word has a few bits; an access is one action |
| `PioPort` | the driver's calls that shift bits, and the PIO programs they feed | a word has a few bits, each named for its call and place |
| `ProbeState` | `STATE` and the power configuration in it | the counters are with the task that reads them |
| `ConfigStore` | storing, reading and booting the configuration; the host library's cache | the flash holds a value or nothing; the pipe is two sequences |
| `PowerTask`, `UiTask`, `ProbeSystem` | the two tasks, and their composition on one `STATE` with stores and resets | voltages are numbers, the ADC an input, a tick an action |
| `UsbI2c` | the I2C bridge and `pyusbi2c` | a byte is named for the command that read it |
| `MC...` | definitions of constants for the runs | |
| `...Proofs` (`AccessPort`, `SwoTrace`, `PacketPipeline`, `DapTransfer`, `Commands`, `UsbI2c`) | theorems about the module of that name | |
| `ProbeProofs` | theorems about `ConfigStore` and `ProbeSystem`, the two systems around `STATE` | |

Variables carry the names of the fields they stand for where TLA+ allows it,
and the comment at each declaration gives the field. Definitions placed
directly before a mapped one with the same parameters, such as `DroppedTooLate`
before `Dropped`, are deliberately wrong variants: replacing the definition by
its variant must break the property that `mutants` names, which shows that the
property depends on that line of the code.

### AccessPort

`dapState` is `DebugAccessPort::state`, `inner` the driver that is open, and
`owner` maps each group of wires to whoever holds its token. The tokens are
`embassy_sync` mutexes taken with `try_lock`; the old driver is dropped before
the new one opens, which is `Dropped`. `request` is what the handlers wrote to
the control watch, `unseen` whether the SWO task has yet to look, `control` what
it applied last. Properties: SWD can always be opened (the `expect()` of
`assert_swd`); the debug port and the driver agree on JTAG, and on SWD except
after a refused connect; a capture is real (task, status and port agree), keeps
its wires, and follows the last request; a frequency in range is the one that is
driven; and the module implements `WireArbiter`.

Three behaviours of the code worth knowing are visible here. A JTAG connect that
is refused because a capture holds the wires has already dropped the SWD driver
and leaves `dapState = "SWD"`; SWD traffic then fails until the next connect.
And a capture request that finds its wires taken is dropped by the task: the
command was answered OK, the watch keeps the request, and sending it again does
not wake the task, because it changes nothing. `CaptureFollowsRequest` is
therefore stated for captures that run. And a frequency below 2 kHz is accepted
while the pins are open and refused, silently, by the driver that opens next,
which then runs undivided: `SupportedFreqIsDriven` is about frequencies from
2 kHz up.

### SwoTrace

Two tasks share a ring and three watches. `producer = "overrun"` is the capture
waiting for `status_receiver.changed()`, `bulk = "waiting"` the bulk task doing
the same; `producerNews` and `bulkNews` are what their receivers have not seen.
`select` drops a pending future: a write in flight is not released, a grant is
not committed. `CountCoversBuffer` relates `buffered_traces` to the ring;
`GrantsHold` says the bytes of a pending write and the room of a pending read
stay where they are; `BulkIsWoken`, `ProducerIsWoken`, `DataStreams` and
`OverrunEnds` say who wakes whom.

The discard at the start of streaming frees the buffer without touching the
status. A capture that was in overrun is then asleep beside an empty buffer, and
the bulk task waits for data: only a new control value starts it again.
`ProducerIsWoken` delimits this case and `StallNeedsControl` states it. The
discarded bytes stay in `buffered_traces` for ever.

### PacketPipeline

The reader asks for room for the largest packet, so the ring wraps early;
`RingHoldsQueue` says that what the ring holds is the queued packets and nothing
else, each where `Offset` puts it, and the one being answered contiguous. `ReaderIsWoken` and
`RequestsAnswered` are about the two signals, `ResponsesInOrder` about what the
host sees across unplugging, aborts and lost responses. `try_read` wants more
than a header, so a packet of no bytes is not seen until another follows it; if
it is the last before the wrap none can, and the dispatcher has stopped for good:
`StallsOnlyOnEmpty` says that it stops on nothing else, `WrapStallIsFinal` that
`Stalled` is left by no step.

Not every packet is answered. A TransferAbort is handled by the reader and never
queued, and a handler that returns 0 leaves nothing to write (`HasResponse`): the
vendor reset of a type the probe does not know, which is released without a
response (`Unanswered`). `gone` has both from the moment they are sent, and what
an endpoint lost: a host that pairs responses with requests must know of the
first two. A reset of a known type, or a panic, ends this model's run; it is the
reset of `ConfigStore`.

The endpoint of `embassy-rp` takes a packet in the same poll in which `write()`
resolves, so a write that is dropped has not sent its packet: the model has no
duplicate deliveries for this reason.

### DapTransfer

One step is one register access with its acknowledge. The target is external and
adversarial: every access may be answered with OK, WAIT, FAULT, nothing, bad
parity (SWD) or a floating TDO (JTAG, which the code takes for OK). An access
that is accepted happens, so an address that auto-increments is advanced: hence
the properties count accesses. `BlockReadsInOrder`: a block answers the words of
its own accesses in order and, when it succeeds, made as many accesses as it has
words. A Transfer ends when a request would not find room for its data and its
timestamp (`Words`), which is also asked for by a match and a match mask that
then give none. `BlockWritesAll`: success means every write happened and none failed
later. `ReadsOwn`: a read returns its own access, not the one before.
`MatchIsReal`: a match is of a wanted value. `CommandEnds`: the retries are
bounded.

The abort token is never cleared. After one abort, every Transfer ends after its
first transfer, no WAIT is retried, and a match is reported without comparing;
`MatchIsReal` is stated for a token that is not set.

### Commands

A packet is parsed (`Parses`), handled, and answered; a packet may be cut short
anywhere. The three commands with a list of items are followed byte by byte:
`Iterate` is the first step of the iterator, the steps after it read a header,
take the data that header asks for, and put what the item returns behind what is
there. The host is external and knows what its headers mean. `TakenAsSent`: what
is executed is what the host wrote, with its data, and all of it if the packet is
whole. `AnswersInPlace`: what the host counts on finding in the answer is there,
at its place, and no handler slices past its buffer. A handler's result may be
anything its type allows; where it comes from is the other modules' subject.

Three requests that parse reach an assertion or an index out of range (`Asserts`),
and the firmware stops (`Panics`) until the watchdog resets it (`Restarts`): a
JTAGConfigure of no devices, always; a TransferBlock of no words, when a debug
port is connected; and a SWJ sequence with more data than its bits need, when JTAG
is. `AnswersInPlace` says that nothing else stops it, whatever the lists hold:
the slice of a JTAG sequence's capture is the place where one would.

Left out of the inputs, because the repository says nothing of what they should
do: a chain with an instruction register shorter than 2 bits (`IsChain`), a SWD sequence of 64 bits (its iterator does not map 0 back to 64, as the JTAG
iterator does), a match mask with a timestamp (the handler makes none, and leaves
its place in the answer as it was), and a value match, which the run
`MCCommandsMatch.cfg` has.
A timestamp is four bytes whose value no property tells apart.

### JtagChain

`chain` is the hardware: TAP controllers that share TMS, and one shift register
through all devices. `Clock` and `Transfer` are `clock()` and `transfer()` of the
access port, and an access of the operator is their composition, as in the code.
`ScanReaches`: with the chain the host configured (`Agreed`), an access reaches
its device bit for bit, bypasses all others, and returns that device's
acknowledge and word, wherever the device is. `OperatorKnowsChain`: between two
accesses the controllers are in idle, whatever was configured and returned, and
the instruction the operator remembers (and will not load again) is the
device's. The host's own sequences may leave the controllers anywhere between two
commands; a command starts from idle, as the code assumes. Debug ports have
instruction registers of 4 to 8 bits and there is at least one device: `write_ir`
assumes the first, `handle_jtag_configure` the second.

### PioPort

Two programs that never ask each other how far they are: a call of the driver
pushes a command word and data and pulls what was read (`AfterWord` says in
which order), the state machine runs `jtag.pio` or `swd.pio`, one action for
each instruction that moves data. The queues and the automatic push and pull are
the chip's. `ClocksAsAsked` compares every bit that is clocked with the one that
is due, across calls that return before their bits are out. `CapturesInPlace`: a
read returns its own bits in place and leaves no word behind, which takes the
extra pull after a whole number of words. `SWD::transfer` uses the same routines
for its request, its acknowledge and its data; its parity and turnaround are not
modelled.

### ConfigStore

The host library sends a request, waits up to a second, and goes on; the answer
stays in the pipe for the next request. On the probe a store is two steps, the
item in the flash (`StoreItem`) and the `send_modify` with the answer
(`FieldStored`), and a reset may come between them and anywhere else. A boot may
fail to read the flash (`unread`) and then runs on the defaults. Properties:
`StoredIsCurrent`, the configuration in use is what a reboot would bring; and
`CacheIsCurrent`, what the host shows is what is in use. The second ends with the
first request that times out, or fetch that fails, since the last boot (`lost`):
the library then assumes the defaults, and may take the late answer for the next
one. And it is suspended by a write that goes past the cache: `write_field` is
public and neither looks at the cached configuration nor drops it, so after
`get_power_config` and an accepted `write_field` the library shows the old
configuration (`host.raw`), until a `modify_power_config` is accepted (which
writes the old one back, modified) or the probe is opened anew. That these
conditions are needed is what `lost`, `unread` and `raw` document; that they
suffice is the property.

### PowerTask, UiTask, ProbeSystem

`power_task` samples the configuration and the ground detection once and applies
them after waits of milliseconds: the actions are the pieces between its awaits.
`ConfigGovernsRails` says that a stale sample does no lasting harm: once the
ground is gone and the configuration no longer changes, a rail gated by the
ground, or asked for no voltage, is off for good. `SignalInRange` is what the LED arithmetic relies on: the
published voltage is 0 or within 1800..3300, even when the host stores 1 mV or
5 V. `LedTells` is a part of the documented behaviour of the LED
(`grapple-probe-firmware/designs/led-behavior.md`): activity blinks it, never
leaves it dark, and without signal voltage it is red again and again. That it
flashes a few times when a debugger connects is not covered. The
watchdog is a reset that may come at any moment; the busy waits that may cause it
are not timed.

### UsbI2c

The loop takes one request, may wait for the bus for ever, and answers into an
endpoint that still holds the answer before. All handlers write to one buffer
(`res_buf`), so every answer carries what it does not overwrite. `pyusbi2c` reads
what is left in the endpoint before its first command, gives up a command after
its time limit and does not look at identifiers. `OwnAnswer`: what a command
returns is all of one transaction's bytes; and the transaction is its own, unless
an earlier one was still owed an answer when the interface was opened or a
command has timed out since (`late`).

The code differs from `usb-i2c/protocol.md` in two places that the model
follows: a general error keeps the identifier of the answer before, where line
16 says it is copied from the request; and a read that is too long is answered
with 1, a bus error, where line 79 has 255, invalid parameters. A third is
outside it: which device is addressed is not modelled, and the code cuts an
address to its low 7 bits, where line 49 says that the top bit asks for 10.

## Runs

| Run | Bounds | Why they are enough |
|---|---|---|
| `AccessPort.cfg` | frequencies below, in, at the end of and above the range; 2 baud rates | every guard on a frequency has a value on each side; the state is finite otherwise |
| `SwoTrace.cfg` | a ring of 4 in blocks of 2, packets up to 2, 5 bytes in all | the ring fills, wraps with a gap at its end, and is discarded in every position |
| `PacketPipeline.cfg` | a ring of 7, header 1, packets of 0 to 2 bytes, 5 packets | two packets and a header fill it; wraps at each offset; an empty packet, an abort or an unanswered reset at each place |
| `DapTransfer.cfg` | blocks of 1 to 3 words, 1 retry of each kind, 2 transfers, room for 2 words | first, middle and last words differ; every loop is entered, repeated and exhausted; a read with a timestamp fills the response, one without does not |
| `MCCommands.cfg` | packets of 24 bytes, up to 4 items of 3 to 5 kinds of header, data bytes that look like headers | a list fits the request but not the answer; a wrong length shifts everything after it |
| `MCJtagChain.cfg` | chains of 1 to 3 devices, the target first, last and in the middle, debug ports of 4 and 8 bits, words of 3 bits | every `if` of the geometry has both outcomes; a word has a first, a middle and a last bit |
| `PioPort.cfg` | words of 3 bits, queues of 2, calls of 1 to 7 bits | below, at and above one and two words; a call fills the queue, and the next runs ahead |
| `MCConfigStore.cfg` | 2 configurations, one the default, 3 packets in the pipe | one late answer, a request and its answer; stored and default differ |
| `MCProbeSystem.cfg` | 4 configurations: default, all gated, out of range, both outputs at no voltage; ADC below, near and above the thresholds | every gate is on and off, every clamp is hit on both sides |
| `UsbI2c.cfg` | 2 bytes of data, reads of 0 to 3, 3 commands, 2 identifiers | a late answer meets the next command and the one after; a read is empty, short, full and too long |

Two more runs each show a disagreement (`findings`):

- `DapTransferEmpty.cfg`: `assert!(count > 0)` (`dap.rs:256`, `280`) fails for a
  TransferBlock of no words.
- `MCCommandsMatch.cfg`: "there's only data if the request is a write or a
  read match" (`protocol/transfer.rs:57`); the code tests the bit of the match
  mask, so a match value is taken for requests.

Deadlock is checked everywhere; no run turns it off.

## Fairness

Weak fairness of a task is the executor: a future whose waker was called is
polled again (`SWOTask`, `SWOBulkTask`, `Reader`, `dispatch_all`). In `SwoTrace`
this includes that a host reads a streaming endpoint that is enabled, and in
`PacketPipeline` that a host reads responses (`WF(HostReads)`); properties name
the unplugged case as a way out. Nothing is assumed of the target, of trace data
arriving, or of a host sending commands. In `DapTransfer` the processor runs a
handler to its end, and no fairness is assumed of the target's answers. In
`ProbeSystem` the tasks wait for timers and the ADC only, so weak fairness of
`PowerNext` and `UiNext` is the executor again, and a boot waits for nothing. The
other modules state safety only and assume no fairness.

## Proofs

Each proof holds for every value of the constants under the named assumptions of
its module, and has one lemma for each action, collected in the lemma that every
step keeps the inductive invariant. That invariant is `IInv` (of
`ProbeSystem`, `SystemInv`).

`AccessPortProofs` proves the safety properties of `AccessPort` for every set of
frequencies and baud rates under `FreqAssumption` and `BaudAssumption`. None is
inductive alone. The strengthening is `Ownership`: the token of the debug wires
never leaves the port between steps; an open JTAG driver holds both tokens, an
open SWD driver leaves the trace token; and the SWO port holds its token exactly
while the control its task applied asks for capture. With it,

- `SwdNeverPanics`, `JtagAgrees`, `CaptureReal`, `SupportedFreqDriven` and
  `TypeCorrect` are conjuncts of the invariant (`Invariance`);
- `CaptureKept` and `DesyncRefused` are action properties proved from it;
- `Arbitrates` shows that each step is a step of `WireArbiter` or a stutter.

The same module proves both properties of `PioPort` (`PioAssumption`), for every width
of a word, depth of the queues and number of bits (`ClocksRight`, `CapturesRight`).
Neither says anything of the words still in the queues, which is where a step could
break them. The invariant, `PioInv`, adds that:

- `Trail`: each word in tx leads from one place in a call to the next, from the place
  of the state machine to that of the call: the next word of data of a call
  (`Continues`), or the command of the next one when the call is complete (`Starts`).
  Here the driver's count of the words, by division, meets the state machine's, bit
  by bit. A call that reads is the only one on the way (`Alone`);
- `SmAt`: what is left in the register is what the words up to its place hold beyond
  the bits it has clocked (`Rest`), or the command, and the next call due begins with
  the next bit. That the branch always finds a command follows from it;
- `Pushed`: the words pushed so far are the bits clocked, divided by the width of a
  word, with the remainder in the other register; after the last push there is one
  word more than the data takes exactly when the last word is whole, which is what
  the extra pull is for.

`ProbeProofs` (`ConfigAssumption`: configurations parse, `Nothing` and
`Malformed` do not) proves both properties of `ConfigStore` and its types.
`StoredIsCurrent` needs that an item which is stored and not yet in use is the
one at the head of the pipe (`StoreInv`). `CacheIsCurrent` needs to know what the
pipe holds at every moment of a request: one packet while the host waits, the one
it waits for, and none otherwise, until something is lost (`PipeInv`); and that
the cache may differ from the flash only while an accepted write is on its way
back, and after one that went past it (`CacheInv`).

For the same configurations and every reading of the ADC (`PowerAssumption`) it proves
`SignalInRange` of `ProbeSystem`, which it has as an instance, with the range of
rail a in the middle of an iteration and after a reset (`Signal`), and from it that
the LED arithmetic fits its bytes (`LedFits`).

`BBQueue` has the lemmas that the two rings share, for a ring of any size that is
`WellFormed`: a commit adds its bytes behind those that are there, a release takes
them from the front, the move to the start neither adds, takes nor loses a byte,
and room that was granted stays while the reader goes on.

`SwoTraceProofs` (`SizesAssumption`) proves the four safety invariants of `SwoTrace`.
They are inductive together, with the types, and not one by one: a write that
waits finds its bytes only because every release is of what is there
(`GrantsHold`), and a task that sleeps was told of all that happened only because
nobody else moves the ring. `StallIsFinal` is an action property on top of them.

`PacketPipelineProofs` (`PacketAssumption`) proves all of its module's safety. The
invariant adds to the properties:

- `Holds`: the ring's bytes are those of the queue, the wrap falls between two of
  its packets, and a wrap was only made where a grant would not fit any more. The
  last part is why a reader that sleeps is woken: the move to the start may make
  room and signals nobody, but the dispatcher that moves then has a packet to
  answer, whose release signals;
- `InHand`: what the dispatcher handles and what the reader was granted is there;
- `Quiet`: a packet underway that will get no response is in `gone`;
- `Numbered`: the numbers of the response in the endpoint, the queued packets and
  the request in the endpoint follow each other, and what is missing is lost
  (`gone`). `InOrder` is read off it.

`Offset` is a recursive function, and what it computes is proved for every queue: the
library's induction theorems cannot be instantiated, but its theorem that a set
of naturals has a least member can (`SetInduction`), and from it come the
existence and uniqueness of running sums, and what a packet appended or taken
does to them.

`DapTransferProofs` (`ConfigAssumption`) proves, for every length of a block and every
number of retries, what a command has answered when it ends. `Progress` says how
far a command may be in each of its phases; `Posts` ties the accesses the target
has made to the words answered: a block read is one access ahead, with the result
waiting, and a block write has made as many as it has done words. The five
theorems each look only at the last step of one command.

`UsbI2cProofs` (`BridgeAssumption`) proves `OwnAnswer` in two arguments. That the
answer's bytes are those of one transaction follows the buffer to the endpoint and
to the host (`InBuffer`, `InEndpoint`, `Returned`), although the buffer keeps what
earlier answers left in it. That the transaction is the command's own is
`OneUnderway`: while nothing is late there is one request, in exactly one of the
three places it passes through, and it is the last the host sent.

`CommandsProofs` (`CommandAssumption`) proves both properties of `Commands`, for every
size of a packet and every number of items, under a hypothesis on the headers the
host uses, `ProperHeaders`: no value match, no match mask in a read or with a
timestamp, no SWD sequence of 64 bits. These are the headers the iterators or the
handlers disagree with the host about (`MCCommandsMatch.cfg` shows the first);
`MCCommands.cfg` uses none of them. The invariant:

- `Arrived`: the packet is what the host wrote, up to where it is cut;
- `InStep`: the items taken are the first ones sent, and the iterator's index is
  where the packet holds the next one;
- `Laid`: the answer is what is awaited for the items taken, or, for SWD sequences
  only, shorter than something no answer holds; and the captures of a JTAG sequence
  are shorter than what was sent for them, which is why their slices fit.

The bytes of a packet are a `FlattenSeq` of its items, which is a recursive function
inside. What it computes is proved first, for sequences of any kind: that it joins
them one by one (`FlattenAppend`), and that each is found again where those before it
end (`FlattenPlaces`), which is what makes the next header the right one.

Only model-checked:

- every liveness property (`CaptureFollowsRequest`, `DataStreams`, `OverrunEnds`,
  `RequestsAnswered`, `CommandEnds`, `ConfigGovernsRails`, `LedTells`), since fairness
  is out of the prover's reach;
- `JtagChain`. Its properties compare the bits of a scan with the words of each
  device. The definitions they compare are folds over a chain of any length, which
  want an induction of their own like those for `Offset` and `FlattenSeq`.

## Not modelled

- The bits of a SWD request on the wire: its parity, its turnaround and the data
  phase that SWDConfigure sets. `DapTransfer` has the acknowledge and a parity
  error as answers of the target.
- Time: how long a busy wait or a bus transaction takes, and when the watchdog
  bites. Resets may come at any moment instead.
- The UART bridge. It is one `select3` over futures of two crates, which are not
  in the repository: whether a future that lost holds bytes is decided there.
- Device information (a parser of a fixed table, read once), board support (pins
  handed to drivers once), the bit-banged port's pins and waits (the firmware
  does not instantiate it), and the test programs.
- USB descriptors, Info strings and logging have no property. Truncation of a
  TransferBlock to what fits a packet is in `Commands` only by its size.

## Plan

Done: the core (`AccessPort`, `SwoTrace`, `PacketPipeline`), the commands and what they
do to the target, the tasks beside them, and the proofs above. Left, in this
order:

1. `ScanReaches` for a chain of any length, by induction over its devices.
2. The SWD request as a scan of its own, like the JTAG one, over the routines of
   `PioPort`.

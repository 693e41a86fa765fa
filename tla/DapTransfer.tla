---------------------------- MODULE DapTransfer ----------------------------
(***************************************************************************)
(* Transfer and TransferBlock: how register accesses are posted, retried   *)
(* and collected (dap.rs, TransferOperator and the two RegisterOperators;  *)
(* dispatcher.rs, handle_transfer and handle_transfer_block).              *)
(*                                                                         *)
(* The target is external: an access port whose reads are posted, so that  *)
(* an access returns the result of the one before it, and whose accesses   *)
(* have side effects (a memory that advances), so that each must happen    *)
(* exactly once.  A step is one register access and the target's answer.   *)
(* The n-th access of a command to the access port has the value n; 0 is   *)
(* anything else: a debug port register, or a result from before.          *)
(***************************************************************************)
EXTENDS Integers, SequencesExt

CONSTANTS
    MaxWaitRetry, MaxMatchRetry,  \* bounds of TransferConfigure
    MaxTransfers,                 \* bound of the transfers in a Transfer
    Counts,                       \* the counts of TransferBlock
    Room,                         \* the words of data and timestamps a response has room for
    Wanted                        \* the values a match accepts

ASSUME ConfigAssumption ==
    /\ MaxWaitRetry \in Nat /\ MaxMatchRetry \in Nat /\ MaxTransfers \in Nat
    /\ Counts \subseteq Nat /\ Room \in Nat \ {0} /\ Wanted \subseteq Nat

Links  == {"none", "SWD", "JTAG"}
Single == {"read", "write", "match"}
Blocks == {"readBlock", "writeBlock"}
Statuses == {"ok", "wait", "fault", "none", "parity", "mismatch"}

VARIABLES
    link,                   \* DebugAccessPort::state, "none" without an operator
    waitRetry, matchRetry,  \* Transfer::wait_retry, match_retry
    aborted,                \* the abort token, which is never cleared
    panicked,               \* an assert!() failed
    \* the command underway
    op, ap, count,          \* the operation, its register, its length
    left, room,             \* of a Transfer: transfers to come, room in the response
    phase,                  \* the access of the operation that is next
    i,                      \* the words that are done
    waits, tries,           \* retries of this access, reads of this match
    \* what it answers
    data, status, answered,
    \* the target
    accesses, latch,        \* accesses of this command, the result in waiting
    sticky,                 \* its error flag: faults until it is cleared
    absent                  \* an access of this command met no target

configVars == <<link, waitRetry, matchRetry, aborted>>
opVars     == <<op, ap, count, left, room, phase, i, tries>>
replyVars  == <<data, status, answered>>
targetVars == <<accesses, latch, sticky, absent>>
vars == <<configVars, panicked, opVars, waits, replyVars, targetVars>>

Init ==
    /\ link = "none" /\ waitRetry = 0 /\ matchRetry = 0
    /\ aborted = FALSE /\ panicked = FALSE
    /\ op = "idle" /\ ap = FALSE /\ count = 0 /\ left = 0 /\ room = 0
    /\ phase = "body" /\ i = 0 /\ waits = 0 /\ tries = 0
    /\ data = <<>> /\ status = "ok" /\ answered = 0
    /\ accesses = 0 /\ latch = 0 /\ sticky = FALSE /\ absent = FALSE

Idle == op = "idle" /\ ~panicked

-----------------------------------------------------------------------------
(* Between commands.  Nothing else runs during one: a handler never awaits. *)

Connect(l) ==
    /\ Idle /\ link' = l
    /\ UNCHANGED <<waitRetry, matchRetry, aborted, panicked, opVars, waits, replyVars,
                   targetVars>>

TransferConfigure(w, m) ==
    /\ Idle /\ waitRetry' = w /\ matchRetry' = m
    /\ UNCHANGED <<link, aborted, panicked, opVars, waits, replyVars, targetVars>>

TransferAbort ==
    /\ Idle /\ aborted' = TRUE
    /\ UNCHANGED <<link, waitRetry, matchRetry, panicked, opVars, waits, replyVars, targetVars>>

\* A new command: what it counts starts over, the target's error flag does not.
Begin ==
    /\ data' = <<>> /\ answered' = 0 /\ status' = "none"
    /\ accesses' = 0 /\ latch' = 0 /\ absent' = FALSE
    /\ i' = 0 /\ waits' = 0 /\ tries' = 0
    /\ UNCHANGED <<configVars, sticky>>

\* The results of reads are posted: always in JTAG, for the access port in SWD.
PostedInJtag(reg) == link = "JTAG"
Posted(reg) == link = "JTAG" \/ reg

-----------------------------------------------------------------------------
(* handle_transfer: one transfer of the command after another. *)

Transfer(n) ==
    /\ Idle
    /\ Begin
    /\ op' = "next" /\ left' = n /\ room' = Room
    /\ UNCHANGED <<panicked, ap, count, phase>>

\* The data of a plain read takes a word of the response, and so does the
\* timestamp of any request that asks for one, whether or not it gets one.
Words(kind, timed) == (IF kind = "read" THEN 1 ELSE 0) + (IF timed THEN 1 ELSE 0)
RoomUnchecked(kind, timed) == TRUE
HasRoom(kind, timed) == Words(kind, timed) <= room

NextTransfer(kind, reg, timed) ==
    /\ op = "next" /\ HasRoom(kind, timed)
    /\ left' = left - 1 /\ room' = room - Words(kind, timed)
    /\ op' = kind /\ ap' = reg
    /\ i' = 0 /\ waits' = 0 /\ tries' = 0
    /\ phase' = IF kind = "write" THEN "body" ELSE "post"
    /\ UNCHANGED <<configVars, panicked, count, replyVars, targetVars>>

NoRoom ==
    /\ op = "next" /\ \E kind \in Single, timed \in BOOLEAN : ~HasRoom(kind, timed)
    /\ op' = "idle"
    /\ UNCHANGED <<configVars, panicked, ap, count, left, room, phase, i, waits, tries, replyVars,
                   targetVars>>

\* The status of the last transfer is the one the response keeps, and an error
\* does not stop the command: an abort does, after the transfer.
Answer(s, more) ==
    /\ status' = s /\ answered' = answered + 1
    /\ op' = IF aborted \/ more = 0 THEN "idle" ELSE "next"

\* A write of the match mask is no access.
MatchMask(timed) ==
    /\ op = "next" /\ HasRoom("write", timed)
    /\ left' = left - 1 /\ room' = room - Words("write", timed) /\ Answer("ok", left - 1)
    /\ UNCHANGED <<configVars, panicked, ap, count, phase, i, waits, tries, data, targetVars>>

\* Without an operator the transfer fails by itself; a read still answers a word.
NoOperator ==
    /\ op \in Single /\ link = "none"
    /\ Answer("none", left)
    /\ data' = IF op = "read" THEN Append(data, 0) ELSE data
    /\ UNCHANGED <<configVars, panicked, ap, count, left, room, phase, i, waits, tries, targetVars>>

\* handle_transfer_block; an operator asserts that the block has a word.
TransferBlock(kind, reg, n) ==
    /\ Idle
    /\ Begin
    /\ ap' = reg /\ count' = n /\ left' = 0 /\ room' = 0
    /\ phase' = IF kind = "readBlock" /\ Posted(reg) THEN "post" ELSE "body"
    /\ op' = IF link = "none" \/ n = 0 THEN "idle" ELSE kind
    /\ panicked' = (link # "none" /\ n = 0)

-----------------------------------------------------------------------------
(* The target's answers (external). *)

Answers == {"ok", "wait", "fault", "none", "parity", "high"}

\* An access that was accepted is done, once; one that was not, is not.  SWD has
\* parity and FAULT, which the error flag forces for all but the debug port; in
\* JTAG, TDO is high where no device drives it.
Access(reg, answer) ==
    \/ /\ answer = "ok" \/ (answer = "parity" /\ link = "SWD")
       /\ sticky => reg = "dp"
       /\ accesses' = IF reg = "ap" THEN accesses + 1 ELSE accesses
       /\ UNCHANGED <<sticky, absent>>
    \/ /\ answer = "fault" /\ link = "SWD"
       /\ sticky' = TRUE
       /\ UNCHANGED <<accesses, absent>>
    \/ /\ answer = "high" /\ link = "JTAG"
       /\ absent' = TRUE
       /\ UNCHANGED <<accesses, sticky>>
    \/ /\ answer \in {"wait", "none"}
       /\ UNCHANGED <<accesses, sticky, absent>>

\* An access port read leaves its result in waiting, and so does any in JTAG.
ReadTarget(reg, answer) ==
    /\ Access(reg, answer)
    /\ latch' = IF answer \notin {"ok", "parity"} THEN latch
                ELSE IF reg = "ap" THEN accesses'
                ELSE IF link = "JTAG" THEN 0 ELSE latch

\* A write can be accepted and fail later, and one of the debug port can be the
\* one that clears the error flag.
WriteTarget(reg, answer) ==
    /\ answer # "parity"
    /\ \/ Access(reg, answer)
       \/ /\ answer = "ok" /\ link = "SWD" /\ ~sticky /\ reg = "ap"
          /\ accesses' = accesses + 1 /\ sticky' = TRUE /\ UNCHANGED absent
       \/ /\ answer = "ok" /\ sticky /\ reg = "dp"
          /\ sticky' = FALSE /\ UNCHANGED <<accesses, absent>>
    /\ latch' = IF answer = "ok" /\ link = "JTAG" THEN 0 ELSE latch

\* What a read returns: the result in waiting, or a debug port register.
Returned(reg, answer) == IF answer = "high" \/ (reg = "dp" /\ link = "SWD") THEN 0 ELSE latch

\* JTAG takes an acknowledge with one of the upper bits for OK, 7 included.
Status(answer) == IF answer = "high" THEN "ok" ELSE answer

-----------------------------------------------------------------------------
(* TransferOperator.  Retry is the loop of write() and of read_inner(). *)

Retries(answer) == answer = "wait" /\ ~aborted /\ waits < waitRetry

Retry ==
    /\ op \in Single \cup Blocks /\ link # "none" /\ Retries("wait")
    /\ waits' = waits + 1
    /\ UNCHANGED <<configVars, panicked, opVars, replyVars, targetVars>>

\* An access of the operation o that is not retried.
Accesses(o, answer) == op = o /\ link # "none" /\ ~Retries(answer)

Register == IF ap THEN "ap" ELSE "dp"

\* The next word of a block: the last of a posted read comes from rdbuff.
LastAsOthers == Register
Word == IF Posted(ap) /\ i + 1 >= count THEN "rdbuff" ELSE Register

\* A single read is of rdbuff when the access before it has posted it.
ReadReg == IF phase = "final" THEN "rdbuff" ELSE Register

\* read() has posted its access.
ReadPosts(answer) ==
    /\ phase = "post" /\ Posted(ap) /\ Status(answer) = "ok"
    /\ ReadTarget(Register, answer)
    /\ phase' = "final" /\ waits' = 0
    /\ UNCHANGED <<configVars, panicked, op, ap, count, left, room, i, tries, replyVars>>

\* read() has its value, or an error instead.
ReadEnds(answer) ==
    /\ phase = "final" \/ ~Posted(ap) \/ Status(answer) # "ok"
    /\ ReadTarget(ReadReg, answer)

Read(answer) ==
    /\ Accesses("read", answer)
    /\ \/ ReadPosts(answer)
       \/ /\ ReadEnds(answer)
          /\ data' = Append(data, Returned(ReadReg, answer))
          /\ Answer(Status(answer), left)
          /\ UNCHANGED <<configVars, panicked, ap, count, left, room, phase, i, waits, tries>>

\* read_match(): with the abort token set, the value is not compared.
MismatchSwapped(answer) == Status(answer) = "ok" /\ aborted /\ Returned(ReadReg, answer) \notin Wanted
Mismatch(answer) == Status(answer) = "ok" /\ ~aborted /\ Returned(ReadReg, answer) \notin Wanted

\* The reads of the match so far.
TriesUncounted == tries
TriesCounted == tries + 1

ReadMatch(answer) ==
    /\ Accesses("match", answer)
    /\ \/ ReadPosts(answer)
       \/ /\ ReadEnds(answer)
          /\ Mismatch(answer) /\ tries < matchRetry
          /\ tries' = TriesCounted /\ phase' = "post" /\ waits' = 0
          /\ UNCHANGED <<configVars, panicked, op, ap, count, left, room, i, replyVars>>
       \/ /\ ReadEnds(answer)
          /\ ~(Mismatch(answer) /\ tries < matchRetry)
          /\ Answer(IF Mismatch(answer) THEN "mismatch" ELSE Status(answer), left)
          /\ UNCHANGED <<configVars, panicked, ap, count, left, room, phase, i, waits, tries, data>>

Write(answer) ==
    /\ Accesses("write", answer)
    /\ WriteTarget(Register, answer)
    /\ Answer(Status(answer), left)
    /\ UNCHANGED <<configVars, panicked, ap, count, left, room, phase, i, waits, tries, data>>

BlockEnds(s, words) == op' = "idle" /\ status' = s /\ answered' = words

\* read_block(): the access that posts the first word; an error ends the block.
BlockPost(answer) ==
    /\ Accesses("readBlock", answer) /\ phase = "post"
    /\ ReadTarget(Register, answer)
    /\ phase' = "body" /\ waits' = 0
    /\ IF Status(answer) = "ok" THEN UNCHANGED <<op, status, answered>>
       ELSE BlockEnds(Status(answer), 0)
    /\ UNCHANGED <<configVars, panicked, ap, count, left, room, i, tries, data>>

\* One word of it.  A word that failed is counted, not stored.
BlockRead(answer) ==
    /\ Accesses("readBlock", answer) /\ phase = "body"
    /\ ReadTarget(Word, answer)
    /\ i' = i + 1 /\ waits' = 0
    /\ data' = IF Status(answer) = "ok" THEN Append(data, Returned(Word, answer)) ELSE data
    /\ IF Status(answer) = "ok" /\ i + 1 < count THEN UNCHANGED <<op, status, answered>>
       ELSE BlockEnds(Status(answer), i + 1)
    /\ UNCHANGED <<configVars, panicked, ap, count, left, room, phase, tries>>

\* write_block(): one word of it.
BlockWrite(answer) ==
    /\ Accesses("writeBlock", answer) /\ phase = "body"
    /\ WriteTarget(Register, answer)
    /\ i' = i + 1 /\ waits' = 0
    /\ phase' = IF i + 1 = count THEN "final" ELSE "body"
    /\ IF Status(answer) = "ok" THEN UNCHANGED <<op, status, answered>>
       ELSE BlockEnds(Status(answer), i + 1)
    /\ UNCHANGED <<configVars, panicked, ap, count, left, room, tries, data>>

\* The status of the block is that of the read of rdbuff after it.
BlockUnread(answer) ==
    /\ Accesses("writeBlock", answer) /\ phase = "final"
    /\ BlockEnds("ok", count)
    /\ UNCHANGED <<configVars, panicked, ap, count, left, room, phase, i, waits, tries, data,
                   targetVars>>

BlockWritten(answer) ==
    /\ Accesses("writeBlock", answer) /\ phase = "final"
    /\ ReadTarget("rdbuff", answer)
    /\ BlockEnds(Status(answer), count)
    /\ UNCHANGED <<configVars, panicked, ap, count, left, room, phase, i, waits, tries, data>>

-----------------------------------------------------------------------------
Commands ==
    \/ \E l \in Links : Connect(l)
    \/ \E w \in 0..MaxWaitRetry, m \in 0..MaxMatchRetry : TransferConfigure(w, m)
    \/ TransferAbort
    \/ \E n \in 1..MaxTransfers : Transfer(n)
    \/ \E kind \in Blocks, reg \in BOOLEAN, n \in Counts : TransferBlock(kind, reg, n)

\* The rest of the command, which the processor runs to its end.
Handle ==
    \/ \E kind \in Single, reg \in BOOLEAN, timed \in BOOLEAN : NextTransfer(kind, reg, timed)
    \/ \E timed \in BOOLEAN : MatchMask(timed)
    \/ NoRoom \/ NoOperator \/ Retry
    \/ \E answer \in Answers :
          \/ Read(answer) \/ ReadMatch(answer) \/ Write(answer)
          \/ BlockPost(answer) \/ BlockRead(answer)
          \/ BlockWrite(answer) \/ BlockWritten(answer)

Next == Commands \/ Handle

Spec == Init /\ [][Next]_vars /\ WF_vars(Handle)

-----------------------------------------------------------------------------
(* Properties. *)

\* The variables keep their types; a response never runs out of the room it has.
TypeOK ==
    /\ link \in Links /\ waitRetry \in 0..MaxWaitRetry /\ matchRetry \in 0..MaxMatchRetry
    /\ aborted \in BOOLEAN /\ panicked \in BOOLEAN
    /\ op \in {"idle", "next"} \cup Single \cup Blocks /\ ap \in BOOLEAN
    /\ count \in Counts \cup {0} /\ left \in 0..MaxTransfers /\ room \in 0..Room
    /\ phase \in {"post", "body", "final"} /\ i \in 0..count /\ waits \in 0..MaxWaitRetry
    /\ tries \in 0..MaxMatchRetry
    /\ data \in Seq(Nat) /\ status \in Statuses /\ answered \in Nat
    /\ accesses \in Nat /\ latch \in Nat /\ sticky \in BOOLEAN /\ absent \in BOOLEAN

Ends(o) == op = o /\ op' # o

\* A block read of the access port answers its words in the order of the accesses
\* that produced them, from the first, whatever was retried; when it succeeds it has
\* made exactly as many accesses as it answers words, so that none is lost in the
\* target (read_block's posted first access and its last word from rdbuff).
BlockReadsInOrder ==
    [][Ends("readBlock") /\ ap /\ ~absent' =>
          /\ \A k \in DOMAIN data' : data'[k] = k
          /\ accesses' <= count
          /\ status' = "ok" => Len(data') = count /\ accesses' = count]_vars

\* A block write that reports success has made each of its writes once, and none of
\* them has failed after it was accepted (write_block's read of rdbuff).
BlockWritesAll ==
    [][Ends("writeBlock") /\ status' = "ok" /\ ~absent' =>
          /\ ap => accesses' = count
          /\ ~sticky']_vars

\* A read of the access port that succeeds returns the result of its own access,
\* not of the one before (the read of rdbuff in read()).
ReadsOwn ==
    [][Ends("read") /\ ap /\ status' = "ok" /\ ~absent' => Last(data') = accesses']_vars

\* A match of an access port register is reported only when the last value it
\* returned is one of those wanted, and a mismatch only after every retry and
\* with a last value that is not; an abort makes the value count for nothing.
MatchIsReal ==
    [][Ends("match") /\ ap /\ ~aborted /\ ~absent' =>
          /\ status' = "ok" => accesses' \in Wanted
          /\ status' = "mismatch" => accesses' \notin Wanted /\ tries' = matchRetry]_vars

\* Every command ends, whatever the target answers: the retries on WAIT and on a
\* mismatch are bounded (the loops of write, read_inner and read_match).
CommandEnds == op # "idle" ~> op = "idle"

\* The assertion of read_block and of write_block: a block has at least a word.
BlockHasWords == ~panicked
=============================================================================

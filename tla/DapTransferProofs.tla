-------------------------- MODULE DapTransferProofs --------------------------
(***************************************************************************)
(* Theorems about DapTransfer, for every length of a block, every number   *)
(* of retries and every answer of the target.                              *)
(*                                                                         *)
(* What a command answers is right when it ends because of what is true    *)
(* between two of its accesses: how many it has made, which result waits   *)
(* in the target, and which words are answered (Posts).                    *)
(***************************************************************************)
EXTENDS DapTransfer, SequenceTheorems, TLAPS

\* How far the command underway is.
Progress ==
    /\ op = "next" => left > 0
    /\ op = "readBlock" => i < count /\ phase \in {"post", "body"}
    /\ op = "writeBlock" => \/ phase = "body" /\ i < count
                            \/ phase = "final" /\ i = count
    /\ op = "match" => tries <= matchRetry

\* What an access port command has done: a posted read leaves its result in
\* waiting, a block read has posted the word after those it has, and a block
\* write has written the words it has done.
Posts ==
    ap /\ ~absent =>
        /\ op \in {"read", "match"} /\ phase = "final" => latch = accesses
        /\ op = "readBlock" =>
              /\ i = Len(data) /\ \A k \in 1..Len(data) : data[k] = k
              /\ phase = "post" => i = 0 /\ accesses = 0
              /\ phase = "body" => accesses = i + 1 /\ latch = accesses
        /\ op = "writeBlock" => accesses = i

IInv == TypeOK /\ Progress /\ Posts

-----------------------------------------------------------------------------
(* The pieces the actions are made of. *)

LEMMA ConfigFacts ==
    /\ MaxWaitRetry \in Nat /\ MaxMatchRetry \in Nat /\ MaxTransfers \in Nat /\ Room \in Nat
    /\ Counts \subseteq Nat
BY ConfigAssumption

LEMMA CountFacts ==
    ASSUME TypeOK
    PROVE  count \in Nat /\ i \in Nat /\ i <= count
<1>1. count \in Counts \/ count = 0
  BY DEF TypeOK
<1>2. count \in Nat
  <2>1. 0 \in Nat
    OBVIOUS
  <2> QED
    BY <1>1, <2>1, ConfigFacts, Zenon
<1>3. i \in 0..count
  BY DEF TypeOK
<1> QED
  BY <1>2, <1>3

LEMMA StatusFacts ==
    ASSUME NEW answer \in Answers
    PROVE  Status(answer) \in Statuses
BY DEF Answers, Statuses, Status

LEMMA AccessFacts ==
    ASSUME TypeOK, NEW reg, NEW answer \in Answers, Access(reg, answer)
    PROVE  /\ accesses' = accesses \/ (reg = "ap" /\ accesses' = accesses + 1)
           /\ sticky' \in BOOLEAN /\ absent' \in BOOLEAN
           /\ ~absent' => ~absent /\ answer # "high"
           /\ answer = "ok" /\ reg = "ap" => accesses' = accesses + 1
           /\ answer = "ok" /\ reg # "dp" => ~sticky'
<1>1. sticky \in BOOLEAN /\ absent \in BOOLEAN
  BY DEF TypeOK
<1>2. CASE /\ answer = "ok" \/ (answer = "parity" /\ link = "SWD")
           /\ sticky => reg = "dp"
           /\ accesses' = IF reg = "ap" THEN accesses + 1 ELSE accesses
           /\ UNCHANGED <<sticky, absent>>
  BY <1>1, <1>2, Zenon
<1>3. CASE answer = "fault" /\ sticky' = TRUE /\ UNCHANGED <<accesses, absent>>
  BY <1>1, <1>3, Zenon
<1>4. CASE answer = "high" /\ absent' = TRUE /\ UNCHANGED <<accesses, sticky>>
  BY <1>1, <1>4, Zenon
<1>5. CASE answer \in {"wait", "none"} /\ UNCHANGED <<accesses, sticky, absent>>
  <2>1. answer # "ok" /\ answer # "high"
    BY <1>5
  <2> QED
    BY <1>1, <1>5, <2>1, Zenon
<1> QED
  BY <1>2, <1>3, <1>4, <1>5 DEF Access

\* The target does an access that was accepted once, and posts its result.
LEMMA ReadTargetFacts ==
    ASSUME TypeOK, NEW reg \in {"ap", "dp", "rdbuff"}, NEW answer \in Answers,
           ReadTarget(reg, answer)
    PROVE  /\ accesses' \in Nat /\ latch' \in Nat /\ sticky' \in BOOLEAN /\ absent' \in BOOLEAN
           /\ Returned(reg, answer) \in Nat
           /\ ~absent' => /\ ~absent
                          /\ Status(answer) = "ok" => answer = "ok"
                          /\ reg # "dp" => Returned(reg, answer) = latch
           /\ reg # "ap" => accesses' = accesses
           /\ accesses' <= accesses + 1
           /\ answer = "ok" /\ reg = "ap" => accesses' = accesses + 1 /\ latch' = accesses'
           /\ answer = "ok" /\ reg # "dp" => ~sticky'
<1>1. accesses \in Nat /\ latch \in Nat /\ sticky \in BOOLEAN /\ absent \in BOOLEAN
  BY DEF TypeOK
<1>2. /\ accesses' = accesses \/ (reg = "ap" /\ accesses' = accesses + 1)
      /\ sticky' \in BOOLEAN /\ absent' \in BOOLEAN
      /\ ~absent' => ~absent /\ answer # "high"
      /\ answer = "ok" /\ reg = "ap" => accesses' = accesses + 1
      /\ answer = "ok" /\ reg # "dp" => ~sticky'
  BY AccessFacts DEF ReadTarget
<1>3. accesses' \in Nat /\ accesses' <= accesses + 1
  BY <1>1, <1>2
<1>4. latch' \in Nat /\ (answer = "ok" /\ reg = "ap" => latch' = accesses')
  BY <1>1, <1>3 DEF ReadTarget
<1>5. Returned(reg, answer) \in Nat
  BY <1>1 DEF Returned
<1>6. ~absent' => /\ Status(answer) = "ok" => answer = "ok"
                  /\ reg # "dp" => Returned(reg, answer) = latch
  BY <1>2 DEF Status, Returned
<1> QED
  BY <1>2, <1>3, <1>4, <1>5, <1>6

LEMMA WriteTargetFacts ==
    ASSUME TypeOK, NEW reg \in {"ap", "dp"}, NEW answer \in Answers, WriteTarget(reg, answer)
    PROVE  /\ accesses' \in Nat /\ latch' \in Nat /\ sticky' \in BOOLEAN /\ absent' \in BOOLEAN
           /\ ~absent' => ~absent /\ (Status(answer) = "ok" => answer = "ok")
           /\ answer = "ok" /\ reg = "ap" => accesses' = accesses + 1
<1>1. accesses \in Nat /\ latch \in Nat /\ sticky \in BOOLEAN /\ absent \in BOOLEAN
  BY DEF TypeOK
<1>2. /\ accesses' = accesses \/ accesses' = accesses + 1
      /\ sticky' \in BOOLEAN /\ absent' \in BOOLEAN
      /\ ~absent' => ~absent /\ answer # "high"
      /\ answer = "ok" /\ reg = "ap" => accesses' = accesses + 1
  <2>1. CASE Access(reg, answer)
    BY <2>1, AccessFacts
  <2>2. CASE /\ answer = "ok" /\ link = "SWD" /\ ~sticky /\ reg = "ap"
             /\ accesses' = accesses + 1 /\ sticky' = TRUE /\ UNCHANGED absent
    BY <1>1, <2>2, Zenon
  <2>3. CASE /\ answer = "ok" /\ sticky /\ reg = "dp"
             /\ sticky' = FALSE /\ UNCHANGED <<accesses, absent>>
    <3>1. reg # "ap" /\ answer # "high"
      BY <2>3
    <3> QED
      BY <1>1, <2>3, <3>1, Zenon
  <2> QED
    BY <2>1, <2>2, <2>3 DEF WriteTarget
<1>3. accesses' \in Nat
  BY <1>1, <1>2
<1>4. latch' \in Nat
  BY <1>1 DEF WriteTarget
<1>5. ~absent' => (Status(answer) = "ok" => answer = "ok")
  BY <1>2 DEF Status
<1> QED
  BY <1>2, <1>3, <1>4, <1>5

LEMMA AnswerFacts ==
    ASSUME TypeOK, NEW s \in Statuses, NEW more \in Nat, Answer(s, more)
    PROVE  /\ status' \in Statuses /\ answered' \in Nat /\ op' \in {"idle", "next"}
           /\ op' = "next" => more > 0
BY DEF Answer, TypeOK

LEMMA RegisterFacts ==
    ASSUME TypeOK
    PROVE  /\ Register \in {"ap", "dp"} /\ ReadReg \in {"ap", "dp", "rdbuff"}
           /\ Word \in {"ap", "dp", "rdbuff"}
           /\ ap => Posted(ap) /\ Register = "ap"
           /\ phase = "final" => ReadReg = "rdbuff"
           /\ ap /\ i + 1 < count => Word = "ap"
           /\ ap /\ ~(i + 1 < count) => Word = "rdbuff"
<1>1. i + 1 >= count <=> ~(i + 1 < count)
  BY CountFacts
<1> QED
  BY <1>1 DEF Register, ReadReg, Word, Posted, TypeOK

-----------------------------------------------------------------------------
(* The invariant holds: commands, transfers, then accesses. *)

LEMMA InitInvariant == Init => IInv
<1> SUFFICES ASSUME Init PROVE IInv
  OBVIOUS
<1>1. /\ 0 \in 0..MaxWaitRetry /\ 0 \in 0..MaxMatchRetry /\ 0 \in 0..MaxTransfers /\ 0 \in 0..Room
      /\ 0 \in 0..0 /\ 0 \in Nat
  BY ConfigFacts
<1>2. <<>> \in Seq(Nat)
  BY EmptySeq
<1>3. TypeOK
  BY <1>1, <1>2, Zenon DEF Init, TypeOK, Links, Statuses
<1> QED
  BY <1>3 DEF Init, IInv, Progress, Posts

\* Between commands nothing is underway.
LEMMA IdleKeeps ==
    ASSUME op' = "idle"
    PROVE  Progress' /\ Posts'
BY DEF Progress, Posts

LEMMA SettingsKeep ==
    ASSUME IInv,
           \/ \E l \in Links : Connect(l)
           \/ \E w \in 0..MaxWaitRetry, m \in 0..MaxMatchRetry : TransferConfigure(w, m)
           \/ TransferAbort
    PROVE  IInv'
<1>1. /\ link' \in Links /\ waitRetry' \in 0..MaxWaitRetry /\ matchRetry' \in 0..MaxMatchRetry
      /\ aborted' \in BOOLEAN /\ op = "idle"
      /\ UNCHANGED <<panicked, opVars, waits, replyVars, targetVars>>
  BY Zenon DEF IInv, TypeOK, Connect, TransferConfigure, TransferAbort, Idle
<1>2. TypeOK'
  BY <1>1, Zenon DEF IInv, TypeOK, opVars, replyVars, targetVars
<1>3. op' = "idle"
  BY <1>1 DEF opVars
<1> QED
  BY <1>2, <1>3, IdleKeeps DEF IInv

LEMMA BeginFacts ==
    ASSUME TypeOK, Begin
    PROVE  /\ link' \in Links /\ waitRetry' \in 0..MaxWaitRetry /\ matchRetry' \in 0..MaxMatchRetry
           /\ aborted' \in BOOLEAN
           /\ waits' \in 0..MaxWaitRetry /\ tries' \in 0..MaxMatchRetry
           /\ data' \in Seq(Nat) /\ Len(data') = 0 /\ status' \in Statuses /\ answered' \in Nat
           /\ accesses' \in Nat /\ latch' \in Nat /\ sticky' \in BOOLEAN /\ absent' \in BOOLEAN
<1>1. 0 \in 0..MaxWaitRetry /\ 0 \in 0..MaxMatchRetry /\ 0 \in Nat
  BY ConfigFacts
<1>2. <<>> \in Seq(Nat) /\ Len(<<>>) = 0
  BY EmptySeq
<1> QED
  BY <1>1, <1>2, Zenon DEF Begin, TypeOK, configVars, Statuses

LEMMA TransferKeeps ==
    ASSUME IInv, NEW n \in 1..MaxTransfers, Transfer(n)
    PROVE  IInv'
<1>1. Begin /\ op' = "next" /\ left' = n /\ room' = Room /\ UNCHANGED <<panicked, ap, count, phase>>
  BY DEF Transfer
<1>2. n \in 0..MaxTransfers /\ n > 0 /\ Room \in 0..Room /\ 0 \in 0..count
  BY ConfigFacts, CountFacts DEF IInv
<1>3. TypeOK'
  <2>1. i' = 0
    BY <1>1 DEF Begin
  <2> QED
    BY <1>1, <1>2, <2>1, BeginFacts, Zenon DEF IInv, TypeOK
<1> QED
  BY <1>1, <1>2, <1>3 DEF IInv, Progress, Posts

LEMMA TransferBlockKeeps ==
    ASSUME IInv, NEW kind \in Blocks, NEW reg \in BOOLEAN, NEW n \in Counts,
           TransferBlock(kind, reg, n)
    PROVE  IInv'
<1>1. /\ Begin /\ ap' = reg /\ count' = n /\ left' = 0 /\ room' = 0
      /\ phase' = IF kind = "readBlock" /\ Posted(reg) THEN "post" ELSE "body"
      /\ op' = IF link = "none" \/ n = 0 THEN "idle" ELSE kind
      /\ panicked' = (link # "none" /\ n = 0)
  BY DEF TransferBlock
<1>2. n \in Nat
  BY ConfigFacts, Zenon
<1>3. 0 \in 0..MaxTransfers /\ 0 \in 0..Room /\ 0 \in 0..n
  BY <1>2, ConfigFacts
<1>4. i' = 0 /\ accesses' = 0 /\ data' = <<>> /\ Len(data') = 0 /\ absent' = FALSE
  BY <1>1, BeginFacts DEF IInv, Begin
<1>5. TypeOK'
  <2>1. op' \in {"idle", "next"} \cup Single \cup Blocks /\ phase' \in {"post", "body", "final"}
    BY <1>1
  <2>2. panicked' \in BOOLEAN /\ count' \in Counts \cup {0}
    BY <1>1
  <2> QED
    BY <1>1, <1>3, <1>4, <2>1, <2>2, BeginFacts, Zenon DEF IInv, TypeOK
<1>6. op' \in Blocks => n > 0 /\ op' = kind
  BY <1>1, <1>2 DEF Blocks
<1>7. Progress'
  <2>1. op' # "next" /\ op' # "match"
    BY <1>1 DEF Blocks
  <2>2. op' = "readBlock" => 0 < n /\ phase' \in {"post", "body"}
    BY <1>1, <1>2, <1>6 DEF Blocks
  <2>3. op' = "writeBlock" => 0 < n /\ phase' = "body"
    BY <1>1, <1>2, <1>6 DEF Blocks
  <2> QED
    BY <1>1, <1>4, <2>1, <2>2, <2>3, Zenon DEF Progress
<1>8. Posts'
  <2>1. ap' => (op' = "readBlock" => phase' = "post")
    <3>1. reg => Posted(reg)
      BY DEF Posted
    <3> QED
      BY <1>1, <1>6, <3>1 DEF Blocks
  <2>2. op' # "read" /\ op' # "match"
    BY <1>1 DEF Blocks
  <2> QED
    BY <1>4, <2>1, <2>2 DEF Posts
<1> QED
  BY <1>5, <1>7, <1>8 DEF IInv

\* A transfer there is room for takes what it needs of it.
LEMMA RoomFacts ==
    ASSUME TypeOK, NEW kind, NEW timed \in BOOLEAN, HasRoom(kind, timed)
    PROVE  room - Words(kind, timed) \in 0..Room
<1>1. room \in 0..Room
  BY DEF TypeOK
<1>2. Words(kind, timed) \in 0..2 /\ Words(kind, timed) <= room
  BY DEF Words, HasRoom
<1> QED
  BY <1>1, <1>2, ConfigFacts

LEMMA NextTransferKeeps ==
    ASSUME IInv, NEW kind \in Single, NEW reg \in BOOLEAN, NEW timed \in BOOLEAN,
           NextTransfer(kind, reg, timed)
    PROVE  IInv'
<1>1. /\ op = "next" /\ op' = kind /\ ap' = reg /\ left' = left - 1
      /\ HasRoom(kind, timed) /\ room' = room - Words(kind, timed)
      /\ i' = 0 /\ waits' = 0 /\ tries' = 0
      /\ phase' = IF kind = "write" THEN "body" ELSE "post"
      /\ UNCHANGED <<link, waitRetry, matchRetry, aborted, panicked, count, data, status, answered,
                     accesses, latch, sticky, absent>>
  BY DEF NextTransfer, configVars, replyVars, targetVars
<1>2. left' \in 0..MaxTransfers
  <2>1. left \in 0..MaxTransfers /\ left > 0
    BY <1>1 DEF IInv, TypeOK, Progress
  <2> QED
    BY <1>1, <2>1, ConfigFacts
<1>3. room' \in 0..Room
  BY <1>1, RoomFacts DEF IInv
<1>4. 0 \in 0..MaxWaitRetry /\ 0 \in 0..MaxMatchRetry /\ 0 \in 0..count
  BY ConfigFacts, CountFacts DEF IInv
<1>5. phase' \in {"post", "body", "final"} /\ op' \in {"idle", "next"} \cup Single \cup Blocks
  BY <1>1
<1>6. TypeOK'
  BY <1>1, <1>2, <1>3, <1>4, <1>5, Zenon DEF IInv, TypeOK
<1>7. Progress' /\ Posts'
  <2>1. op' # "next" /\ op' # "readBlock" /\ op' # "writeBlock" /\ phase' # "final"
    BY <1>1 DEF Single
  <2>2. 0 <= matchRetry
    BY DEF IInv, TypeOK
  <2> QED
    BY <1>1, <2>1, <2>2 DEF Progress, Posts
<1> QED
  BY <1>6, <1>7 DEF IInv

LEMMA NoRoomKeeps ==
    ASSUME IInv, NoRoom
    PROVE  IInv'
<1>1. /\ op' = "idle"
      /\ UNCHANGED <<link, waitRetry, matchRetry, aborted, panicked, ap, count, left, room, phase,
                     i, waits, tries, data, status, answered, accesses, latch, sticky, absent>>
  BY DEF NoRoom, configVars, replyVars, targetVars
<1>2. TypeOK'
  BY <1>1 DEF IInv, TypeOK
<1> QED
  BY <1>1, <1>2, IdleKeeps DEF IInv

\* A transfer is answered: the next one, if any, begins anew.
LEMMA AnsweredKeeps ==
    ASSUME IInv, op' \in {"idle", "next"}, op' = "next" => left' > 0,
           status' \in Statuses, answered' \in Nat, data' \in Seq(Nat), left' \in 0..MaxTransfers,
           room' \in 0..Room,
           accesses' \in Nat, latch' \in Nat, sticky' \in BOOLEAN, absent' \in BOOLEAN,
           UNCHANGED <<link, waitRetry, matchRetry, aborted, panicked, ap, count, phase, i,
                       waits, tries>>
    PROVE  IInv'
<1>1. TypeOK'
  <2>1. op' \in {"idle", "next"} \cup Single \cup Blocks
    OBVIOUS
  <2> QED
    BY <2>1, Zenon DEF IInv, TypeOK
<1> QED
  BY <1>1 DEF IInv, Progress, Posts

LEMMA MatchMaskKeeps ==
    ASSUME IInv, NEW timed \in BOOLEAN, MatchMask(timed)
    PROVE  IInv'
<1>1. /\ op = "next" /\ left' = left - 1 /\ Answer("ok", left - 1)
      /\ HasRoom("write", timed) /\ room' = room - Words("write", timed)
      /\ UNCHANGED <<link, waitRetry, matchRetry, aborted, panicked, ap, count, phase, i,
                     waits, tries, data, accesses, latch, sticky, absent>>
  BY DEF MatchMask, configVars, targetVars
<1>2. left - 1 \in 0..MaxTransfers
  <2>1. left \in 0..MaxTransfers /\ left > 0
    BY <1>1 DEF IInv, TypeOK, Progress
  <2> QED
    BY <2>1, ConfigFacts
<1>3. "ok" \in Statuses
  BY DEF Statuses
<1>4. /\ status' \in Statuses /\ answered' \in Nat /\ op' \in {"idle", "next"}
      /\ op' = "next" => left - 1 > 0
  <2>1. left - 1 \in Nat
    BY <1>2, ConfigFacts
  <2> QED
    BY <1>1, <1>3, <2>1, AnswerFacts DEF IInv
<1>5. /\ data' \in Seq(Nat) /\ accesses' \in Nat /\ latch' \in Nat /\ sticky' \in BOOLEAN
      /\ absent' \in BOOLEAN
  BY <1>1, Zenon DEF IInv, TypeOK
<1>6. room' \in 0..Room
  BY <1>1, RoomFacts DEF IInv
<1> QED
  BY <1>1, <1>2, <1>4, <1>5, <1>6, AnsweredKeeps

LEMMA AppendFacts ==
    ASSUME TypeOK, NEW x \in Nat
    PROVE  /\ Append(data, x) \in Seq(Nat) /\ Len(data) \in Nat
           /\ Len(Append(data, x)) = Len(data) + 1
           /\ \A k \in 1..Len(data) : Append(data, x)[k] = data[k]
           /\ Append(data, x)[Len(data) + 1] = x
BY AppendProperties, LenProperties DEF TypeOK

LEMMA NoOperatorKeeps ==
    ASSUME IInv, NoOperator
    PROVE  IInv'
<1>1. /\ Answer("none", left) /\ data' \in {data, Append(data, 0)}
      /\ UNCHANGED <<link, waitRetry, matchRetry, aborted, panicked, ap, count, left, room, phase,
                     i, waits, tries, accesses, latch, sticky, absent>>
  BY DEF NoOperator, configVars, targetVars
<1>2. "none" \in Statuses /\ left \in 0..MaxTransfers /\ room \in 0..Room
  BY DEF Statuses, IInv, TypeOK
<1>3. /\ status' \in Statuses /\ answered' \in Nat /\ op' \in {"idle", "next"}
      /\ op' = "next" => left > 0
  <2>1. left \in Nat
    BY <1>2, ConfigFacts
  <2> QED
    BY <1>1, <1>2, <2>1, AnswerFacts DEF IInv
<1>4. data' \in Seq(Nat)
  BY <1>1, AppendFacts DEF IInv, TypeOK
<1>5. accesses' \in Nat /\ latch' \in Nat /\ sticky' \in BOOLEAN /\ absent' \in BOOLEAN
  BY <1>1, Zenon DEF IInv, TypeOK
<1> QED
  BY <1>1, <1>2, <1>3, <1>4, <1>5, AnsweredKeeps

LEMMA RetryKeeps ==
    ASSUME IInv, Retry
    PROVE  IInv'
<1>1. /\ waits' = waits + 1 /\ waits < waitRetry
      /\ UNCHANGED <<link, waitRetry, matchRetry, aborted, panicked, op, ap, count, left, room,
                     phase, i, tries, data, status, answered, accesses, latch, sticky, absent>>
  BY DEF Retry, Retries, configVars, opVars, replyVars, targetVars
<1>2. waits' \in 0..MaxWaitRetry
  <2>1. waits \in 0..MaxWaitRetry /\ waitRetry \in 0..MaxWaitRetry
    BY DEF IInv, TypeOK
  <2> QED
    BY <1>1, <2>1, ConfigFacts
<1>3. TypeOK'
  BY <1>1, <1>2, Zenon DEF IInv, TypeOK
<1> QED
  BY <1>1, <1>3 DEF IInv, Progress, Posts

\* A read has posted its access: its own result is in waiting.
LEMMA ReadPostsKeeps ==
    ASSUME IInv, op \in {"read", "match"}, NEW answer \in Answers, ReadPosts(answer)
    PROVE  IInv' /\ op' = op
<1>1. /\ ReadTarget(Register, answer) /\ Status(answer) = "ok"
      /\ phase' = "final" /\ waits' = 0
      /\ UNCHANGED <<link, waitRetry, matchRetry, aborted, panicked, op, ap, count, left, room, i,
                     tries, data, status, answered>>
  BY DEF ReadPosts, configVars, replyVars
<1>2. /\ accesses' \in Nat /\ latch' \in Nat /\ sticky' \in BOOLEAN /\ absent' \in BOOLEAN
      /\ ~absent' => answer = "ok"
      /\ answer = "ok" /\ ap => latch' = accesses'
  BY <1>1, ReadTargetFacts, RegisterFacts DEF IInv
<1>3. 0 \in 0..MaxWaitRetry
  BY ConfigFacts
<1>4. TypeOK'
  BY <1>1, <1>2, <1>3, Zenon DEF IInv, TypeOK
<1>5. Progress'
  BY <1>1 DEF IInv, Progress
<1>6. Posts'
  BY <1>1, <1>2 DEF Posts
<1> QED
  BY <1>1, <1>4, <1>5, <1>6 DEF IInv

LEMMA ReadKeeps ==
    ASSUME IInv, NEW answer \in Answers, Read(answer)
    PROVE  IInv'
<1>1. op = "read"
  BY DEF Read, Accesses
<1>2. CASE ReadPosts(answer)
  BY <1>1, <1>2, ReadPostsKeeps
<1>3. CASE /\ ReadEnds(answer)
           /\ data' = Append(data, Returned(ReadReg, answer))
           /\ Answer(Status(answer), left)
           /\ UNCHANGED <<configVars, panicked, ap, count, left, room, phase, i, waits, tries>>
  <2>1. ReadTarget(ReadReg, answer)
    BY <1>3 DEF ReadEnds
  <2>2. /\ accesses' \in Nat /\ latch' \in Nat /\ sticky' \in BOOLEAN /\ absent' \in BOOLEAN
        /\ Returned(ReadReg, answer) \in Nat
    BY <2>1, ReadTargetFacts, RegisterFacts DEF IInv
  <2>3. data' \in Seq(Nat)
    BY <1>3, <2>2, AppendFacts DEF IInv
  <2>4. left \in 0..MaxTransfers /\ left \in Nat /\ room \in 0..Room
    BY ConfigFacts DEF IInv, TypeOK
  <2>5. /\ status' \in Statuses /\ answered' \in Nat /\ op' \in {"idle", "next"}
        /\ op' = "next" => left > 0
    BY <1>3, <2>4, AnswerFacts, StatusFacts DEF IInv
  <2> QED
    BY <1>3, <2>2, <2>3, <2>4, <2>5, AnsweredKeeps DEF configVars
<1> QED
  BY <1>2, <1>3 DEF Read

LEMMA ReadMatchKeeps ==
    ASSUME IInv, NEW answer \in Answers, ReadMatch(answer)
    PROVE  IInv'
<1>1. op = "match"
  BY DEF ReadMatch, Accesses
<1>2. CASE ReadPosts(answer)
  BY <1>1, <1>2, ReadPostsKeeps
<1> SUFFICES ASSUME ReadEnds(answer) PROVE IInv'
  BY <1>2 DEF ReadMatch
<1>3. ReadTarget(ReadReg, answer)
  BY DEF ReadEnds
<1>4. accesses' \in Nat /\ latch' \in Nat /\ sticky' \in BOOLEAN /\ absent' \in BOOLEAN
  BY <1>3, ReadTargetFacts, RegisterFacts DEF IInv
<1>5. CASE /\ tries < matchRetry /\ tries' = TriesCounted /\ phase' = "post" /\ waits' = 0
           /\ UNCHANGED <<configVars, panicked, op, ap, count, left, room, i, replyVars>>
  <2>1. UNCHANGED <<link, waitRetry, matchRetry, aborted, data, status, answered>>
    BY <1>5 DEF configVars, replyVars
  <2>2. tries' \in 0..MaxMatchRetry /\ tries' <= matchRetry /\ 0 \in 0..MaxWaitRetry
    <3>1. tries \in 0..MaxMatchRetry /\ matchRetry \in 0..MaxMatchRetry
      BY DEF IInv, TypeOK
    <3> QED
      BY <1>5, <3>1, ConfigFacts DEF TriesCounted
  <2>3. TypeOK'
    BY <1>4, <1>5, <2>1, <2>2, Zenon DEF IInv, TypeOK
  <2>4. Progress' /\ Posts'
    BY <1>1, <1>5, <2>1, <2>2 DEF Progress, Posts
  <2> QED
    BY <2>3, <2>4 DEF IInv
<1>6. CASE /\ Answer(IF Mismatch(answer) THEN "mismatch" ELSE Status(answer), left)
           /\ UNCHANGED <<configVars, panicked, ap, count, left, room, phase, i, waits, tries, data>>
  <2>1. left \in 0..MaxTransfers /\ left \in Nat /\ room \in 0..Room
    BY ConfigFacts DEF IInv, TypeOK
  <2>2. (IF Mismatch(answer) THEN "mismatch" ELSE Status(answer)) \in Statuses
    BY StatusFacts DEF Statuses
  <2>3. /\ status' \in Statuses /\ answered' \in Nat /\ op' \in {"idle", "next"}
        /\ op' = "next" => left > 0
    BY <1>6, <2>1, <2>2, AnswerFacts DEF IInv
  <2>4. data' \in Seq(Nat)
    BY <1>6 DEF IInv, TypeOK
  <2> QED
    BY <1>4, <1>6, <2>1, <2>3, <2>4, AnsweredKeeps DEF configVars
<1> QED
  BY <1>2, <1>5, <1>6 DEF ReadMatch

LEMMA WriteKeeps ==
    ASSUME IInv, NEW answer \in Answers, Write(answer)
    PROVE  IInv'
<1>1. /\ WriteTarget(Register, answer) /\ Answer(Status(answer), left)
      /\ UNCHANGED <<link, waitRetry, matchRetry, aborted, panicked, ap, count, left, room, phase, i,
                     waits, tries, data>>
  BY DEF Write, configVars
<1>2. accesses' \in Nat /\ latch' \in Nat /\ sticky' \in BOOLEAN /\ absent' \in BOOLEAN
  BY <1>1, WriteTargetFacts, RegisterFacts DEF IInv
<1>3. left \in 0..MaxTransfers /\ left \in Nat /\ room \in 0..Room
  BY ConfigFacts DEF IInv, TypeOK
<1>4. /\ status' \in Statuses /\ answered' \in Nat /\ op' \in {"idle", "next"}
      /\ op' = "next" => left > 0
  BY <1>1, <1>3, AnswerFacts, StatusFacts DEF IInv
<1>5. data' \in Seq(Nat)
  BY <1>1 DEF IInv, TypeOK
<1> QED
  BY <1>1, <1>2, <1>3, <1>4, <1>5, AnsweredKeeps

\* A block ends: its command is over.
LEMMA BlockEndsKeeps ==
    ASSUME IInv, op' = "idle", status' \in Statuses, answered' \in Nat, data' \in Seq(Nat),
           i' \in 0..count, waits' \in 0..MaxWaitRetry, phase' \in {"post", "body", "final"},
           accesses' \in Nat, latch' \in Nat, sticky' \in BOOLEAN, absent' \in BOOLEAN,
           UNCHANGED <<link, waitRetry, matchRetry, aborted, panicked, ap, count, left, room, tries>>
    PROVE  IInv'
<1>1. TypeOK'
  <2>1. op' \in {"idle", "next"} \cup Single \cup Blocks
    OBVIOUS
  <2> QED
    BY <2>1, Zenon DEF IInv, TypeOK
<1> QED
  BY <1>1, IdleKeeps DEF IInv

LEMMA BlockPostKeeps ==
    ASSUME IInv, NEW answer \in Answers, BlockPost(answer)
    PROVE  IInv'
<1>1. /\ op = "readBlock" /\ phase = "post" /\ phase' = "body" /\ waits' = 0
      /\ ReadTarget(Register, answer)
      /\ UNCHANGED <<link, waitRetry, matchRetry, aborted, panicked, ap, count, left, room, i, tries,
                     data>>
  BY DEF BlockPost, Accesses, configVars
<1>2. /\ accesses' \in Nat /\ latch' \in Nat /\ sticky' \in BOOLEAN /\ absent' \in BOOLEAN
      /\ ~absent' => ~absent /\ (Status(answer) = "ok" => answer = "ok")
      /\ answer = "ok" /\ ap => accesses' = accesses + 1 /\ latch' = accesses'
  BY <1>1, ReadTargetFacts, RegisterFacts DEF IInv
<1>3. 0 \in 0..MaxWaitRetry /\ data' \in Seq(Nat) /\ 0 \in Nat
  BY <1>1, ConfigFacts DEF IInv, TypeOK
<1>4. CASE Status(answer) = "ok"
  <2>1. UNCHANGED <<op, status, answered>>
    BY <1>4 DEF BlockPost
  <2>2. TypeOK'
    BY <1>1, <1>2, <1>3, <2>1, Zenon DEF IInv, TypeOK
  <2>3. Progress'
    BY <1>1, <2>1 DEF IInv, Progress
  <2>4. Posts'
    <3>1. ASSUME ap, ~absent'
          PROVE  /\ i = Len(data) /\ \A k \in 1..Len(data) : data[k] = k
                 /\ accesses' = i + 1 /\ latch' = accesses'
      <4>1. /\ i = Len(data) /\ \A k \in 1..Len(data) : data[k] = k
            /\ i = 0 /\ accesses = 0
        BY <1>1, <1>2, <3>1 DEF IInv, Posts
      <4> QED
        BY <1>2, <1>4, <3>1, <4>1
    <3>2. op' # "read" /\ op' # "match" /\ op' # "writeBlock" /\ phase' # "post"
      BY <1>1, <2>1
    <3>3. ap' = ap /\ i' = i /\ data' = data
      BY <1>1
    <3> QED
      BY <3>1, <3>2, <3>3, Zenon DEF Posts
  <2> QED
    BY <2>2, <2>3, <2>4 DEF IInv
<1>5. CASE Status(answer) # "ok"
  <2>1. op' = "idle" /\ status' = Status(answer) /\ answered' = 0
    BY <1>5 DEF BlockPost, BlockEnds
  <2>2. i' \in 0..count
    BY <1>1 DEF IInv, TypeOK
  <2> QED
    BY <1>1, <1>2, <1>3, <2>1, <2>2, StatusFacts, BlockEndsKeeps
<1> QED
  BY <1>4, <1>5

LEMMA BlockReadKeeps ==
    ASSUME IInv, NEW answer \in Answers, BlockRead(answer)
    PROVE  IInv'
<1>1. /\ op = "readBlock" /\ phase = "body" /\ i' = i + 1 /\ waits' = 0
      /\ ReadTarget(Word, answer)
      /\ data' = IF Status(answer) = "ok" THEN Append(data, Returned(Word, answer)) ELSE data
      /\ UNCHANGED <<link, waitRetry, matchRetry, aborted, panicked, ap, count, left, room, phase,
                     tries>>
  BY DEF BlockRead, Accesses, configVars
<1>2. /\ accesses' \in Nat /\ latch' \in Nat /\ sticky' \in BOOLEAN /\ absent' \in BOOLEAN
      /\ Returned(Word, answer) \in Nat
      /\ ~absent' => ~absent /\ (Status(answer) = "ok" => answer = "ok")
      /\ ~absent' /\ Word # "dp" => Returned(Word, answer) = latch
      /\ answer = "ok" /\ Word = "ap" => accesses' = accesses + 1 /\ latch' = accesses'
  BY <1>1, ReadTargetFacts, RegisterFacts DEF IInv
<1>3. data' \in Seq(Nat) /\ 0 \in 0..MaxWaitRetry
  BY <1>1, <1>2, AppendFacts, ConfigFacts DEF IInv, TypeOK
<1>4. i < count /\ i \in Nat /\ count \in Nat
  BY <1>1, CountFacts DEF IInv, Progress
<1>5. i' \in 0..count /\ i' \in Nat
  BY <1>1, <1>4
<1>6. CASE Status(answer) = "ok" /\ i + 1 < count
  <2>1. UNCHANGED <<op, status, answered>> /\ data' = Append(data, Returned(Word, answer))
    BY <1>1, <1>6 DEF BlockRead
  <2>2. TypeOK'
    BY <1>1, <1>2, <1>3, <1>5, <2>1, Zenon DEF IInv, TypeOK
  <2>3. Progress'
    BY <1>1, <1>6, <2>1 DEF Progress
  <2>4. Posts'
    <3>1. ASSUME ap, ~absent'
          PROVE  /\ i' = Len(data') /\ \A k \in 1..Len(data') : data'[k] = k
                 /\ accesses' = i' + 1 /\ latch' = accesses'
      <4>1. /\ i = Len(data) /\ \A k \in 1..Len(data) : data[k] = k
            /\ accesses = i + 1 /\ latch = accesses
        BY <1>1, <1>2, <3>1 DEF IInv, Posts
      <4>2. Word = "ap"
        BY <1>6, <3>1, RegisterFacts DEF IInv
      <4>3. Returned(Word, answer) = i + 1 /\ accesses' = accesses + 1 /\ latch' = accesses'
        BY <1>2, <1>6, <3>1, <4>1, <4>2
      <4>4. /\ Len(data') = Len(data) + 1
            /\ \A k \in 1..Len(data) : data'[k] = data[k]
            /\ data'[Len(data) + 1] = i + 1
        BY <1>2, <2>1, <4>3, AppendFacts DEF IInv
      <4>5. \A k \in 1..Len(data') : k \in 1..Len(data) \/ k = Len(data) + 1
        BY <1>4, <4>1, <4>4
      <4> QED
        BY <1>1, <4>1, <4>3, <4>4, <4>5
    <3>2. op' # "read" /\ op' # "match" /\ op' # "writeBlock" /\ phase' # "post"
      BY <1>1, <2>1
    <3>3. ap' = ap
      BY <1>1
    <3> QED
      BY <3>1, <3>2, <3>3, Zenon DEF Posts
  <2> QED
    BY <2>2, <2>3, <2>4 DEF IInv
<1>7. CASE ~(Status(answer) = "ok" /\ i + 1 < count)
  <2>1. op' = "idle" /\ status' = Status(answer) /\ answered' = i + 1
    BY <1>7 DEF BlockRead, BlockEnds
  <2>2. i + 1 \in Nat
    BY <1>4
  <2>3. phase' \in {"post", "body", "final"}
    BY <1>1
  <2> QED
    BY <1>1, <1>2, <1>3, <1>5, <2>1, <2>2, <2>3, StatusFacts, BlockEndsKeeps
<1> QED
  BY <1>6, <1>7

LEMMA BlockWriteKeeps ==
    ASSUME IInv, NEW answer \in Answers, BlockWrite(answer)
    PROVE  IInv'
<1>1. /\ op = "writeBlock" /\ phase = "body" /\ i' = i + 1 /\ waits' = 0
      /\ phase' = IF i + 1 = count THEN "final" ELSE "body"
      /\ WriteTarget(Register, answer)
      /\ UNCHANGED <<link, waitRetry, matchRetry, aborted, panicked, ap, count, left, room, tries,
                     data>>
  BY DEF BlockWrite, Accesses, configVars
<1>2. /\ accesses' \in Nat /\ latch' \in Nat /\ sticky' \in BOOLEAN /\ absent' \in BOOLEAN
      /\ ~absent' => ~absent /\ (Status(answer) = "ok" => answer = "ok")
      /\ answer = "ok" /\ ap => accesses' = accesses + 1
  BY <1>1, WriteTargetFacts, RegisterFacts DEF IInv
<1>3. data' \in Seq(Nat) /\ 0 \in 0..MaxWaitRetry /\ phase' \in {"post", "body", "final"}
  BY <1>1, ConfigFacts DEF IInv, TypeOK
<1>4. i < count /\ i \in Nat /\ count \in Nat
  BY <1>1, CountFacts DEF IInv, Progress
<1>5. i' \in 0..count
  BY <1>1, <1>4
<1>6. CASE Status(answer) = "ok"
  <2>1. UNCHANGED <<op, status, answered>>
    BY <1>6 DEF BlockWrite
  <2>2. TypeOK'
    BY <1>1, <1>2, <1>3, <1>5, <2>1, Zenon DEF IInv, TypeOK
  <2>3. Progress'
    <3>1. \/ phase' = "body" /\ i + 1 < count
          \/ phase' = "final" /\ i + 1 = count
      BY <1>1, <1>4
    <3> QED
      BY <1>1, <2>1, <3>1 DEF Progress
  <2>4. Posts'
    <3>1. ASSUME ap, ~absent' PROVE accesses' = i'
      BY <1>1, <1>2, <1>6, <3>1 DEF IInv, Posts
    <3>2. op' # "read" /\ op' # "match" /\ op' # "readBlock" /\ ap' = ap
      BY <1>1, <2>1
    <3> QED
      BY <3>1, <3>2, Zenon DEF Posts
  <2> QED
    BY <2>2, <2>3, <2>4 DEF IInv
<1>7. CASE Status(answer) # "ok"
  <2>1. op' = "idle" /\ status' = Status(answer) /\ answered' = i + 1
    BY <1>7 DEF BlockWrite, BlockEnds
  <2>2. i + 1 \in Nat
    BY <1>4
  <2> QED
    BY <1>1, <1>2, <1>3, <1>5, <2>1, <2>2, StatusFacts, BlockEndsKeeps
<1> QED
  BY <1>6, <1>7

LEMMA BlockWrittenKeeps ==
    ASSUME IInv, NEW answer \in Answers, BlockWritten(answer)
    PROVE  IInv'
<1>1. /\ ReadTarget("rdbuff", answer)
      /\ op' = "idle" /\ status' = Status(answer) /\ answered' = count
      /\ UNCHANGED <<link, waitRetry, matchRetry, aborted, panicked, ap, count, left, room, phase, i,
                     waits, tries, data>>
  BY DEF BlockWritten, BlockEnds, configVars
<1>2. accesses' \in Nat /\ latch' \in Nat /\ sticky' \in BOOLEAN /\ absent' \in BOOLEAN
  BY <1>1, ReadTargetFacts DEF IInv
<1>3. /\ data' \in Seq(Nat) /\ i' \in 0..count /\ waits' \in 0..MaxWaitRetry
      /\ phase' \in {"post", "body", "final"}
  BY <1>1, Zenon DEF IInv, TypeOK
<1>4. answered' \in Nat
  BY <1>1, CountFacts DEF IInv
<1> QED
  BY <1>1, <1>2, <1>3, <1>4, StatusFacts, BlockEndsKeeps

LEMMA NextKeeps == IInv /\ [Next]_vars => IInv'
<1> SUFFICES ASSUME IInv, [Next]_vars PROVE IInv'
  OBVIOUS
<1>1. CASE UNCHANGED vars
  BY <1>1 DEF vars, configVars, opVars, replyVars, targetVars, IInv, TypeOK, Progress, Posts
<1>2. CASE Commands
  BY <1>2, SettingsKeep, TransferKeeps, TransferBlockKeeps DEF Commands
<1>3. CASE Handle
  BY <1>3, NextTransferKeeps, NoRoomKeeps, MatchMaskKeeps, NoOperatorKeeps, RetryKeeps, ReadKeeps,
     ReadMatchKeeps, WriteKeeps, BlockPostKeeps, BlockReadKeeps, BlockWriteKeeps, BlockWrittenKeeps
     DEF Handle
<1> QED
  BY <1>1, <1>2, <1>3 DEF Next

\* What holds of every reachable state.
THEOREM Invariance == Spec => []IInv
<1> QED
  BY InitInvariant, NextKeeps, PTL DEF Spec

\* TypeOK: the response never runs out of the room it has, and no count of words,
\* transfers or retries passes its limit.
THEOREM TypeCorrect == Spec => []TypeOK
<1>1. IInv => TypeOK
  BY DEF IInv
<1> QED
  BY <1>1, Invariance, PTL

-----------------------------------------------------------------------------
(* What each command answers when it ends. *)

\* The operation changes only when the command begins or ends.
LEMMA StepOfOperation ==
    ASSUME [Next]_vars, op' # op
    PROVE  /\ op = "readBlock" =>
                \E answer \in Answers : BlockPost(answer) \/ BlockRead(answer)
           /\ op = "writeBlock" =>
                \E answer \in Answers : BlockWrite(answer) \/ BlockWritten(answer)
           /\ op = "read" => NoOperator \/ \E answer \in Answers : Read(answer)
           /\ op = "match" => NoOperator \/ \E answer \in Answers : ReadMatch(answer)
<1>1. op \in Blocks \cup Single => ~Commands
  BY DEF Commands, Connect, TransferConfigure, TransferAbort, Transfer, TransferBlock, Idle,
     Blocks, Single
<1>2. ~UNCHANGED vars /\ ~Retry
  BY DEF vars, opVars, Retry
<1>3. op \in Blocks \cup Single =>
        /\ ~(\E kind \in Single, reg \in BOOLEAN, timed \in BOOLEAN :
                 NextTransfer(kind, reg, timed))
        /\ ~NoRoom /\ ~(\E timed \in BOOLEAN : MatchMask(timed))
  BY DEF NextTransfer, NoRoom, MatchMask, Blocks, Single
<1>4. ASSUME op \in Blocks \cup Single
      PROVE  \/ NoOperator
             \/ \E answer \in Answers :
                   \/ Read(answer) \/ ReadMatch(answer) \/ Write(answer)
                   \/ BlockPost(answer) \/ BlockRead(answer)
                   \/ BlockWrite(answer) \/ BlockWritten(answer)
  BY <1>1, <1>2, <1>3, <1>4, Zenon DEF Next, Handle
<1>5. op \in Blocks => ~NoOperator
  BY DEF NoOperator, Blocks, Single
<1>6. \A answer \in Answers :
        /\ Read(answer) => op = "read"
        /\ ReadMatch(answer) => op = "match"
        /\ Write(answer) => op = "write"
        /\ BlockPost(answer) \/ BlockRead(answer) => op = "readBlock"
        /\ BlockWrite(answer) \/ BlockWritten(answer) => op = "writeBlock"
  BY DEF Read, ReadMatch, Write, BlockPost, BlockRead, BlockWrite, BlockWritten, Accesses
<1> QED
  BY <1>4, <1>5, <1>6 DEF Blocks, Single

\* BlockReadsInOrder: a block read answers its words from the first on, each once,
\* and makes no access whose result it does not take.
THEOREM BlockReadRight == Spec => BlockReadsInOrder
<1>1. IInv /\ [Next]_vars =>
        (Ends("readBlock") /\ ap /\ ~absent' =>
            /\ \A k \in DOMAIN data' : data'[k] = k
            /\ accesses' <= count
            /\ status' = "ok" => Len(data') = count /\ accesses' = count)
  <2> SUFFICES ASSUME IInv, [Next]_vars, op = "readBlock", op' # op, ap, ~absent'
               PROVE  /\ \A k \in DOMAIN data' : data'[k] = k
                      /\ accesses' <= count
                      /\ status' = "ok" => Len(data') = count /\ accesses' = count
    BY DEF Ends
  <2>1. PICK answer \in Answers : BlockPost(answer) \/ BlockRead(answer)
    BY StepOfOperation
  <2>2. i < count /\ i \in Nat /\ count \in Nat /\ data \in Seq(Nat) /\ accesses \in Nat
    BY CountFacts DEF IInv, Progress, TypeOK
  <2>3. ~absent
    BY <2>1, ReadTargetFacts, RegisterFacts DEF BlockPost, BlockRead, IInv
  <2>4. i = Len(data) /\ \A k \in 1..Len(data) : data[k] = k
    BY <2>3 DEF IInv, Posts
  <2>5. CASE BlockPost(answer)
    <3>1. /\ phase = "post" /\ ReadTarget(Register, answer) /\ data' = data
          /\ Status(answer) # "ok" /\ status' = Status(answer)
      BY <2>5 DEF BlockPost, BlockEnds
    <3>2. accesses = 0 /\ accesses' <= accesses + 1 /\ accesses' \in Nat
      BY <2>3, <3>1, ReadTargetFacts, RegisterFacts DEF IInv, Posts
    <3>3. accesses' <= count
      BY <2>2, <3>2
    <3>4. DOMAIN data' = 1..Len(data)
      BY <2>2, <3>1, LenProperties
    <3> QED
      BY <2>4, <3>1, <3>3, <3>4
  <2>6. CASE BlockRead(answer)
    <3>1. /\ phase = "body" /\ ReadTarget(Word, answer)
          /\ ~(Status(answer) = "ok" /\ i + 1 < count) /\ status' = Status(answer)
          /\ data' = IF Status(answer) = "ok" THEN Append(data, Returned(Word, answer)) ELSE data
      BY <2>6 DEF BlockRead, BlockEnds
    <3>2. accesses = i + 1 /\ latch = accesses
      BY <2>3, <3>1 DEF IInv, Posts
    <3>3. /\ accesses' \in Nat /\ accesses' <= accesses + 1
          /\ Word # "ap" => accesses' = accesses
          /\ Word # "dp" => Returned(Word, answer) = latch
          /\ Returned(Word, answer) \in Nat
      BY <3>1, ReadTargetFacts, RegisterFacts DEF IInv
    <3>4. (i + 1 < count => Word = "ap") /\ (~(i + 1 < count) => Word = "rdbuff")
      BY RegisterFacts DEF IInv
    <3>5. accesses' <= count
      <4>1. CASE i + 1 < count
        BY <2>2, <3>2, <3>3, <4>1
      <4>2. CASE ~(i + 1 < count)
        BY <2>2, <3>2, <3>3, <3>4, <4>2
      <4> QED
        BY <4>1, <4>2
    <3>6. CASE Status(answer) = "ok"
      <4>1. Word = "rdbuff" /\ i + 1 = count
        BY <2>2, <3>1, <3>4, <3>6
      <4>2. Returned(Word, answer) = i + 1 /\ accesses' = count
        BY <3>2, <3>3, <4>1
      <4>3. /\ data' \in Seq(Nat) /\ Len(data') = Len(data) + 1
            /\ \A k \in 1..Len(data) : data'[k] = data[k]
            /\ data'[Len(data) + 1] = i + 1
        BY <3>1, <3>3, <3>6, <4>2, AppendFacts DEF IInv
      <4>4. DOMAIN data' = 1..(Len(data) + 1)
        BY <4>3, LenProperties
      <4>5. \A k \in 1..(Len(data) + 1) : k \in 1..Len(data) \/ k = Len(data) + 1
        BY <2>2, <2>4
      <4>6. Len(data') = count
        BY <2>4, <4>1, <4>3
      <4> QED
        BY <2>4, <3>5, <4>2, <4>3, <4>4, <4>5, <4>6
    <3>7. CASE Status(answer) # "ok"
      <4>1. DOMAIN data' = 1..Len(data) /\ data' = data
        BY <2>2, <3>1, <3>7, LenProperties
      <4> QED
        BY <2>4, <3>1, <3>5, <3>7, <4>1
    <3> QED
      BY <3>6, <3>7
  <2> QED
    BY <2>1, <2>5, <2>6
<1> QED
  BY <1>1, Invariance, PTL DEF Spec, BlockReadsInOrder

\* BlockWritesAll: OK for a block write means that every word is written once and
\* that no error is left in the target.
THEOREM BlockWriteRight == Spec => BlockWritesAll
<1>1. IInv /\ [Next]_vars =>
        (Ends("writeBlock") /\ status' = "ok" /\ ~absent' =>
            /\ ap => accesses' = count
            /\ ~sticky')
  <2> SUFFICES ASSUME IInv, [Next]_vars, op = "writeBlock", op' # op, status' = "ok", ~absent'
               PROVE  (ap => accesses' = count) /\ ~sticky'
    BY DEF Ends
  <2>1. PICK answer \in Answers : BlockWrite(answer) \/ BlockWritten(answer)
    BY StepOfOperation
  <2>2. ~BlockWrite(answer)
    BY DEF BlockWrite, BlockEnds
  <2>3. /\ phase = "final" /\ ReadTarget("rdbuff", answer) /\ Status(answer) = "ok"
    BY <2>1, <2>2 DEF BlockWritten, BlockEnds
  <2>4. ~absent /\ answer = "ok" /\ accesses' = accesses /\ ~sticky'
    BY <2>3, ReadTargetFacts DEF IInv
  <2>5. i = count
    BY <2>3 DEF IInv, Progress
  <2> QED
    BY <2>4, <2>5 DEF IInv, Posts
<1> QED
  BY <1>1, Invariance, PTL DEF Spec, BlockWritesAll

\* ReadsOwn: a read that is OK answers the result of its own access.
THEOREM ReadRight == Spec => ReadsOwn
<1>1. IInv /\ [Next]_vars =>
        (Ends("read") /\ ap /\ status' = "ok" /\ ~absent' => Last(data') = accesses')
  <2> SUFFICES ASSUME IInv, [Next]_vars, op = "read", op' # op, ap, status' = "ok", ~absent'
               PROVE  Last(data') = accesses'
    BY DEF Ends
  <2>1. ~NoOperator
    BY DEF NoOperator, Answer
  <2>2. PICK answer \in Answers : Read(answer)
    BY <2>1, StepOfOperation
  <2>3. /\ ReadEnds(answer) /\ data' = Append(data, Returned(ReadReg, answer))
        /\ status' = Status(answer)
    BY <2>2 DEF Read, ReadPosts, Answer
  <2>4. ReadTarget(ReadReg, answer) /\ phase = "final"
    BY <2>3, RegisterFacts DEF ReadEnds, IInv
  <2>5. ReadReg = "rdbuff"
    BY <2>4, RegisterFacts DEF IInv
  <2>6. /\ ~absent /\ Returned(ReadReg, answer) = latch /\ accesses' = accesses
        /\ Returned(ReadReg, answer) \in Nat
    BY <2>4, <2>5, ReadTargetFacts DEF IInv
  <2>7. latch = accesses
    BY <2>4, <2>6 DEF IInv, Posts
  <2>8. Len(data') = Len(data) + 1 /\ data'[Len(data) + 1] = latch
    BY <2>3, <2>6, AppendFacts DEF IInv
  <2> QED
    BY <2>6, <2>7, <2>8 DEF Last
<1> QED
  BY <1>1, Invariance, PTL DEF Spec, ReadsOwn

\* MatchIsReal: a match is of the last value read, and a mismatch comes after every
\* retry.
THEOREM MatchRight == Spec => MatchIsReal
<1>1. IInv /\ [Next]_vars =>
        (Ends("match") /\ ap /\ ~aborted /\ ~absent' =>
            /\ status' = "ok" => accesses' \in Wanted
            /\ status' = "mismatch" => accesses' \notin Wanted /\ tries' = matchRetry)
  <2> SUFFICES ASSUME IInv, [Next]_vars, op = "match", op' # op, ap, ~aborted, ~absent',
                      status' \in {"ok", "mismatch"}
               PROVE  /\ status' = "ok" => accesses' \in Wanted
                      /\ status' = "mismatch" => accesses' \notin Wanted /\ tries' = matchRetry
    BY DEF Ends
  <2>1. ~NoOperator
    BY DEF NoOperator, Answer
  <2>2. PICK answer \in Answers : ReadMatch(answer)
    BY <2>1, StepOfOperation
  <2>3. /\ ReadEnds(answer) /\ ~(Mismatch(answer) /\ tries < matchRetry)
        /\ status' = IF Mismatch(answer) THEN "mismatch" ELSE Status(answer)
        /\ tries' = tries
    BY <2>2 DEF ReadMatch, ReadPosts, Answer
  <2>4. Status(answer) = "ok"
    <3>1. Status(answer) # "mismatch"
      BY DEF Status, Answers
    <3> QED
      BY <2>3, <3>1 DEF Mismatch
  <2>5. ReadTarget(ReadReg, answer) /\ phase = "final"
    BY <2>3, <2>4, RegisterFacts DEF ReadEnds, IInv
  <2>6. ReadReg = "rdbuff"
    BY <2>5, RegisterFacts DEF IInv
  <2>7. ~absent /\ Returned(ReadReg, answer) = latch /\ accesses' = accesses
    BY <2>5, <2>6, ReadTargetFacts DEF IInv
  <2>8. Returned(ReadReg, answer) = accesses'
    BY <2>5, <2>7 DEF IInv, Posts
  <2>9. Mismatch(answer) <=> accesses' \notin Wanted
    BY <2>4, <2>8 DEF Mismatch
  <2>10. Mismatch(answer) => tries = matchRetry
    <3>1. tries <= matchRetry /\ tries \in Nat /\ matchRetry \in Nat
      BY DEF IInv, Progress, TypeOK
    <3> QED
      BY <2>3, <3>1
  <2> QED
    BY <2>3, <2>4, <2>9, <2>10
<1> QED
  BY <1>1, Invariance, PTL DEF Spec, MatchIsReal
=============================================================================

----------------------------- MODULE MCCommands -----------------------------
(* Commands in packets of 24 bytes: a list of three items may be longer than *)
(* its answer, and every header takes another number of bytes.               *)
EXTENDS Commands

\* Of a Transfer: a read (2), a write (0), a match mask (32), and both
\* transfers with a timestamp (130, 128).  Of the sequences: out and in, of part
\* of a byte, of bytes and, in JTAG, of 64 bits (0, 128).
PlainHeaders ==
    [Transfer |-> {2, 0, 32, 130, 128}, SWDSequence |-> {5, 16, 133, 190},
     JTAGSequence |-> {65, 0, 137, 128}]

\* With the value match (18).
AllHeaders ==
    [Transfer |-> {2, 0, 32, 18}, SWDSequence |-> {}, JTAGSequence |-> {}]
=============================================================================

---------------------------- MODULE ByteChannel ----------------------------
(***************************************************************************)
(* What a pty promises its reader: the bytes written to it come out in    *)
(* order, none lost, none duplicated.  `sent` is everything written so    *)
(* far, `recv` everything a reader has taken out; a read takes the next   *)
(* one or more bytes.  A reader that keeps reading gets every byte.        *)
(***************************************************************************)
EXTENDS Integers, Sequences, SequencesExt

VARIABLES sent, recv

Init == sent = <<>> /\ recv = <<>>

\* A writer appends a non-empty chunk.
Send == IsStrictPrefix(sent, sent') /\ recv' = recv

\* A reader takes the next k >= 1 bytes.
Receive ==
    /\ sent' = sent
    /\ \E k \in 1..(Len(sent) - Len(recv)) : recv' = SubSeq(sent, 1, Len(recv) + k)

Next == Send \/ Receive

Spec == Init /\ [][Next]_<<sent, recv>> /\ WF_<<sent, recv>>(Receive)

====

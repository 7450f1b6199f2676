------------------------------ MODULE LineFifo ------------------------------
(***************************************************************************)
(* What lab9 zad1 promises: a bounded first-in first-out buffer between    *)
(* producers, each sending the file's lines in order, and consumers that   *)
(* print the lines that match.                                             *)
(***************************************************************************)
EXTENDS InputFile

CONSTANT Slots   \* buffor_size

VARIABLES
    lines,     \* the lines in the buffer, oldest first
    sent,      \* lines each producer has put in
    printed    \* the output: the matching lines, in the order printed

fifoVars == <<lines, sent, printed>>

FifoInit ==
    /\ lines = <<>>
    /\ sent = [p \in Producers |-> 0]
    /\ printed = <<>>

Put(p) ==
    /\ sent[p] < Len(LineLengths)
    /\ Len(lines) < Slots
    /\ sent' = [sent EXCEPT ![p] = @ + 1]
    /\ lines' = Append(lines, <<p, sent[p] + 1>>)
    /\ UNCHANGED printed

Take ==
    /\ lines # <<>>
    /\ lines' = Tail(lines)
    /\ printed' = IF matching(Head(lines)) THEN Append(printed, Head(lines)) ELSE printed
    /\ UNCHANGED sent

FifoNext == Take \/ \E p \in Producers : Put(p)

FifoSpec == FifoInit /\ [][FifoNext]_fifoVars
=============================================================================

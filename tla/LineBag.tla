------------------------------- MODULE LineBag ------------------------------
(***************************************************************************)
(* What lab9 zad2 promises: a bounded buffer that loses and repeats no     *)
(* line, but keeps no order among the lines it holds.                      *)
(***************************************************************************)
EXTENDS InputFile, FiniteSets

CONSTANT Slots   \* buffor_size

VARIABLES
    lines,     \* the lines in the buffer
    sent,      \* lines each producer has put in
    printed    \* the output: the matching lines, in the order printed

bagVars == <<lines, sent, printed>>

BagInit ==
    /\ lines = {}
    /\ sent = [p \in Producers |-> 0]
    /\ printed = <<>>

Put(p) ==
    /\ sent[p] < Len(LineLengths)
    /\ Cardinality(lines) < Slots
    /\ sent' = [sent EXCEPT ![p] = @ + 1]
    /\ lines' = lines \cup {<<p, sent[p] + 1>>}
    /\ UNCHANGED printed

Take(line) ==
    /\ line \in lines
    /\ lines' = lines \ {line}
    /\ printed' = IF matching(line) THEN Append(printed, line) ELSE printed
    /\ UNCHANGED sent

BagNext ==
    \/ \E line \in lines : Take(line)
    \/ \E p \in Producers : Put(p)

BagSpec == BagInit /\ [][BagNext]_bagVars
=============================================================================

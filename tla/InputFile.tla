----------------------------- MODULE InputFile ------------------------------
(***************************************************************************)
(* What lab9's producers read and its consumers select: the lines of the   *)
(* input file, by length, and the search of the config file.               *)
(***************************************************************************)
EXTENDS Integers, Sequences

CONSTANTS
    Producers,    \* producer threads; each reads the whole file
    LineLengths,  \* the lengths of the lines of input_path
    Threshold,    \* threshold of the config file
    SearchMode    \* SEARCH_MODE: -1 SMALLER, 0 EQUAL, 1 BIGGER

ASSUME FileAssumption ==
    /\ LineLengths \in Seq(Nat)
    /\ Threshold \in Int
    /\ SearchMode \in {-1, 0, 1}

FileLines == 1..Len(LineLengths)

(* A line in the buffer: which producer read it, and its number in the file*)
Lines == Producers \X FileLines

matching(line) ==
    LET len == LineLengths[line[2]]
    IN  \/ SearchMode = 1 /\ len > Threshold
        \/ SearchMode = 0 /\ len = Threshold
        \/ SearchMode = -1 /\ len < Threshold
=============================================================================

---------------------------- MODULE MCExercises ----------------------------
(***************************************************************************)
(* The smaller programs for TLC, side by side: one of them is run, the     *)
(* others never start.                                                     *)
(***************************************************************************)
EXTENDS RecordSort, ImageFilter, Pipeline, SignalCount, DatePrinter

VARIABLE program

MCKeys == 1..3

(* Every pair of these lines, some files of a block of three, and one that *)
(* is longer.                                                              *)
MCLines == {
    <<>>, <<"ends">>, <<"ends", "|", "reads">>, <<"writes", "|", "reads", "|", "ends">>,
    <<"ends", "|">>, <<"|", "ends">>, <<"missing">>, <<"writes", "|", "missing">>}
MCBatches ==
    UNION {[1..n -> MCLines] : n \in 0..2} \cup
    [1..3 -> {<<"ends">>, <<"missing">>, <<"|">>}] \cup
    {<< <<"missing">>, <<>>, <<"ends">>, <<"|", "ends">> >>}

exerciseVars == <<program, sortVars, filterVars, pipeVars, countVars, daterVars>>

MCInit ==
    /\ program \in {"lab2", "lab4 zad1", "lab4 zad3", "lab5", "lab8"}
    /\ SortInit /\ FilterInit /\ PipeInit /\ CountInit /\ DaterInit

MCNext ==
    /\ UNCHANGED program
    /\ \/ /\ program = "lab2" /\ SortNext
          /\ UNCHANGED <<filterVars, pipeVars, countVars, daterVars>>
       \/ /\ program = "lab4 zad1" /\ DaterNext
          /\ UNCHANGED <<sortVars, filterVars, pipeVars, countVars>>
       \/ /\ program = "lab4 zad3" /\ CountNext
          /\ UNCHANGED <<sortVars, filterVars, pipeVars, daterVars>>
       \/ /\ program = "lab5" /\ PipeNext
          /\ UNCHANGED <<sortVars, filterVars, countVars, daterVars>>
       \/ /\ program = "lab8" /\ FilterNext
          /\ UNCHANGED <<sortVars, pipeVars, countVars, daterVars>>

(* A program that is not run has no processes.                             *)
MCSpec ==
    /\ MCInit /\ [][MCNext]_exerciseVars
    /\ program = "lab4 zad3" => CountFairness
    /\ program = "lab5" => PipeFairness(3)
=============================================================================

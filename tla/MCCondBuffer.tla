---------------------------- MODULE MCCondBuffer ----------------------------
(* CondBuffer for TLC: a file of two lines, one of which matches.          *)
EXTENDS CondBuffer

MCLineLengths == <<3, 7>>
=============================================================================

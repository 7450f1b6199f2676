---------------------------- MODULE MCSemBuffer -----------------------------
(* SemBuffer for TLC: a file of two lines, one of which matches.           *)
EXTENDS SemBuffer

MCLineLengths == <<3, 7>>
=============================================================================

--------------------------- MODULE MCSocketServer ---------------------------
EXTENDS SocketServer, TLC

(* The names play the same role.                                           *)
NameSymmetry == Permutations(Names)
=============================================================================

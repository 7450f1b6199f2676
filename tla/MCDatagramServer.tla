-------------------------- MODULE MCDatagramServer --------------------------
(***************************************************************************)
(* DatagramServer for TLC, with less to explore: one of two namings that   *)
(* differ only in the names themselves, and requests only in runs where at *)
(* most one client is started.                                             *)
(***************************************************************************)
EXTENDS DatagramServer

CONSTANTS
    FirstClient,
    FirstName

MCInit == Init /\ my_name[FirstClient] = FirstName

MCNext == Next /\ (op_id' > 0 => \E c \in Clients : cpc'[c] = "start")

MCFairSpec == MCInit /\ [][MCNext]_vars /\ Fairness
=============================================================================

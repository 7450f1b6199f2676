----------------------------- MODULE MCMqServer -----------------------------
(* MqServer for TLC: as it stands, with model values for the clients.      *)
EXTENDS MqServer
=============================================================================

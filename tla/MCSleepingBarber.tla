-------------------------- MODULE MCSleepingBarber --------------------------
(* Instances of SleepingBarber for TLC: client process ids as zad1 (ftok)  *)
(* and zad2 (named semaphores) turn them into semaphore keys.              *)
EXTENDS SleepingBarber

MCPids == {2, 3, 4}
MCNames == [c \in MCPids |-> NameKey(c)]

MCFourPids == {2, 3, 4, 5}
MCFourNames == [c \in MCFourPids |-> NameKey(c)]

(* Process ids 256 apart: the same low byte, hence the same ftok() key.    *)
MCClashingPids == {300, 556}
MCClashingKeys == [c \in MCClashingPids |-> FtokKey(c)]
=============================================================================

---------------------------- MODULE DatePrinter ----------------------------
(***************************************************************************)
(* lab4 zad1b: ^Z starts and kills a child that prints the date, ^C ends   *)
(* the program.  All is done in the handler, on one variable, dater_pid;   *)
(* each of the two signals may interrupt the handling of the other.        *)
(***************************************************************************)
EXTENDS Integers, Sequences, SequencesExt

CONSTANT MaxKeys   \* bound on the signals sent

ASSUME DaterAssumption == MaxKeys \in Nat

VARIABLES
    dater_pc,       \* main's position
    dater_pid,
    daters,         \* what became of every child; a pid is a place in here
    keys,           \* signals sent
    pending,        \* signals not handled yet
    calls,          \* the calls of handler that have begun, the last at the end
    first,          \* main's child, until its pid is stored
    raced           \* history: ^Z came before the first pid was stored, or after ^C

daterVars == <<dater_pc, dater_pid, daters, keys, pending, calls, first, raced>>

Signals == {"SIGTSTP", "SIGINT"}

DaterTypeOK ==
    /\ dater_pc \in {"spawn", "store", "loop", "ended"}
    /\ dater_pid \in 0..Len(daters)
    /\ daters \in Seq({"prints", "zombie", "reaped"})
    /\ keys \in 0..MaxKeys
    /\ pending \subseteq Signals
    /\ calls \in Seq([signal: Signals, pid: 0..Len(daters),
                      at: {"test", "store", "wait", "clear", "kill", "exit"}])
    /\ first \in 0..Len(daters)
    /\ raced \in BOOLEAN

(* main has set its handlers.                                              *)
DaterInit ==
    /\ dater_pc = "spawn"
    /\ dater_pid = 0 /\ daters = <<>>
    /\ keys = 0 /\ pending = {} /\ calls = <<>> /\ first = 0
    /\ raced = FALSE
-----------------------------------------------------------------------------
InMain(from, to) == calls = <<>> /\ dater_pc = from /\ dater_pc' = to

SpawnFirst ==
    /\ InMain("spawn", "store")
    /\ daters' = Append(daters, "prints")
    /\ first' = Len(daters')
    /\ UNCHANGED <<dater_pid, keys, pending, calls, raced>>

StoreFirst ==
    /\ InMain("store", "loop")
    /\ dater_pid' = first
    /\ UNCHANGED <<daters, keys, pending, calls, first, raced>>

Killed(victims) ==
    daters' = [d \in DOMAIN daters |->
                  IF d \in victims /\ daters[d] = "prints" THEN "zombie" ELSE daters[d]]

(* The signal is sent to the program alone, or to its children as well, as *)
(* the terminal does: ^C ends them.  (^Z stops one that is to be killed.)  *)
Press(signal) ==
    /\ dater_pc # "ended"
    /\ keys < MaxKeys
    /\ keys' = keys + 1
    /\ pending' = pending \cup {signal}
    /\ UNCHANGED daters \/ (signal = "SIGINT" /\ Killed(DOMAIN daters))
    /\ UNCHANGED <<dater_pc, dater_pid, calls, first, raced>>

(* The script cannot be executed: exit(1) in the child.                    *)
SpawnFails ==
    /\ dater_pc # "ended"
    /\ \E d \in DOMAIN daters : daters[d] = "prints" /\ Killed({d})
    /\ UNCHANGED <<dater_pc, dater_pid, keys, pending, calls, first, raced>>

BeingHandled(signal) == \E n \in DOMAIN calls : calls[n].signal = signal

(* A signal does not interrupt its own handling.                           *)
Call(signal) ==
    /\ dater_pc # "ended"
    /\ signal \in pending /\ ~BeingHandled(signal)
    /\ pending' = pending \ {signal}
    /\ calls' = Append(calls, [signal |-> signal, at |-> "test", pid |-> 0])
    /\ raced' = (raced \/ (signal = "SIGTSTP" /\ (dater_pc # "loop" \/ BeingHandled("SIGINT"))))
    /\ UNCHANGED <<dater_pc, dater_pid, daters, keys, first>>

Runs(signal, at) ==
    /\ dater_pc # "ended"
    /\ calls # <<>> /\ Last(calls).signal = signal /\ Last(calls).at = at
    /\ UNCHANGED <<keys, pending, first, raced>>
Goes(at, pid) == calls' = [calls EXCEPT ![Len(calls)].at = at, ![Len(calls)].pid = pid]
Returns == calls' = Front(calls) /\ UNCHANGED <<dater_pc, daters>>

(* Mutant: the child is spawned whether there is one or not.               *)
TestSpawning ==
    /\ Runs("SIGTSTP", "test")
    /\ daters' = Append(daters, "prints") /\ Goes("store", Len(daters'))
    /\ UNCHANGED <<dater_pc, dater_pid>>

(* ^Z: the pid is tested, and a child is spawned or killed.                *)
Test ==
    /\ Runs("SIGTSTP", "test")
    /\ \/ /\ dater_pid = 0
          /\ daters' = Append(daters, "prints") /\ Goes("store", Len(daters'))
       \/ /\ dater_pid # 0
          /\ Killed({dater_pid}) /\ Goes("wait", dater_pid)
    /\ UNCHANGED <<dater_pc, dater_pid>>

Store == Runs("SIGTSTP", "store") /\ dater_pid' = Last(calls).pid /\ Returns

WaitPid ==
    /\ Runs("SIGTSTP", "wait")
    /\ daters' = [daters EXCEPT ![Last(calls).pid] = "reaped"] /\ Goes("clear", 0)
    /\ UNCHANGED <<dater_pc, dater_pid>>

Clear == Runs("SIGTSTP", "clear") /\ dater_pid' = 0 /\ Returns

(* ^C: the pid is loaded for kill().                                       *)
LoadPid ==
    /\ Runs("SIGINT", "test")
    /\ Goes("kill", dater_pid)
    /\ UNCHANGED <<dater_pc, dater_pid, daters>>

(* kill(0, SIGKILL) ends the whole process group.                          *)
KillDater ==
    /\ Runs("SIGINT", "kill")
    /\ \/ /\ Last(calls).pid = 0
          /\ Killed(DOMAIN daters) /\ calls' = <<>> /\ dater_pc' = "ended"
       \/ /\ Last(calls).pid # 0
          /\ Killed({Last(calls).pid}) /\ Goes("exit", 0) /\ UNCHANGED dater_pc
    /\ UNCHANGED dater_pid

ExitProgram ==
    /\ Runs("SIGINT", "exit")
    /\ calls' = <<>> /\ dater_pc' = "ended"
    /\ UNCHANGED <<dater_pid, daters>>

handler ==
    Test \/ Store \/ WaitPid \/ Clear \/ LoadPid \/ KillDater \/ ExitProgram

DaterNext ==
    \/ SpawnFirst \/ StoreFirst \/ SpawnFails \/ handler
    \/ \E signal \in Signals : Press(signal) \/ Call(signal)

DaterEnded == dater_pc = "ended"

DaterSpec == DaterInit /\ [][DaterNext]_daterVars
-----------------------------------------------------------------------------
(* No child prints that the program cannot stop any more: wherever the     *)
(* handling of one signal is interrupted by the other, the one child that  *)
(* prints is the one dater_pid names or is about to, and none is left when *)
(* the program ends.  Not so if ^Z comes before main has stored the first  *)
(* pid, or while ^C is handled.                                            *)
NoStrayDater ==
    ~raced => \A d \in DOMAIN daters : daters[d] = "prints" =>
        /\ dater_pc # "ended"
        /\ \/ d = dater_pid
           \/ d = first /\ dater_pc = "store"
           \/ \E n \in DOMAIN calls : calls[n].at = "store" /\ calls[n].pid = d
=============================================================================

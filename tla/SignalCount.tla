---------------------------- MODULE SignalCount ----------------------------
(***************************************************************************)
(* lab4 zad3: a parent sends L signals to its child, which answers every   *)
(* one it handles, and both count.  Type 1 sends SIGUSR1 without waiting,  *)
(* type 2 waits for every answer, type 3 sends real-time signals.  Signals *)
(* of one number do not queue, unless they are real-time signals.          *)
(***************************************************************************)
EXTENDS Integers, Sequences

CONSTANT MaxSignals   \* bound on L

ASSUME CountAssumption == MaxSignals \in Nat

VARIABLES
    Type, L,            \* the arguments
    parent_pc,
    sent, received, confirmed,
    to_parent,          \* answers pending
    to_child,           \* signals to answer, pending
    stop_pending,       \* the other signal, pending for the child
    child_at,           \* the child is forked, ready for signals or gone
    blocks,             \* SIGUSR1 is in the mask the child does not initialise
    handlers,           \* the child's handlers that have begun, the last on top
    child_received,
    unready             \* history: a signal came before the child was ready

countVars == <<Type, L, parent_pc, sent, received, confirmed, to_parent, to_child,
               stop_pending, child_at, blocks, handlers, child_received, unready>>
ofParent == <<parent_pc, sent, received, confirmed>>
ofCounter == <<child_at, blocks, handlers, child_received>>
arguments == <<Type, L>>

CountTypeOK ==
    /\ Type \in 1..3 /\ L \in 0..MaxSignals
    /\ parent_pc \in {"start", "sleep", "send", "kill", "confirm", "all_sent", "stop",
                      "summary", "ended"}
    /\ {sent, received, to_parent, to_child, child_received} \subseteq Nat
    /\ {confirmed, stop_pending, blocks, unready} \subseteq BOOLEAN
    /\ child_at \in {"forked", "ready", "gone"}
    /\ handlers \in Seq([at: {"load", "store", "answer"}, count: Nat])

CountInit ==
    /\ Type = 1 /\ L = 0
    /\ parent_pc = "start"
    /\ sent = 0 /\ received = 0 /\ confirmed = FALSE
    /\ to_parent = 0 /\ to_child = 0 /\ stop_pending = FALSE
    /\ child_at = "forked" /\ blocks = FALSE /\ handlers = <<>> /\ child_received = 0
    /\ unready = FALSE

(* What is pending when one more is sent.                                  *)
Pends(n) == IF Type = 3 THEN n + 1 ELSE 1
-----------------------------------------------------------------------------
(* The parent.                                                             *)
ParentAt(from, to) == parent_pc = from /\ parent_pc' = to

Start ==
    /\ ParentAt("start", "sleep")
    /\ Type' \in 1..3 /\ L' \in 0..MaxSignals
    /\ UNCHANGED <<sent, received, confirmed, to_parent, to_child, stop_pending, ofCounter, unready>>

(* sleep(1): nothing says that the child is ready by then.                 *)
Wakes ==
    /\ ParentAt("sleep", "send")
    /\ UNCHANGED <<arguments, sent, received, confirmed, to_parent, to_child, stop_pending,
                   ofCounter, unready>>

NextSignal ==
    /\ ParentAt("send", IF sent < L THEN "kill" ELSE "all_sent")
    /\ sent' = IF sent < L THEN sent + 1 ELSE sent
    /\ confirmed' = IF sent < L THEN FALSE ELSE confirmed
    /\ UNCHANGED <<arguments, received, to_parent, to_child, stop_pending, ofCounter, unready>>

(* Mutant: confirmed is reset after the signal has been sent, not before.  *)
WaitResetting ==
    \/ /\ ParentAt("confirm", "waiting")
       /\ confirmed' = FALSE
       /\ UNCHANGED <<arguments, sent, received, to_parent, to_child, stop_pending, ofCounter,
                      unready>>
    \/ /\ ParentAt("waiting", "send")
       /\ confirmed
       /\ UNCHANGED <<arguments, sent, received, confirmed, to_parent, to_child, stop_pending,
                      ofCounter, unready>>

(* while(!confirmed) {}.                                                   *)
WaitConfirmed ==
    /\ ParentAt("confirm", "send")
    /\ confirmed
    /\ UNCHANGED <<arguments, sent, received, confirmed, to_parent, to_child, stop_pending,
                   ofCounter, unready>>

(* Mutant: type 2 does not wait either.                                    *)
KillNotWaiting ==
    /\ ParentAt("kill", "send")
    /\ to_child' = IF child_at = "gone" THEN to_child ELSE Pends(to_child)
    /\ unready' = (unready \/ child_at # "ready")
    /\ UNCHANGED <<arguments, sent, received, confirmed, to_parent, stop_pending, ofCounter>>

Kill1 ==
    /\ ParentAt("kill", IF Type = 2 THEN "confirm" ELSE "send")
    /\ to_child' = IF child_at = "gone" THEN to_child ELSE Pends(to_child)
    /\ unready' = (unready \/ child_at # "ready")
    /\ UNCHANGED <<arguments, sent, received, confirmed, to_parent, stop_pending, ofCounter>>

(* The second sleep(1), which an answer cuts short.                        *)
SleepOver ==
    /\ ParentAt("all_sent", "stop")
    /\ UNCHANGED <<arguments, sent, received, confirmed, to_parent, to_child, stop_pending,
                   ofCounter, unready>>

Kill2 ==
    /\ ParentAt("stop", "summary")
    /\ stop_pending' = (child_at # "gone")
    /\ UNCHANGED <<arguments, sent, received, confirmed, to_parent, to_child, ofCounter, unready>>

(* waitpid does not wait; the counts are printed.                          *)
Summary ==
    /\ ParentAt("summary", "ended")
    /\ UNCHANGED <<arguments, sent, received, confirmed, to_parent, to_child, stop_pending,
                   ofCounter, unready>>

(* handler: the signal is blocked while it runs.                           *)
Answer ==
    /\ to_parent > 0
    /\ parent_pc # "ended"
    /\ to_parent' = to_parent - 1
    /\ confirmed' = TRUE
    /\ received' = received + 1
    /\ UNCHANGED <<arguments, parent_pc, sent, to_child, stop_pending, ofCounter, unready>>

(* SIGINT, sent to the parent alone: int_handler sends the child away and  *)
(* exits.                                                                  *)
Interrupted ==
    /\ parent_pc \notin {"start", "ended"}
    /\ parent_pc' = "ended"
    /\ stop_pending' = (child_at # "gone")
    /\ UNCHANGED <<arguments, sent, received, confirmed, to_parent, to_child, ofCounter, unready>>

ParentRuns ==
    \/ Start \/ Wakes \/ NextSignal \/ Kill1 \/ WaitConfirmed \/ SleepOver \/ Kill2 \/ Summary
    \/ Answer
-----------------------------------------------------------------------------
(* The child.                                                              *)
(* Its handlers are set, with a mask of which only two signals are known.  *)
SetHandlers ==
    /\ child_at = "forked" /\ parent_pc # "start"
    /\ ~stop_pending /\ to_child = 0
    /\ child_at' = "ready"
    /\ blocks' \in BOOLEAN
    /\ UNCHANGED <<arguments, ofParent, to_parent, to_child, stop_pending, handlers,
                   child_received, unready>>

(* Until then a signal ends it, or, before execl, is handled by what the   *)
(* child has inherited from the parent, which does not answer.             *)
Inherited ==
    /\ child_at = "forked"
    /\ to_child > 0
    /\ to_child' = to_child - 1
    /\ UNCHANGED <<arguments, ofParent, ofCounter, to_parent, stop_pending, unready>>

Unhandled ==
    /\ child_at = "forked"
    /\ stop_pending \/ to_child > 0
    /\ child_at' = "gone"
    /\ to_child' = 0 /\ stop_pending' = FALSE
    /\ UNCHANGED <<arguments, ofParent, to_parent, blocks, handlers, child_received, unready>>

(* SA_NODEFER: the handler of SIGUSR1 may be interrupted by SIGUSR1, if    *)
(* the mask allows; signal() makes the other one wait.                     *)
Deliver ==
    /\ child_at = "ready"
    /\ to_child > 0
    /\ handlers = <<>> \/ (Type # 3 /\ ~blocks)
    /\ to_child' = to_child - 1
    /\ handlers' = Append(handlers, [at |-> "load", count |-> 0])
    /\ UNCHANGED <<arguments, ofParent, to_parent, stop_pending, child_at, blocks,
                   child_received, unready>>

Top == handlers[Len(handlers)]
Handling(at) == child_at = "ready" /\ handlers # <<>> /\ Top.at = at

(* ++received: a load and a store.                                         *)
LoadReceived ==
    /\ Handling("load")
    /\ handlers' = [handlers EXCEPT ![Len(handlers)] = [at |-> "store", count |-> child_received]]
    /\ UNCHANGED <<arguments, ofParent, to_parent, to_child, stop_pending, child_at, blocks,
                   child_received, unready>>

StoreReceived ==
    /\ Handling("store")
    /\ child_received' = Top.count + 1
    /\ handlers' = [handlers EXCEPT ![Len(handlers)] = [at |-> "answer", count |-> 0]]
    /\ UNCHANGED <<arguments, ofParent, to_parent, to_child, stop_pending, child_at, blocks, unready>>

(* kill(getppid(), signal), and the handler returns.                       *)
SendAnswer ==
    /\ Handling("answer")
    /\ to_parent' = IF parent_pc = "ended" THEN to_parent ELSE Pends(to_parent)
    /\ handlers' = SubSeq(handlers, 1, Len(handlers) - 1)
    /\ UNCHANGED <<arguments, ofParent, to_child, stop_pending, child_at, blocks,
                   child_received, unready>>

(* exit_handler; SIGUSR2 waits for the handlers of SIGUSR1, the real-time  *)
(* signal only for those to be delivered before it.                        *)
Exit ==
    /\ child_at = "ready"
    /\ stop_pending
    /\ handlers = <<>> \/ Type = 3
    /\ handlers # <<>> \/ to_child = 0
    /\ child_at' = "gone"
    /\ to_child' = 0 /\ stop_pending' = FALSE /\ handlers' = <<>>
    /\ UNCHANGED <<arguments, ofParent, to_parent, blocks, child_received, unready>>

ChildRuns ==
    \/ SetHandlers \/ Inherited \/ Unhandled \/ Deliver \/ LoadReceived \/ StoreReceived
    \/ SendAnswer \/ Exit

CountNext == ParentRuns \/ Interrupted \/ ChildRuns

CountEnded == parent_pc = "ended" /\ child_at = "gone"

CountSpec == CountInit /\ [][CountNext]_countVars

(* Both processes run.                                                     *)
CountFairness ==
    /\ WF_countVars(ParentRuns) /\ WF_countVars(ChildRuns)
-----------------------------------------------------------------------------
(* No answer is counted that no signal was sent for, and with confirmation *)
(* parent and child have counted every signal when the last one has been   *)
(* answered, unless the child got one before it was ready.                 *)
CountsAgree ==
    /\ received <= sent
    /\ Type = 2 /\ ~unready /\ parent_pc \in {"all_sent", "stop", "summary"} =>
           sent = L /\ received = sent /\ child_received = sent

(* The parent does not wait for ever for an answer, unless the child got   *)
(* a signal before it was ready; and the child does not outlive it.        *)
BothEnd == (parent_pc # "start") ~> (unready \/ (parent_pc = "ended" /\ child_at = "gone"))
=============================================================================

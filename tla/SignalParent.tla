---------------------------- MODULE SignalParent ----------------------------
(***************************************************************************)
(* The handshake of lab4 zad2: a parent starts N children, each asks for   *)
(* permission with SIGUSR1, and once K have asked the parent answers with  *)
(* SIGALRM, which makes a child exit.  Signals of one kind do not queue:   *)
(* while one is pending the next is lost, and with it who sent it.         *)
(*                                                                         *)
(* Handlers block all signals while they run, so a handler is one step,    *)
(* which may fall between any two steps of main.  The real-time signal of  *)
(* a child that exits is only printed, and left out.                       *)
(***************************************************************************)
EXTENDS Integers, FiniteSets

CONSTANTS
    N,           \* children
    K,           \* requests to wait for
    Interrupts   \* whether the parent may be sent SIGINT

ASSUME SignalAssumption == N \in Nat \ {0} /\ K \in Nat /\ Interrupts \in BOOLEAN

Pids == 1..N
Slots == 0..(N - 1)
NoPid == 0

VARIABLES
    mpc,            \* main's position
    i, reg,         \* its loop index, and alive as loaded
    children, allowed,
    stray,          \* the byte allowed[-1]
    request_count,
    alive,
    usr1, chld,     \* sender of the pending signal of the parent
    alrm,           \* children with SIGALRM pending
    cpc,            \* every child's position
    outcome,        \* how the parent ended
    lost            \* history: a signal was lost, or came in the midst of spawn_child

mainVars == <<mpc, i, reg>>
books == <<children, allowed, stray, request_count, alive>>
signals == <<usr1, chld, alrm>>
vars == <<mainVars, books, signals, cpc, outcome, lost>>

TypeOK ==
    /\ mpc \in {"fork", "load", "store", "record", "spin", "done"}
    /\ i \in 0..N /\ reg \in -N..N
    /\ children \in [Slots -> Pids \cup {NoPid}]
    /\ allowed \in [Slots -> BOOLEAN] /\ stray \in BOOLEAN
    /\ request_count \in 0..N
    /\ alive \in -N..N
    /\ usr1 \in Pids \cup {NoPid} /\ chld \in Pids \cup {NoPid}
    /\ alrm \subseteq Pids
    /\ cpc \in [Pids -> {"unborn", "sleep", "pause", "gone"}]
    /\ outcome \in {"running", "returned", "aborted", "interrupted", "killed"}
    /\ lost \in BOOLEAN

Init ==
    /\ mpc = "fork" /\ i = 0 /\ reg = 0
    /\ children = [s \in Slots |-> NoPid]
    /\ allowed = [s \in Slots |-> FALSE] /\ stray = FALSE
    /\ request_count = 0 /\ alive = 0
    /\ usr1 = NoPid /\ chld = NoPid /\ alrm = {}
    /\ cpc = [p \in Pids |-> "unborn"]
    /\ outcome = "running"
    /\ lost = FALSE
-----------------------------------------------------------------------------
(* main, spawn_children and spawn_child.                                   *)
MainAt(from, to) == mpc = from /\ mpc' = to

Fork ==
    /\ MainAt("fork", "load")
    /\ cpc' = [cpc EXCEPT ![i + 1] = "sleep"]
    /\ UNCHANGED <<i, reg, books, signals, outcome, lost>>

(* ++alive is not atomic.                                                  *)
LoadAlive ==
    /\ MainAt("load", "store")
    /\ reg' = alive
    /\ UNCHANGED <<i, books, signals, cpc, outcome, lost>>

StoreAlive ==
    /\ MainAt("store", "record")
    /\ alive' = reg + 1
    /\ UNCHANGED <<i, reg, children, allowed, stray, request_count, signals, cpc, outcome, lost>>

Record ==
    /\ MainAt("record", IF i + 1 = N THEN "spin" ELSE "fork")
    /\ children' = [children EXCEPT ![i] = i + 1]
    /\ i' = i + 1
    /\ UNCHANGED <<reg, allowed, stray, request_count, alive, signals, cpc, outcome, lost>>

Spin == mpc = "spin" /\ alive > 0 /\ UNCHANGED vars

(* Mutant: the loop ends with one child left.                              *)
SpinEndsEarly ==
    /\ MainAt("spin", "done")
    /\ alive <= 1
    /\ outcome' = IF stray THEN "aborted" ELSE "returned"
    /\ UNCHANGED <<i, reg, books, signals, cpc, lost>>

(* allowed[-1] belongs to the size the allocator keeps, so free() aborts   *)
(* if it was written.                                                      *)
SpinEnds ==
    /\ MainAt("spin", "done")
    /\ alive <= 0
    /\ outcome' = IF stray THEN "aborted" ELSE "returned"
    /\ UNCHANGED <<i, reg, books, signals, cpc, lost>>

main == Fork \/ LoadAlive \/ StoreAlive \/ Record \/ Spin \/ SpinEnds
-----------------------------------------------------------------------------
(* The parent's handlers.                                                  *)
get_child_id(pid) ==
    IF \E s \in Slots : children[s] = pid
    THEN CHOOSE s \in Slots : children[s] = pid /\ \A r \in 0..(s - 1) : children[r] # pid
    ELSE -1

(* kill(0, SIGALRM) goes to the whole group: it ends the parent too.       *)
send_allow(to) ==
    IF NoPid \in to
    THEN /\ mpc' = "done" /\ outcome' = "killed"
         /\ alrm' = {p \in Pids : cpc[p] \in {"sleep", "pause"}}
    ELSE /\ alrm' = alrm \cup {p \in to : cpc[p] # "gone"}
         /\ UNCHANGED <<mpc, outcome>>

(* The bookkeeping: each child counts once, and the ones not known yet as  *)
(* one, in allowed[-1].                                                    *)
CountRequest(childnum) ==
    LET new == IF childnum = -1 THEN ~stray ELSE ~allowed[childnum]
    IN  /\ request_count' = IF new THEN request_count + 1 ELSE request_count
        /\ allowed' = [s \in Slots |-> s = childnum \/ allowed[s]]
        /\ stray' = (stray \/ childnum = -1)

(* Mutants: K - 1 requests are enough; the K-th request answers only the   *)
(* child that made it.                                                     *)
AnswerEarly(caller) ==
    send_allow(IF request_count' + 1 = K THEN {children[s] : s \in {t \in Slots : allowed'[t]}}
               ELSE IF request_count' + 1 > K THEN {caller} ELSE {})

AnswerOne(caller) == send_allow(IF request_count' >= K THEN {caller} ELSE {})

Answer(caller) ==
    send_allow(IF request_count' = K THEN {children[s] : s \in {t \in Slots : allowed'[t]}}
               ELSE IF request_count' > K THEN {caller} ELSE {})

request_handler ==
    /\ mpc # "done" /\ usr1 # NoPid
    /\ CountRequest(get_child_id(usr1))
    /\ Answer(usr1)
    /\ usr1' = NoPid
    /\ lost' = (lost \/ get_child_id(usr1) = -1)
    /\ UNCHANGED <<i, reg, children, alive, chld, cpc>>

(* SIGUSR1, the lower number, is delivered first.                          *)
sigchld_handler ==
    /\ mpc # "done" /\ usr1 = NoPid /\ chld # NoPid
    /\ alive' = alive - 1
    /\ children' = [s \in Slots |-> IF s = get_child_id(chld) THEN NoPid ELSE children[s]]
    /\ chld' = NoPid
    /\ lost' = (lost \/ get_child_id(chld) = -1 \/ mpc = "store")
    /\ UNCHANGED <<mainVars, allowed, stray, request_count, usr1, alrm, cpc, outcome>>

(* The children recorded are killed; the kernel's SIGCHLD finds nobody.    *)
sigint_handler ==
    /\ Interrupts /\ mpc # "done"
    /\ mpc' = "done" /\ outcome' = "interrupted"
    /\ cpc' = [p \in Pids |-> IF get_child_id(p) # -1 THEN "gone" ELSE cpc[p]]
    /\ UNCHANGED <<i, reg, books, signals, lost>>

handlers == request_handler \/ sigchld_handler
-----------------------------------------------------------------------------
(* The children.                                                           *)
Ask(p) ==
    /\ cpc[p] = "sleep" /\ p \notin alrm
    /\ cpc' = [cpc EXCEPT ![p] = "pause"]
    /\ usr1' = IF usr1 = NoPid THEN p ELSE usr1
    /\ lost' = (lost \/ usr1 # NoPid)
    /\ UNCHANGED <<mainVars, books, chld, alrm, outcome>>

(* SIGALRM: the handler exits, in pause() or before.                       *)
Exit(p) ==
    /\ cpc[p] \in {"sleep", "pause"} /\ p \in alrm
    /\ cpc' = [cpc EXCEPT ![p] = "gone"]
    /\ alrm' = alrm \ {p}
    /\ chld' = IF chld = NoPid THEN p ELSE chld
    /\ lost' = (lost \/ chld # NoPid)
    /\ UNCHANGED <<mainVars, books, usr1, outcome>>

child(p) == Ask(p) \/ Exit(p)

Ended == mpc = "done" /\ UNCHANGED vars

Next ==
    \/ main \/ handlers \/ sigint_handler
    \/ \E p \in Pids : child(p)
    \/ Ended

Spec == Init /\ [][Next]_vars

(* Processes run, sleeps end and signals are delivered.                    *)
FairSpec ==
    Spec /\ WF_vars(main) /\ WF_vars(handlers) /\ \A p \in Pids : WF_vars(child(p))
-----------------------------------------------------------------------------
(* No child is permitted to go before K children have asked, whatever      *)
(* signals are lost and however early a child asks.                        *)
PermissionNeedsK ==
    (\E p \in Pids : p \in alrm \/ (cpc[p] = "gone" /\ outcome # "interrupted")) =>
        K <= Cardinality({p \in Pids : cpc[p] \in {"pause", "gone"}})

(* The parent does not return from main while a child lives: the unguarded *)
(* alive may be too high, never too low.                                   *)
ParentOutlivesChildren ==
    outcome \in {"returned", "aborted"} => \A p \in Pids : cpc[p] = "gone"

(* If no signal meets one that is pending, and none comes while its child  *)
(* is being recorded, every child is answered and the parent ends.         *)
HandshakeEnds == <>(mpc = "done" \/ lost)
=============================================================================

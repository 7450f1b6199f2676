----------------------------- MODULE BarberShop -----------------------------
(***************************************************************************)
(* What lab7 promises its customers, without semaphores: clients wait in a *)
(* queue of Chairs places, are called first come first served and one at a *)
(* time, and the barber dozes only while nobody waits.                     *)
(***************************************************************************)
EXTENDS Integers, Sequences

CONSTANTS Clients, Chairs, Repeats

VARIABLES
    waiting,    \* clients in the queue, in the order they came
    called,     \* the client whose turn it is, if any
    remaining,  \* haircuts every client still wants
    asleep      \* the barber sleeps

shopVars == <<waiting, called, remaining, asleep>>

Waits(c) == \E i \in 1..Len(waiting) : waiting[i] = c

ShopInit ==
    /\ waiting = <<>>
    /\ called = {}
    /\ remaining = [c \in Clients |-> Repeats]
    /\ asleep = FALSE

(* A client that finds the barber asleep wakes him and is served at once.  *)
Wake(c) ==
    /\ asleep
    /\ remaining[c] > 0
    /\ waiting = <<>> /\ called = {}
    /\ asleep' = FALSE
    /\ called' = {c}
    /\ UNCHANGED <<waiting, remaining>>

Join(c) ==
    /\ ~asleep
    /\ remaining[c] > 0
    /\ c \notin called /\ ~Waits(c)
    /\ Len(waiting) < Chairs
    /\ waiting' = Append(waiting, c)
    /\ UNCHANGED <<called, remaining, asleep>>

CallNext ==
    /\ called = {}
    /\ waiting # <<>>
    /\ called' = {Head(waiting)}
    /\ waiting' = Tail(waiting)
    /\ UNCHANGED <<remaining, asleep>>

Serve(c) ==
    /\ called = {c}
    /\ remaining[c] > 0
    /\ called' = {}
    /\ remaining' = [remaining EXCEPT ![c] = @ - 1]
    /\ UNCHANGED <<waiting, asleep>>

Doze ==
    /\ ~asleep
    /\ waiting = <<>> /\ called = {}
    /\ asleep' = TRUE
    /\ UNCHANGED <<waiting, called, remaining>>

ShopNext ==
    \/ \E c \in Clients : Wake(c) \/ Join(c) \/ Serve(c)
    \/ CallNext
    \/ Doze

ShopSpec == ShopInit /\ [][ShopNext]_shopVars
=============================================================================

---------------------------- MODULE ServiceQueue ----------------------------
(***************************************************************************)
(* What lab6 promises its clients: requests are answered one by one in the *)
(* order they arrive, each once and to the client that asked.  A server    *)
(* that is told to end first answers all it has; one that breaks, or is    *)
(* asked too late, answers no more.                                        *)
(***************************************************************************)
EXTENDS Integers, Sequences

CONSTANTS
    Clients,
    Numbers    \* what a client numbers its requests with

VARIABLES
    pending,   \* <<client, number>> of the requests not answered, oldest first
    replies,   \* the answers each client has not read yet
    service    \* "up", "ended" or "broken"

serviceVars == <<pending, replies, service>>

HasOpen(c) ==
    \/ replies[c] # <<>>
    \/ \E i \in 1..Len(pending) : pending[i][1] = c

ServiceInit ==
    /\ pending = <<>>
    /\ replies = [c \in Clients |-> <<>>]
    /\ service = "up"

(* A client asks one thing at a time.  It may do so even when it is late:  *)
(* nobody tells it that the server has closed.                             *)
Ask(c) ==
    /\ ~HasOpen(c)
    /\ \E n \in Numbers : pending' = Append(pending, <<c, n>>)
    /\ UNCHANGED <<replies, service>>

Answer ==
    /\ service = "up"
    /\ pending # <<>>
    /\ LET c == Head(pending)[1]
       IN  replies' = [replies EXCEPT ![c] = Append(@, Head(pending)[2])]
    /\ pending' = Tail(pending)
    /\ UNCHANGED service

Read(c) ==
    /\ replies[c] # <<>>
    /\ replies' = [replies EXCEPT ![c] = Tail(@)]
    /\ UNCHANGED <<pending, service>>

(* A client leaves and takes its mailbox with it.                          *)
Leave(c) ==
    /\ replies' = [replies EXCEPT ![c] = <<>>]
    /\ UNCHANGED <<pending, service>>

(* As it was told to: with every request answered.                         *)
End ==
    /\ service = "up"
    /\ pending = <<>>
    /\ service' = "ended"
    /\ UNCHANGED <<pending, replies>>

(* What may be left of the requests when the server goes: the one in its   *)
(* hand dies with it, and the others may be destroyed.                     *)
Remains == {pending, <<>>} \cup IF pending = <<>> THEN {} ELSE {Tail(pending)}

Break ==
    /\ service = "up"
    /\ service' = "broken"
    /\ pending' \in Remains
    /\ UNCHANGED replies

Vanish ==
    /\ service # "up"
    /\ pending' \in Remains
    /\ UNCHANGED <<replies, service>>

ServiceNext ==
    \/ \E c \in Clients : Ask(c) \/ Read(c) \/ Leave(c)
    \/ Answer \/ End \/ Break \/ Vanish

ServiceSpec == ServiceInit /\ [][ServiceNext]_serviceVars
=============================================================================

------------------------------ MODULE MqServer ------------------------------
(***************************************************************************)
(* The message queue server of lab6 and its clients.  zad1 uses System V   *)
(* queues, which vanish under whoever still uses them; zad2 uses POSIX     *)
(* queues, which live on until the last descriptor is closed, and has the  *)
(* clients announce with STOP that they leave.                             *)
(*                                                                         *)
(* A request (MIRROR, CALC, TIME) is its number, and so is its answer.     *)
(* Request 0 is the registration.                                          *)
(***************************************************************************)
EXTENDS Integers, Sequences, FiniteSets

CONSTANTS
    Clients,
    Variants,         \* FALSE for the server of zad1, TRUE for that of zad2
    Capacity,         \* messages the server's queue holds
    Requests,         \* bound on the requests of one client
    Interruptible,    \* the clients that may be sent SIGINT
    ServerInterrupts  \* whether the server may be

ASSUME MqAssumption ==
    /\ IsFiniteSet(Clients)
    /\ Variants \subseteq BOOLEAN /\ ServerInterrupts \in BOOLEAN
    /\ Capacity \in Nat \ {0}
    /\ Requests \in Nat
    /\ Interruptible \subseteq Clients

Unregistered == -1
NoQueue == "no queue"
Nothing == [type |-> "nothing"]

ASSUME NoQueueAssumption == NoQueue \notin Clients

Types == {"REGISTER", "REQUEST", "CALC_BY_ZERO", "END", "STOP"}
Ids == 0..(Cardinality(Clients) - 1)

Messages == [type: Types, from: Clients, sender_id: Ids \cup {Unregistered}, n: 0..Requests]
Answers == [n: 0..Requests, id: Ids]

VARIABLES
    posix,          \* the program is that of zad2
    spc,            \* the server's position
    should_end,     \* END was received
    outcome,        \* why the server left its loop
    buff,           \* the message in the server's hand
    server_queue,   \* the messages in its queue
    queue_removed,  \* the queue has been removed, or its name has
    client_queues,  \* whose queue each client number stands for
    cpc,            \* every client's position
    client_id,      \* its number
    asked,          \* its requests so far
    inbox,          \* the answers in its queue
    has_queue       \* its queue exists

serverVars == <<posix, spc, should_end, outcome, buff, queue_removed, client_queues>>
clientVars == <<posix, cpc, client_id, asked, has_queue>>
vars == <<serverVars, clientVars, server_queue, inbox>>

TypeOK ==
    /\ posix \in Variants
    /\ spc \in {"receive", "handle", "onexit", "gone"}
    /\ should_end \in BOOLEAN
    /\ outcome \in {"running", "ended", "interrupted", "failed", "killed"}
    /\ buff \in Messages \cup {Nothing}
    /\ server_queue \in Seq(Messages) /\ Len(server_queue) <= Capacity
    /\ queue_removed \in BOOLEAN
    /\ client_queues \in Seq(Clients \cup {NoQueue})
    /\ cpc \in [Clients -> {"start", "register", "wait_id", "ready", "asking", "wait", "ending",
                            "onexit", "unlink", "left"}]
    /\ client_id \in [Clients -> Ids \cup {Unregistered}]
    /\ asked \in [Clients -> 0..Requests]
    /\ inbox \in [Clients -> Seq(Answers)]
    /\ has_queue \in [Clients -> BOOLEAN]

Init ==
    /\ posix \in Variants
    /\ spc = "receive"
    /\ should_end = FALSE
    /\ outcome = "running"
    /\ buff = Nothing
    /\ server_queue = <<>>
    /\ queue_removed = FALSE
    /\ client_queues = <<>>
    /\ cpc = [c \in Clients |-> "start"]
    /\ client_id = [c \in Clients |-> Unregistered]
    /\ asked = [c \in Clients |-> 0]
    /\ inbox = [c \in Clients |-> <<>>]
    /\ has_queue = [c \in Clients |-> FALSE]
-----------------------------------------------------------------------------
(* The clients.                                                            *)
ClientAt(c, from, to) == cpc[c] = from /\ cpc' = [cpc EXCEPT ![c] = to]

(* main up to atexit(): opens the server's queue, creates its own.         *)
OpenQueues(c) ==
    /\ ~queue_removed
    /\ ClientAt(c, "start", "register")
    /\ has_queue' = [has_queue EXCEPT ![c] = TRUE]
    /\ UNCHANGED <<client_id, asked, serverVars, server_queue, inbox>>

NoServer(c) ==
    /\ queue_removed
    /\ ClientAt(c, "start", "left")
    /\ UNCHANGED <<client_id, asked, has_queue, serverVars, server_queue, inbox>>

(* msgsnd and mq_send wait while the queue is full.  A System V queue that *)
(* was removed makes them fail, also while they wait; a POSIX queue that   *)
(* was unlinked keeps taking messages.                                     *)
Reachable == posix \/ ~queue_removed

Sends(c, type, n) ==
    /\ Reachable
    /\ Len(server_queue) < Capacity
    /\ server_queue' = Append(server_queue,
           [type |-> type, from |-> c, sender_id |-> client_id[c], n |-> n])

Register(c) ==
    /\ ClientAt(c, "register", "wait_id")
    /\ Sends(c, "REGISTER", 0)
    /\ UNCHANGED <<client_id, asked, has_queue, serverVars, inbox>>

(* The next line of input: a request or END.                               *)
Command(c) ==
    /\ \/ /\ asked[c] < Requests
          /\ ClientAt(c, "ready", "asking")
          /\ asked' = [asked EXCEPT ![c] = @ + 1]
       \/ ClientAt(c, "ready", "ending") /\ UNCHANGED asked
    /\ UNCHANGED <<client_id, has_queue, serverVars, server_queue, inbox>>

Request(c) ==
    /\ ClientAt(c, "asking", "wait")
    /\ \E type \in {"REQUEST", "CALC_BY_ZERO"} : Sends(c, type, asked[c])
    /\ UNCHANGED <<client_id, asked, has_queue, serverVars, inbox>>

SendEnd(c) ==
    /\ ClientAt(c, "ending", "onexit")
    /\ Sends(c, "END", 0)
    /\ UNCHANGED <<client_id, asked, has_queue, serverVars, inbox>>

EndOfInput(c) ==
    /\ ClientAt(c, "ready", "onexit")
    /\ UNCHANGED <<client_id, asked, has_queue, serverVars, server_queue, inbox>>

(* OK() around msgsnd: the client exits.                                   *)
SendFails(c) ==
    /\ ~Reachable
    /\ \E from \in {"register", "asking", "ending"} : ClientAt(c, from, "onexit")
    /\ UNCHANGED <<client_id, asked, has_queue, serverVars, server_queue, inbox>>

(* SIGINT, also while the client waits to send or to receive.              *)
Interrupt(c) ==
    /\ c \in Interruptible
    /\ \E from \in {"register", "wait_id", "ready", "asking", "wait", "ending"} :
           ClientAt(c, from, "onexit")
    /\ UNCHANGED <<client_id, asked, has_queue, serverVars, server_queue, inbox>>

TakeAnswer(c) == inbox[c] # <<>> /\ inbox' = [inbox EXCEPT ![c] = Tail(@)]

ReceiveId(c) ==
    /\ ClientAt(c, "wait_id", "ready")
    /\ TakeAnswer(c)
    /\ client_id' = [client_id EXCEPT ![c] = Head(inbox[c]).id]
    /\ UNCHANGED <<asked, has_queue, serverVars, server_queue>>

ReceiveAnswer(c) ==
    /\ ClientAt(c, "wait", "ready")
    /\ TakeAnswer(c)
    /\ UNCHANGED <<client_id, asked, has_queue, serverVars, server_queue>>

(* onexit: zad2 sends STOP before it gives up its queue, zad1 just goes.   *)
SendStop(c) ==
    /\ posix
    /\ ClientAt(c, "onexit", "unlink")
    /\ Sends(c, "STOP", 0)
    /\ UNCHANGED <<client_id, asked, has_queue, serverVars, inbox>>

RemoveQueue(c) ==
    /\ ClientAt(c, IF posix THEN "unlink" ELSE "onexit", "left")
    /\ has_queue' = [has_queue EXCEPT ![c] = FALSE]
    /\ inbox' = [inbox EXCEPT ![c] = <<>>]
    /\ UNCHANGED <<client_id, asked, serverVars, server_queue>>

(* What a client does by itself, and what it does when its user types.     *)
Works(c) ==
    \/ OpenQueues(c) \/ NoServer(c) \/ Register(c) \/ Request(c) \/ SendEnd(c)
    \/ SendFails(c) \/ ReceiveId(c) \/ ReceiveAnswer(c) \/ SendStop(c) \/ RemoveQueue(c)

Input(c) == Command(c) \/ EndOfInput(c)
-----------------------------------------------------------------------------
(* The server.                                                             *)
Exits(why) == spc' = "onexit" /\ outcome' = why

Receive ==
    /\ spc = "receive"
    /\ server_queue # <<>>
    /\ buff' = Head(server_queue)
    /\ server_queue' = Tail(server_queue)
    /\ spc' = "handle"
    /\ UNCHANGED <<should_end, outcome, queue_removed, client_queues, clientVars, inbox>>

(* Mutant: END ends the loop at once.                                      *)
QueueLeft ==
    /\ spc = "receive"
    /\ should_end
    /\ Exits("ended")
    /\ UNCHANGED <<should_end, buff, queue_removed, client_queues, server_queue,
                   clientVars, inbox>>

(* After END the server does not wait: the loop ends with the queue empty. *)
QueueDrained ==
    /\ spc = "receive"
    /\ should_end /\ server_queue = <<>>
    /\ Exits("ended")
    /\ UNCHANGED <<should_end, buff, queue_removed, client_queues, server_queue,
                   clientVars, inbox>>

(* send_to: fails if the client's queue is gone, which the server of zad2, *)
(* holding it open, never sees; an entry cleared by STOP is no descriptor. *)
CanSendTo(id) ==
    LET c == client_queues'[id + 1]
    IN  c # NoQueue /\ (posix \/ has_queue[c])

SendTo(id, n) ==
    IF CanSendTo(id)
    THEN /\ inbox' = [inbox EXCEPT ![client_queues'[id + 1]] =
                          Append(@, [n |-> n, id |-> id])]
         /\ spc' = "receive" /\ buff' = Nothing
         /\ UNCHANGED outcome
    ELSE Exits("failed") /\ UNCHANGED <<inbox, buff>>

Handles(type) == spc = "handle" /\ buff.type = type

(* Mutant: client_idx is not advanced.                                     *)
HandleRegisterSameId ==
    /\ Handles("REGISTER")
    /\ client_queues' = <<IF posix /\ ~has_queue[buff.from] THEN NoQueue ELSE buff.from>>
    /\ SendTo(0, buff.n)
    /\ UNCHANGED <<should_end, queue_removed, server_queue, clientVars>>

(* zad1 stores whatever queue identifier it is told; zad2 opens the queue, *)
(* and stores the error if the client has removed it.                      *)
HandleRegister ==
    /\ Handles("REGISTER")
    /\ client_queues' = Append(client_queues,
           IF posix /\ ~has_queue[buff.from] THEN NoQueue ELSE buff.from)
    /\ SendTo(Len(client_queues), buff.n)
    /\ UNCHANGED <<should_end, queue_removed, server_queue, clientVars>>

(* Mutant: once END was received requests are dropped.                     *)
HandleRequestRefusing ==
    /\ Handles("REQUEST")
    /\ UNCHANGED client_queues
    /\ IF should_end THEN /\ spc' = "receive" /\ buff' = Nothing
                          /\ UNCHANGED <<inbox, outcome>>
                     ELSE SendTo(buff.sender_id, buff.n)
    /\ UNCHANGED <<should_end, queue_removed, server_queue, clientVars>>

(* Mutant: the answer goes to the client that registered last.             *)
HandleRequestToLast ==
    /\ Handles("REQUEST")
    /\ UNCHANGED client_queues
    /\ SendTo(Len(client_queues) - 1, buff.n)
    /\ UNCHANGED <<should_end, queue_removed, server_queue, clientVars>>

(* handle_mirror, handle_calc and handle_time.                             *)
HandleRequest ==
    /\ Handles("REQUEST")
    /\ UNCHANGED client_queues
    /\ SendTo(buff.sender_id, buff.n)
    /\ UNCHANGED <<should_end, queue_removed, server_queue, clientVars>>

(* handle_calc divides by zero: SIGFPE, and no atexit.  The queue stays,   *)
(* the message in hand does not.                                           *)
DivideByZero ==
    /\ Handles("CALC_BY_ZERO")
    /\ spc' = "gone" /\ outcome' = "killed"
    /\ buff' = Nothing
    /\ UNCHANGED <<should_end, queue_removed, client_queues, server_queue, clientVars, inbox>>

HandleEnd ==
    /\ Handles("END")
    /\ should_end' = TRUE
    /\ spc' = "receive" /\ buff' = Nothing
    /\ UNCHANGED <<outcome, queue_removed, client_queues, server_queue, clientVars, inbox>>

(* Mutant: STOP clears the entry of the client that registered first.      *)
HandleStopFirst ==
    /\ Handles("STOP")
    /\ client_queues' = IF client_queues = <<>> THEN client_queues
                        ELSE [client_queues EXCEPT ![1] = NoQueue]
    /\ spc' = "receive" /\ buff' = Nothing
    /\ UNCHANGED <<should_end, outcome, queue_removed, server_queue, clientVars, inbox>>

(* A client interrupted before it knew its number says -1: client_queues[  *)
(* -1], in a build with -O0, is padding before the array.                  *)
HandleStop ==
    /\ Handles("STOP")
    /\ client_queues' = IF buff.sender_id = Unregistered THEN client_queues
                        ELSE [client_queues EXCEPT ![buff.sender_id + 1] = NoQueue]
    /\ spc' = "receive" /\ buff' = Nothing
    /\ UNCHANGED <<should_end, outcome, queue_removed, server_queue, clientVars, inbox>>

ServerInterrupt ==
    /\ ServerInterrupts
    /\ spc \in {"receive", "handle"}
    /\ Exits("interrupted")
    /\ UNCHANGED <<should_end, buff, queue_removed, client_queues, server_queue,
                   clientVars, inbox>>

(* IPC_RMID destroys the queue and the messages in it; mq_unlink takes the *)
(* name only, and the messages stay for as long as clients hold the queue. *)
OnExit ==
    /\ spc = "onexit"
    /\ spc' = "gone"
    /\ queue_removed' = TRUE
    /\ server_queue' = IF posix THEN server_queue ELSE <<>>
    /\ buff' = Nothing
    /\ UNCHANGED <<should_end, outcome, client_queues, clientVars, inbox>>

Server ==
    \/ Receive \/ QueueDrained \/ HandleRegister \/ HandleRequest
    \/ DivideByZero \/ HandleEnd \/ HandleStop \/ OnExit

(* Nothing more happens: the server waits for clients or is gone, and the  *)
(* clients have left, wait for an answer that will not come, or wait to    *)
(* send to a queue nobody empties.                                         *)
Quiet ==
    /\ \/ spc = "gone"
       \/ spc = "receive" /\ server_queue = <<>>
    /\ \A c \in Clients :
           \/ cpc[c] = "left"
           \/ spc = "gone" /\ cpc[c] \in {"wait_id", "wait"}
           \/ spc = "gone" /\ Reachable /\ Len(server_queue) = Capacity
    /\ UNCHANGED vars

Next ==
    \/ Server \/ ServerInterrupt
    \/ \E c \in Clients : Works(c) \/ Input(c) \/ Interrupt(c)
    \/ Quiet

Spec == Init /\ [][Next]_vars

(* Processes that can run do run; nobody has to type a command or ^C.      *)
FairSpec == Spec /\ WF_vars(Server) /\ \A c \in Clients : WF_vars(Works(c))
-----------------------------------------------------------------------------
Waits(c) == cpc[c] \in {"wait_id", "wait"}

(* The messages on their way to the server, the one in its hand first.     *)
InFlight == IF buff = Nothing THEN server_queue ELSE <<buff>> \o server_queue

Asks(m) == m.type \in {"REGISTER", "REQUEST", "CALC_BY_ZERO"}

OpenRequests(c) == {i \in 1..Len(InFlight) : Asks(InFlight[i]) /\ InFlight[i].from = c}

(* Until the server is gone a client that waits has its request on its     *)
(* way, once, or its answer waiting, once, also while the queue is drained *)
(* after END, and no answer goes to somebody else.  So send_to never waits *)
(* for room either.  Once the server is gone requests may be lost, but     *)
(* none has been answered and is still open.                               *)
RequestAccounted ==
    \A c \in Clients :
        /\ Waits(c) /\ spc # "gone" => Cardinality(OpenRequests(c)) + Len(inbox[c]) = 1
        /\ Waits(c) => Cardinality(OpenRequests(c)) + Len(inbox[c]) <= 1
        /\ ~Waits(c) /\ cpc[c] \notin {"onexit", "unlink", "left"} =>
               OpenRequests(c) = {} /\ inbox[c] = <<>>
        /\ Len(inbox[c]) <= 1
        /\ inbox[c] # <<>> => Head(inbox[c]).n = asked[c]

(* Client numbers are never shared, and stand for the client that was told *)
(* the number until it leaves.                                             *)
NumbersDistinct ==
    \A c \in Clients : client_id[c] # Unregistered =>
        /\ client_id[c] < Len(client_queues)
        /\ cpc[c] \notin {"unlink", "left"} => client_queues[client_id[c] + 1] = c
        /\ \A d \in Clients : client_id[d] = client_id[c] => d = c

(* The server gives up on an answer only if the client that asked left     *)
(* without waiting for it; zad2's server only if it left while it was      *)
(* being registered.                                                       *)
FailsOnlyForLeavers ==
    outcome = "failed" /\ spc = "onexit" =>
        /\ cpc[buff.from] \in {"unlink", "left"}
        /\ buff.from \in Interruptible
        /\ posix => buff.type = "REGISTER"

(* The requests that are not answered, in the order they were sent.        *)
OpenPlaces(messages) == {i \in 1..Len(messages) : Asks(messages[i])}

Nth(S, k) == CHOOSE i \in S : Cardinality({j \in S : j <= i}) = k

OpenOnes(messages) ==
    [k \in 1..Cardinality(OpenPlaces(messages)) |->
         LET m == messages[Nth(OpenPlaces(messages), k)] IN <<m.from, m.n>>]

NumbersOf(answers) == [i \in 1..Len(answers) |-> answers[i].n]

Pending == OpenOnes(InFlight)
Replies == [c \in Clients |-> NumbersOf(inbox[c])]

(* The queues implement a service that answers in order of arrival, and    *)
(* that ends, when it is told to, with every request answered.  What comes *)
(* later may be destroyed with the queue.                                  *)
Condition == CASE outcome = "running" -> "up"
               [] outcome = "ended" -> "ended"
               [] OTHER -> "broken"

Service == INSTANCE ServiceQueue WITH
    Numbers <- 0..Requests,
    pending <- Pending,
    replies <- Replies,
    service <- Condition

ImplementsService == Service!ServiceSpec

(* While the server runs, a client that waits gets its answer and a client *)
(* that leaves gets away: no send and no receive blocks for ever.          *)
Served ==
    \A c \in Clients :
        (Waits(c) \/ cpc[c] \in {"register", "asking", "ending", "onexit", "unlink"})
            ~> (cpc[c] \in {"ready", "left"} \/ outcome # "running")
=============================================================================

--------------------------- MODULE MqServerProofs ---------------------------
(***************************************************************************)
(* Proofs about MqServer, for any number of clients, requests and messages *)
(* that the server's queue holds, and for both programs.                   *)
(*                                                                         *)
(* What a client has told the server and not yet seen answered is known    *)
(* from the messages in flight: each carries the number its sender has,    *)
(* and at most one of them asks for an answer.  STOP is the last of a      *)
(* client, so nothing of a client follows once its entry is cleared.       *)
(***************************************************************************)
EXTENDS MqServer, FiniteSetTheorems, SequenceTheorems, TLAPS

Leaving(c) == cpc[c] \in {"onexit", "unlink", "left"}
Stopped(c) == cpc[c] \in {"unlink", "left"}
Places == 1..Len(InFlight)
Entries == 1..Len(client_queues)
HasEntry(c) == \E e \in Entries : client_queues[e] = c
Asking(c) == \E k \in Places : Asks(InFlight[k]) /\ InFlight[k].from = c
Serving == spc \in {"receive", "handle"}

ServerShape ==
    /\ spc = "receive" => buff = Nothing
    /\ spc = "handle" => buff # Nothing
    /\ outcome = "failed" /\ spc = "onexit" => buff # Nothing
    /\ Serving <=> outcome = "running"

ClientShape ==
    \A c \in Clients :
        /\ has_queue[c] <=> cpc[c] \notin {"start", "left"}
        /\ cpc[c] = "unlink" => posix
        /\ cpc[c] \in {"start", "register"} => asked[c] = 0

(* What a message in flight says is still so.                              *)
Truthful(m) ==
    /\ m.sender_id = client_id[m.from]
    /\ Asks(m) =>
           /\ m.n = asked[m.from]
           /\ inbox[m.from] = <<>>
           /\ Waits(m.from) \/ (Leaving(m.from) /\ m.from \in Interruptible)
    /\ m.type = "REGISTER" =>
           client_id[m.from] = Unregistered /\ (Serving => ~HasEntry(m.from))
    /\ m.type \in {"REQUEST", "CALC_BY_ZERO"} => client_id[m.from] # Unregistered
    /\ m.type = "END" => Leaving(m.from)
    /\ m.type = "STOP" => Stopped(m.from) /\ posix

MessagesTrue == \A k \in Places : Truthful(InFlight[k])

(* A client asks for one thing at a time, and STOP is the last it says.    *)
MessagesInOrder ==
    \A j, k \in Places : j < k /\ InFlight[j].from = InFlight[k].from =>
        /\ ~(Asks(InFlight[j]) /\ Asks(InFlight[k]))
        /\ InFlight[j].type # "STOP"

InboxRight ==
    \A c \in Clients :
        /\ Len(inbox[c]) <= 1
        /\ inbox[c] # <<>> => Head(inbox[c]).n = asked[c] /\ (Waits(c) \/ Leaving(c))
        /\ Waits(c) /\ spc # "gone" => Asking(c) \/ inbox[c] # <<>>

(* Whose number an entry is, and when it has been cleared.                 *)
NumberKnown ==
    \A c \in Clients :
        /\ client_id[c] # Unregistered =>
               /\ client_id[c] + 1 \in Entries
               /\ \/ client_queues[client_id[c] + 1] = c
                  \/ /\ client_queues[client_id[c] + 1] = NoQueue
                     /\ Stopped(c) /\ ~HasEntry(c)
                     /\ \A k \in Places : InFlight[k].from # c
        /\ cpc[c] \in {"start", "register"} => client_id[c] = Unregistered /\ ~HasEntry(c)
        /\ cpc[c] = "wait_id" =>
               /\ client_id[c] = Unregistered
               /\ inbox[c] # <<>> => /\ Head(inbox[c]).id + 1 \in Entries
                                     /\ client_queues[Head(inbox[c]).id + 1] = c
        /\ cpc[c] \in {"ready", "asking", "wait", "ending"} => client_id[c] # Unregistered

EntriesOwned ==
    /\ \A d, e \in Entries :
           client_queues[d] = client_queues[e] /\ client_queues[d] # NoQueue => d = e
    /\ \A c, d \in Clients : client_id[c] = client_id[d] /\ client_id[c] # Unregistered => c = d
    /\ Serving => \A e \in Entries :
           client_queues[e] # NoQueue \/ \E c \in Clients : client_id[c] = e - 1

IInv ==
    /\ TypeOK /\ ServerShape /\ ClientShape /\ MessagesTrue /\ MessagesInOrder
    /\ InboxRight /\ NumberKnown /\ EntriesOwned /\ FailsOnlyForLeavers
-----------------------------------------------------------------------------
LEMMA InFlightShape ==
  ASSUME TypeOK
  PROVE  /\ InFlight \in Seq(Messages) /\ Len(InFlight) \in Nat
         /\ buff = Nothing => InFlight = server_queue
         /\ buff # Nothing =>
                /\ Len(InFlight) = Len(server_queue) + 1
                /\ InFlight[1] = buff
                /\ \A k \in 1..Len(server_queue) : InFlight[k + 1] = server_queue[k]
         /\ \A k \in Places : InFlight[k] \in Messages
<1>1. server_queue \in Seq(Messages) /\ (buff # Nothing => buff \in Messages)
  BY DEF TypeOK
<1>2. CASE buff = Nothing
  <2>1. InFlight = server_queue
    BY <1>2 DEF InFlight
  <2> QED
    BY <1>1, <1>2, <2>1 DEF Places
<1>3. CASE buff # Nothing
  <2>1. InFlight = <<buff>> \o server_queue
    BY <1>3 DEF InFlight
  <2>2. buff \in Messages
    BY <1>1, <1>3
  <2> HIDE DEF InFlight
  <2>3. /\ InFlight \in Seq(Messages)
        /\ Len(InFlight) = Len(server_queue) + 1
        /\ InFlight[1] = buff
        /\ \A k \in 1..Len(server_queue) : InFlight[k + 1] = server_queue[k]
    BY <1>1, <2>1, <2>2
  <2> QED
    BY <1>1, <1>3, <2>3 DEF Places
<1> QED
  BY <1>2, <1>3

(* A message sent is the last in flight.                                   *)
LEMMA MessageSent ==
  ASSUME TypeOK, NEW c \in Clients, NEW type \in Types, NEW n \in 0..Requests,
         Sends(c, type, n), buff' = buff
  PROVE  LET m == [type |-> type, from |-> c, sender_id |-> client_id[c], n |-> n]
         IN  /\ server_queue' \in Seq(Messages) /\ Len(server_queue') <= Capacity
             /\ m \in Messages
             /\ Len(InFlight') = Len(InFlight) + 1
             /\ \A k \in Places : InFlight'[k] = InFlight[k]
             /\ InFlight'[Len(InFlight) + 1] = m
<1> DEFINE m == [type |-> type, from |-> c, sender_id |-> client_id[c], n |-> n]
<1>1. m \in Messages
  BY DEF TypeOK, Messages
<1>2. /\ server_queue \in Seq(Messages)
      /\ server_queue' = Append(server_queue, m)
      /\ Len(server_queue) < Capacity
  BY DEF TypeOK, Sends
<1> HIDE DEF m
<1>3. /\ server_queue' \in Seq(Messages) /\ Len(server_queue') = Len(server_queue) + 1
      /\ \A k \in 1..Len(server_queue) : server_queue'[k] = server_queue[k]
      /\ server_queue'[Len(server_queue) + 1] = m
  BY <1>1, <1>2
<1>4. Len(server_queue') <= Capacity
  BY <1>2, <1>3, MqAssumption
<1>5. InFlight' = IF buff = Nothing THEN server_queue' ELSE <<buff>> \o server_queue'
  BY DEF InFlight
<1>6. CASE buff = Nothing
  <2>1. InFlight' = server_queue' /\ InFlight = server_queue
    BY <1>5, <1>6 DEF InFlight
  <2> QED
    BY <1>1, <1>2, <1>3, <1>4, <2>1 DEF Places, m
<1>7. CASE buff # Nothing
  <2>1. /\ InFlight \in Seq(Messages) /\ InFlight' = Append(InFlight, m)
    <3>1. InFlight' = <<buff>> \o Append(server_queue, m) /\ InFlight = <<buff>> \o server_queue
      BY <1>2, <1>5, <1>7 DEF InFlight
    <3>2. buff \in Messages
      BY <1>7 DEF TypeOK
    <3> QED
      BY <1>1, <1>2, <3>1, <3>2, InFlightShape
  <2> QED
    BY <1>1, <1>3, <1>4, <2>1 DEF Places, m
<1> QED
  BY <1>6, <1>7
-----------------------------------------------------------------------------
(* What a client does between its receives: it moves on, silently or by    *)
(* sending a message.                                                      *)
SilentPath(c, from, to) ==
    \/ from = "start" /\ to \in {"register", "left"}
    \/ from = "ready" /\ to \in {"asking", "ending", "onexit"}
    \/ from \in {"register", "asking", "ending"} /\ to = "onexit"
    \/ from \in {"wait_id", "wait"} /\ to = "onexit" /\ c \in Interruptible

SpeakingPath(from, to, type) ==
    \/ from = "register" /\ to = "wait_id" /\ type = "REGISTER"
    \/ from = "asking" /\ to = "wait" /\ type \in {"REQUEST", "CALC_BY_ZERO"}
    \/ from = "ending" /\ to = "onexit" /\ type = "END"
    \/ from = "onexit" /\ to = "unlink" /\ type = "STOP" /\ posix

Moves(c, from, to) ==
    /\ ClientAt(c, from, to)
    /\ IF to = "asking" THEN asked[c] < Requests /\ asked' = [asked EXCEPT ![c] = @ + 1]
                        ELSE UNCHANGED asked
    /\ has_queue' = IF to = "register" THEN [has_queue EXCEPT ![c] = TRUE] ELSE has_queue
    /\ UNCHANGED <<client_id, serverVars, inbox>>

SilentMove(c, from, to) ==
    SilentPath(c, from, to) /\ Moves(c, from, to) /\ UNCHANGED server_queue

SpeakingMove(c, from, to, type, n) ==
    /\ SpeakingPath(from, to, type) /\ Moves(c, from, to)
    /\ n = IF Asks([type |-> type]) THEN asked[c] ELSE 0
    /\ Sends(c, type, n)

(* Neither falsifies what is in flight, nor what is known of the others.   *)
LEMMA MoveKeeps ==
  ASSUME IInv, NEW c \in Clients, NEW from, NEW to, Moves(c, from, to),
         SilentPath(c, from, to) \/ \E type \in Types : SpeakingPath(from, to, type)
  PROVE  /\ ServerShape' /\ ClientShape' /\ EntriesOwned' /\ FailsOnlyForLeavers'
         /\ cpc' \in [Clients -> {"start", "register", "wait_id", "ready", "asking", "wait",
                                  "ending", "onexit", "unlink", "left"}]
         /\ asked' \in [Clients -> 0..Requests]
         /\ has_queue' \in [Clients -> BOOLEAN]
         /\ \A m \in Messages : (\E k \in Places : m = InFlight[k]) => Truthful(m)'
<1> USE DEF Moves, ClientAt
<1>1. /\ from = cpc[c] /\ cpc' = [cpc EXCEPT ![c] = to]
      /\ cpc \in [Clients -> {"start", "register", "wait_id", "ready", "asking", "wait",
                              "ending", "onexit", "unlink", "left"}]
      /\ asked \in [Clients -> 0..Requests] /\ has_queue \in [Clients -> BOOLEAN]
      /\ UNCHANGED <<client_id, inbox, posix, spc, should_end, outcome, buff, queue_removed,
                     client_queues>>
  BY DEF IInv, TypeOK, serverVars
<1>2. to \in {"register", "wait_id", "asking", "wait", "ending", "onexit", "unlink", "left"}
  BY DEF SilentPath, SpeakingPath
<1>3. asked' \in [Clients -> 0..Requests] /\ \A d \in Clients : d # c => asked'[d] = asked[d]
  BY <1>1, MqAssumption
<1>4. has_queue' \in [Clients -> BOOLEAN]
  BY <1>1
<1>5. cpc' \in [Clients -> {"start", "register", "wait_id", "ready", "asking", "wait",
                           "ending", "onexit", "unlink", "left"}]
  BY <1>1, <1>2
<1>6. ServerShape'
  BY <1>1 DEF IInv, ServerShape, Serving
<1>7. ClientShape'
  <2>1. has_queue'[c] <=> to \notin {"start", "left"}
    BY <1>1 DEF IInv, ClientShape, SilentPath, SpeakingPath
  <2>2. (to = "unlink" => posix) /\ (to = "register" => asked'[c] = 0)
    BY <1>1 DEF IInv, ClientShape, SilentPath, SpeakingPath
  <2>3. \A d \in Clients : d # c => cpc'[d] = cpc[d] /\ has_queue'[d] = has_queue[d]
    BY <1>1
  <2>4. cpc'[c] = to /\ to # "start"
    BY <1>1, <1>2
  <2>5. \A d \in Clients : has_queue'[d] <=> cpc'[d] \notin {"start", "left"}
    BY <2>1, <2>3, <2>4 DEF IInv, ClientShape
  <2> QED
    BY <1>1, <1>3, <2>2, <2>3, <2>4, <2>5 DEF IInv, ClientShape
<1>8. EntriesOwned'
  BY <1>1 DEF IInv, EntriesOwned, Entries, Serving
<1>9. FailsOnlyForLeavers'
  <2>1. outcome = "failed" /\ spc = "onexit" => buff.from \in Clients
    BY MqAssumption DEF IInv, TypeOK, ServerShape, Messages, FailsOnlyForLeavers
  <2>2. cpc[c] = "unlink" \/ cpc[c] = "left" => FALSE
    BY <1>1 DEF SilentPath, SpeakingPath
  <2> QED
    BY <1>1, <2>1, <2>2 DEF IInv, FailsOnlyForLeavers
<1>10. \A m \in Messages : (\E k \in Places : m = InFlight[k]) => Truthful(m)'
  <2> SUFFICES ASSUME NEW m \in Messages, Truthful(m) PROVE Truthful(m)'
    BY DEF IInv, MessagesTrue
  <2>1. m.from \in Clients
    BY DEF Messages
  <2>2. CASE m.from # c
    <3>1. cpc'[m.from] = cpc[m.from] /\ asked'[m.from] = asked[m.from]
      BY <1>1, <1>3, <2>1, <2>2
    <3> QED
      BY <1>1, <2>1, <3>1 DEF Truthful, Asks, Waits, Leaving, Stopped, HasEntry, Entries, Serving
  <2>3. CASE m.from = c
    <3>1. cpc'[c] = to
      BY <1>1
    <3>2. Asks(m) => asked'[c] = asked[c] /\ to \in {"onexit", "unlink"} /\ c \in Interruptible
      BY <1>1, <2>3 DEF Truthful, Waits, Leaving, SilentPath, SpeakingPath
    <3>3. Leaving(c) => to = "unlink"
      BY <1>1 DEF Leaving, SilentPath, SpeakingPath
    <3>4. ~Stopped(c)
      BY <1>1 DEF Stopped, SilentPath, SpeakingPath
    <3> QED
      BY <1>1, <2>3, <3>1, <3>2, <3>3, <3>4
         DEF Truthful, Waits, Leaving, Stopped, HasEntry, Entries, Serving
  <2> QED
    BY <2>2, <2>3
<1> QED
  BY <1>3, <1>4, <1>5, <1>6, <1>7, <1>8, <1>9, <1>10

LEMMA SilentStep ==
  ASSUME IInv, NEW c \in Clients, NEW from, NEW to, SilentMove(c, from, to)
  PROVE  IInv'
<1>1. /\ SilentPath(c, from, to) /\ Moves(c, from, to)
      /\ from = cpc[c] /\ cpc' = [cpc EXCEPT ![c] = to]
      /\ cpc \in [Clients -> {"start", "register", "wait_id", "ready", "asking", "wait",
                              "ending", "onexit", "unlink", "left"}]
      /\ UNCHANGED <<client_id, inbox, posix, spc, should_end, outcome, buff, queue_removed,
                     client_queues, server_queue>>
  BY DEF IInv, TypeOK, serverVars, SilentMove, Moves, ClientAt
<1>2. InFlight' = InFlight /\ Places' = Places /\ Entries' = Entries
  BY <1>1 DEF InFlight, Places, Entries
<1>3. /\ ServerShape' /\ ClientShape' /\ EntriesOwned' /\ FailsOnlyForLeavers'
      /\ cpc' \in [Clients -> {"start", "register", "wait_id", "ready", "asking", "wait",
                               "ending", "onexit", "unlink", "left"}]
      /\ asked' \in [Clients -> 0..Requests]
      /\ has_queue' \in [Clients -> BOOLEAN]
      /\ \A m \in Messages : (\E k \in Places : m = InFlight[k]) => Truthful(m)'
  BY <1>1, MoveKeeps
<1>4. TypeOK'
  BY <1>1, <1>3 DEF IInv, TypeOK
<1>5. MessagesTrue' /\ MessagesInOrder'
  <2>1. \A k \in Places : InFlight[k] \in Messages
    BY InFlightShape DEF IInv
  <2> QED
    BY <1>2, <1>3, <2>1 DEF IInv, MessagesTrue, MessagesInOrder, Asks
<1>6. \A d \in Clients : d # c => cpc'[d] = cpc[d]
  BY <1>1
<1>7. /\ cpc'[c] = to /\ ~Leaving(c)
      /\ to \in {"register", "left", "asking", "ending", "onexit"}
  BY <1>1 DEF SilentPath, Leaving
<1>8. InboxRight'
  <2> SUFFICES ASSUME NEW d \in Clients
               PROVE  /\ Len(inbox'[d]) <= 1
                      /\ inbox'[d] # <<>> => /\ Head(inbox'[d]).n = asked'[d]
                                             /\ Waits(d)' \/ Leaving(d)'
                      /\ Waits(d)' /\ spc' # "gone" => Asking(d)' \/ inbox'[d] # <<>>
    BY DEF InboxRight
  <2>1. Asking(d)' <=> Asking(d)
    BY <1>2 DEF Asking
  <2>2. CASE d # c
    <3>1. asked'[d] = asked[d]
      BY <1>1, <2>2 DEF Moves, IInv, TypeOK
    <3> QED
      BY <1>1, <1>6, <2>1, <2>2, <3>1 DEF IInv, InboxRight, Waits, Leaving
  <2>3. CASE d = c
    <3>1. inbox[c] # <<>> => Waits(c) /\ to = "onexit" /\ asked' = asked
      BY <1>1, <1>7, <2>3 DEF IInv, InboxRight, Waits, SilentPath, Moves
    <3> QED
      BY <1>1, <1>7, <2>3, <3>1 DEF IInv, InboxRight, Waits, Leaving
  <2> QED
    BY <2>2, <2>3
<1>9. NumberKnown'
  <2>1. \A d \in Clients : HasEntry(d)' <=> HasEntry(d)
    BY <1>1, <1>2 DEF HasEntry
  <2>2. /\ to = "register" => cpc[c] = "start"
        /\ to \in {"asking", "ending"} => cpc[c] = "ready"
    BY <1>1 DEF SilentPath
  <2>3. \A d \in Clients : Stopped(d) => Stopped(d)'
    BY <1>6, <1>7 DEF Stopped, Leaving
  <2> QED
    BY <1>1, <1>2, <1>6, <1>7, <2>1, <2>2, <2>3 DEF IInv, NumberKnown
<1> QED
  BY <1>3, <1>4, <1>5, <1>8, <1>9 DEF IInv

LEMMA SpeakingStep ==
  ASSUME IInv, NEW c \in Clients, NEW from, NEW to, NEW type, NEW n,
         SpeakingMove(c, from, to, type, n)
  PROVE  IInv'
<1> DEFINE m == [type |-> type, from |-> c, sender_id |-> client_id[c], n |-> n]
<1>1. /\ SpeakingPath(from, to, type) /\ Moves(c, from, to)
      /\ from = cpc[c] /\ cpc' = [cpc EXCEPT ![c] = to]
      /\ cpc \in [Clients -> {"start", "register", "wait_id", "ready", "asking", "wait",
                              "ending", "onexit", "unlink", "left"}]
      /\ UNCHANGED <<client_id, inbox, posix, spc, should_end, outcome, buff, queue_removed,
                     client_queues, asked>>
  BY DEF IInv, TypeOK, serverVars, SpeakingMove, SpeakingPath, Moves, ClientAt
<1>2. /\ type \in Types /\ n \in 0..Requests
      /\ Asks(m) => n = asked[c]
  BY MqAssumption DEF SpeakingMove, SpeakingPath, Types, Asks, IInv, TypeOK
<1>3. /\ m.type = type /\ m.from = c /\ m.sender_id = client_id[c] /\ m.n = n
      /\ server_queue' \in Seq(Messages) /\ Len(server_queue') <= Capacity
      /\ m \in Messages
      /\ Len(InFlight') = Len(InFlight) + 1
      /\ \A k \in Places : InFlight'[k] = InFlight[k]
      /\ InFlight'[Len(InFlight) + 1] = m
  BY <1>1, <1>2, MessageSent DEF SpeakingMove, IInv
<1>31. m' = m
  BY <1>1 DEF m
<1> HIDE DEF m
<1>4. /\ Len(InFlight) \in Nat
      /\ Places' = Places \cup {Len(InFlight) + 1} /\ Entries' = Entries
      /\ \A k \in Places : InFlight[k] \in Messages /\ k \in Nat /\ k < Len(InFlight) + 1
  BY <1>1, <1>3, InFlightShape DEF IInv, Places, Entries
<1>5. /\ ServerShape' /\ ClientShape' /\ EntriesOwned' /\ FailsOnlyForLeavers'
      /\ cpc' \in [Clients -> {"start", "register", "wait_id", "ready", "asking", "wait",
                               "ending", "onexit", "unlink", "left"}]
      /\ asked' \in [Clients -> 0..Requests]
      /\ has_queue' \in [Clients -> BOOLEAN]
      /\ \A u \in Messages : (\E k \in Places : u = InFlight[k]) => Truthful(u)'
  BY <1>1, <1>2, MoveKeeps
<1>6. TypeOK'
  BY <1>1, <1>3, <1>5 DEF IInv, TypeOK
<1>7. \A d \in Clients : d # c => cpc'[d] = cpc[d]
  BY <1>1
<1>8. /\ cpc'[c] = to /\ ~Stopped(c) /\ ~Waits(c)
      /\ Asks(m) => ~Leaving(c) /\ Waits(c)'
  BY <1>1, <1>3 DEF SpeakingPath, Leaving, Stopped, Waits, Asks
<1>9. MessagesTrue'
  <2>1. Truthful(m)'
    <3>1. Asks(m) => inbox[c] = <<>>
      BY <1>8 DEF IInv, InboxRight
    <3>2. type = "REGISTER" => cpc[c] = "register"
      BY <1>1 DEF SpeakingPath
    <3>3. type \in {"REQUEST", "CALC_BY_ZERO"} => cpc[c] = "asking"
      BY <1>1 DEF SpeakingPath
    <3>4. type = "END" => to = "onexit"
      BY <1>1 DEF SpeakingPath
    <3>5. type = "STOP" => to = "unlink" /\ posix
      BY <1>1 DEF SpeakingPath
    <3>6. HasEntry(c)' <=> HasEntry(c)
      BY <1>1, <1>4 DEF HasEntry
    <3> QED
      BY <1>1, <1>2, <1>3, <1>31, <1>8, <3>1, <3>2, <3>3, <3>4, <3>5, <3>6
         DEF Truthful, Leaving, Stopped, Asks, IInv, NumberKnown
  <2> QED
    BY <1>3, <1>31, <1>4, <1>5, <2>1 DEF MessagesTrue
<1>10. MessagesInOrder'
  <2>1. \A k \in Places : InFlight[k].from = c =>
            ~(Asks(InFlight[k]) /\ Asks(m)) /\ InFlight[k].type # "STOP"
    BY <1>8 DEF IInv, MessagesTrue, Truthful
  <2>2. \A j \in Places' : ~(Len(InFlight) + 1 < j)
    BY <1>4
  <2> QED
    BY <1>3, <1>4, <2>1, <2>2 DEF IInv, MessagesInOrder, Asks
<1>11. InboxRight'
  <2>1. \A d \in Clients : Asking(d) => Asking(d)'
    BY <1>3, <1>4 DEF Asking
  <2>2. Waits(c)' => Asking(c)'
    <3>1. Waits(c)' => Asks(m)
      BY <1>1, <1>3, <1>8 DEF Waits, SpeakingPath, Asks
    <3> QED
      BY <1>3, <1>4, <3>1 DEF Asking, Asks
  <2>3. inbox[c] # <<>> => Leaving(c) /\ Leaving(c)'
    <3>1. inbox[c] # <<>> => Leaving(c)
      BY <1>8 DEF IInv, InboxRight
    <3> QED
      BY <1>1, <1>8, <3>1 DEF Leaving, SpeakingPath
  <2> QED
    BY <1>1, <1>7, <1>8, <2>1, <2>2, <2>3 DEF IInv, InboxRight, Waits, Leaving
<1>12. NumberKnown'
  <2>1. \A d \in Clients : HasEntry(d)' <=> HasEntry(d)
    BY <1>1, <1>4 DEF HasEntry
  <2>2. /\ to \notin {"start", "register", "ready", "asking", "ending"}
        /\ to = "wait_id" => cpc[c] = "register"
        /\ to = "wait" => cpc[c] = "asking"
    BY <1>1 DEF SpeakingPath
  <2>3. \A d \in Clients : Stopped(d) => d # c /\ Stopped(d)'
    BY <1>7, <1>8 DEF Stopped
  <2>4. \A d \in Clients : d # c /\ (\A k \in Places : InFlight[k].from # d)
            => \A k \in Places' : InFlight'[k].from # d
    BY <1>3, <1>4
  <2>5. inbox[c] # <<>> => cpc[c] # "register"
    BY DEF IInv, InboxRight, Waits, Leaving
  <2> QED
    BY <1>1, <1>4, <1>7, <1>8, <2>1, <2>2, <2>3, <2>4, <2>5 DEF IInv, NumberKnown
<1> QED
  BY <1>5, <1>6, <1>9, <1>10, <1>11, <1>12 DEF IInv
-----------------------------------------------------------------------------
(* A client takes the answer it waits for.                                 *)
LEMMA TakeStep ==
  ASSUME IInv, NEW c \in Clients, NEW from \in {"wait_id", "wait"},
         ClientAt(c, from, "ready"), TakeAnswer(c),
         client_id' = IF from = "wait_id" THEN [client_id EXCEPT ![c] = Head(inbox[c]).id]
                      ELSE client_id,
         UNCHANGED <<asked, has_queue, serverVars, server_queue>>
  PROVE  IInv'
<1>1. /\ cpc[c] = from /\ cpc' = [cpc EXCEPT ![c] = "ready"]
      /\ inbox[c] # <<>> /\ inbox' = [inbox EXCEPT ![c] = Tail(@)]
      /\ UNCHANGED <<asked, has_queue, posix, spc, should_end, outcome, buff, queue_removed,
                     client_queues, server_queue>>
      /\ cpc \in [Clients -> {"start", "register", "wait_id", "ready", "asking", "wait",
                              "ending", "onexit", "unlink", "left"}]
      /\ client_id \in [Clients -> Ids \cup {Unregistered}]
      /\ inbox \in [Clients -> Seq(Answers)]
  BY DEF IInv, TypeOK, serverVars, ClientAt, TakeAnswer
<1>2. /\ inbox[c] \in Seq(Answers) /\ Len(inbox[c]) = 1 /\ Tail(inbox[c]) = <<>>
      /\ Head(inbox[c]) \in Answers /\ Head(inbox[c]).id \in Ids
  <2>1. inbox[c] \in Seq(Answers) /\ Len(inbox[c]) <= 1 /\ inbox[c] # <<>>
    BY <1>1 DEF IInv, InboxRight
  <2> DEFINE b == inbox[c]
  <2> HIDE DEF b
  <2>2. ASSUME b \in Seq(Answers), Len(b) <= 1, b # <<>>
        PROVE  Len(b) = 1 /\ Tail(b) = <<>> /\ Head(b) \in Answers
    <3>1. Len(b) # 0
      BY <2>2, EmptySeq
    <3>2. Tail(b) \in Seq(Answers) /\ Len(Tail(b)) = Len(b) - 1 /\ Head(b) \in Answers
      BY <2>2, HeadTailProperties
    <3>3. Len(b) = 1 /\ Len(Tail(b)) = 0
      BY <2>2, <3>1, <3>2
    <3> QED
      BY <3>2, <3>3, EmptySeq
  <2>3. \A a \in Answers : a.id \in Ids
    BY DEF Answers
  <2> QED
    BY <2>1, <2>2, <2>3 DEF b
<1>3. /\ inbox'[c] = <<>> /\ cpc'[c] = "ready"
      /\ \A d \in Clients : d # c =>
             inbox'[d] = inbox[d] /\ cpc'[d] = cpc[d] /\ client_id'[d] = client_id[d]
  BY <1>1, <1>2
<1>4. InFlight' = InFlight /\ Places' = Places /\ Entries' = Entries
  BY <1>1 DEF InFlight, Places, Entries
<1>5. /\ client_id' \in [Clients -> Ids \cup {Unregistered}]
      /\ from = "wait" => client_id'[c] = client_id[c]
      /\ from = "wait_id" => client_id'[c] = Head(inbox[c]).id
  BY <1>1, <1>2
<1>6. TypeOK'
  <2>1. inbox' \in [Clients -> Seq(Answers)] /\ cpc' \in [Clients -> {"start", "register",
            "wait_id", "ready", "asking", "wait", "ending", "onexit", "unlink", "left"}]
    <3>1. <<>> \in Seq(Answers)
      OBVIOUS
    <3> QED
      BY <1>1, <1>2, <3>1
  <2> QED
    BY <1>1, <1>5, <2>1 DEF IInv, TypeOK
<1>7. ServerShape' /\ ClientShape'
  BY <1>1, <1>3 DEF IInv, ServerShape, ClientShape, Serving
<1>8. \A k \in Places : InFlight[k] \in Messages /\ InFlight[k].from \in Clients
  BY InFlightShape DEF IInv, Messages
<1>9. \A k \in Places : InFlight[k].from = c => FALSE
  <2> SUFFICES ASSUME NEW k \in Places, InFlight[k].from = c PROVE FALSE
    OBVIOUS
  <2>1. Truthful(InFlight[k]) /\ InFlight[k].type \in Types
    BY <1>8 DEF IInv, MessagesTrue, Messages
  <2> QED
    BY <1>1, <2>1 DEF Truthful, Types, Asks, Leaving, Stopped
<1>10. MessagesTrue'
  <2> SUFFICES ASSUME NEW k \in Places, Truthful(InFlight[k]) PROVE Truthful(InFlight[k])'
    BY <1>4 DEF IInv, MessagesTrue
  <2> QED
    BY <1>1, <1>3, <1>4, <1>8, <1>9
       DEF Truthful, Asks, Waits, Leaving, Stopped, HasEntry, Serving
<1>11. MessagesInOrder'
  BY <1>4 DEF IInv, MessagesInOrder, Asks
<1>12. InboxRight'
  BY <1>1, <1>3, <1>4 DEF IInv, InboxRight, Waits, Leaving, Asking, Asks
<1>13. NumberKnown'
  <2>1. \A d \in Clients : HasEntry(d)' <=> HasEntry(d)
    BY <1>1, <1>4 DEF HasEntry
  <2>2. \A d \in Clients : d # c => (Stopped(d)' <=> Stopped(d))
    BY <1>3 DEF Stopped
  <2>3. /\ client_id'[c] # Unregistered /\ client_id'[c] + 1 \in Entries
        /\ client_queues[client_id'[c] + 1] = c
    <3>1. CASE from = "wait"
      <4>1. ~Stopped(c)
        BY <1>1, <3>1 DEF Stopped
      <4> QED
        BY <1>1, <1>5, <3>1, <4>1 DEF IInv, NumberKnown
    <3>2. CASE from = "wait_id"
      <4>1. \A x \in Ids : x # Unregistered
        BY DEF Ids, Unregistered
      <4> QED
        BY <1>1, <1>2, <1>5, <3>2, <4>1 DEF IInv, NumberKnown
    <3> QED
      BY <3>1, <3>2
  <2> QED
    BY <1>1, <1>3, <1>4, <2>1, <2>2, <2>3 DEF IInv, NumberKnown
<1>14. EntriesOwned'
  <2>1. \A d \in Clients : d # c /\ client_id'[d] = client_id'[c] => client_id'[d] = Unregistered
    <3> SUFFICES ASSUME NEW d \in Clients, d # c, client_id[d] = client_id'[c],
                        client_id[d] # Unregistered
                 PROVE  FALSE
      BY <1>3
    <3>1. CASE from = "wait"
      BY <1>5, <3>1 DEF IInv, EntriesOwned
    <3>2. CASE from = "wait_id"
      BY <1>1, <1>2, <1>5, <3>2, NoQueueAssumption, SMTT(40) DEF IInv, NumberKnown
    <3> QED
      BY <3>1, <3>2
  <2>2. from = "wait_id" => client_id[c] = Unregistered
    BY <1>1 DEF IInv, NumberKnown
  <2>3. \A d \in Clients, e \in Entries : client_id[d] = e - 1 => client_id'[d] = e - 1
    <3>1. \A e \in Entries : e - 1 # Unregistered
      BY DEF Entries, Unregistered
    <3> QED
      BY <1>3, <1>5, <2>2, <3>1
  <2>4. \A e \in Entries : (\E d \in Clients : client_id[d] = e - 1) =>
            \E d \in Clients : client_id'[d] = e - 1
    BY <2>3
  <2>5. \A d, e \in Clients : client_id'[d] = client_id'[e] /\ client_id'[d] # Unregistered => d = e
    BY <1>3, <2>1 DEF IInv, EntriesOwned
  <2> QED
    BY <1>1, <1>4, <2>4, <2>5 DEF IInv, EntriesOwned, Serving
<1>15. FailsOnlyForLeavers'
  <2>1. outcome = "failed" /\ spc = "onexit" => buff.from \in Clients
    BY DEF IInv, TypeOK, ServerShape, Messages
  <2> QED
    BY <1>1, <1>3, <2>1 DEF IInv, FailsOnlyForLeavers
<1> QED
  BY <1>6, <1>7, <1>10, <1>11, <1>12, <1>13, <1>14, <1>15 DEF IInv

LEMMA RemoveStep ==
  ASSUME IInv, NEW c \in Clients, RemoveQueue(c)
  PROVE  IInv'
<1>1. /\ cpc[c] = IF posix THEN "unlink" ELSE "onexit"
      /\ cpc' = [cpc EXCEPT ![c] = "left"]
      /\ has_queue' = [has_queue EXCEPT ![c] = FALSE]
      /\ inbox' = [inbox EXCEPT ![c] = <<>>]
      /\ UNCHANGED <<client_id, asked, posix, spc, should_end, outcome, buff, queue_removed,
                     client_queues, server_queue>>
      /\ cpc \in [Clients -> {"start", "register", "wait_id", "ready", "asking", "wait",
                              "ending", "onexit", "unlink", "left"}]
      /\ inbox \in [Clients -> Seq(Answers)] /\ has_queue \in [Clients -> BOOLEAN]
  BY DEF IInv, TypeOK, serverVars, ClientAt, RemoveQueue
<1>2. /\ inbox'[c] = <<>> /\ cpc'[c] = "left" /\ ~has_queue'[c]
      /\ \A d \in Clients : d # c =>
             inbox'[d] = inbox[d] /\ cpc'[d] = cpc[d] /\ (has_queue'[d] <=> has_queue[d])
  BY <1>1
<1>3. InFlight' = InFlight /\ Places' = Places /\ Entries' = Entries
  BY <1>1 DEF InFlight, Places, Entries
<1>4. TypeOK'
  <2>1. <<>> \in Seq(Answers)
    OBVIOUS
  <2>2. /\ cpc' \in [Clients -> {"start", "register", "wait_id", "ready", "asking", "wait",
                                 "ending", "onexit", "unlink", "left"}]
        /\ inbox' \in [Clients -> Seq(Answers)] /\ has_queue' \in [Clients -> BOOLEAN]
    BY <1>1, <2>1
  <2> QED
    BY <1>1, <2>2 DEF IInv, TypeOK
<1>5. ServerShape' /\ ClientShape'
  BY <1>1, <1>2 DEF IInv, ServerShape, ClientShape, Serving
<1>6. \A k \in Places : InFlight[k] \in Messages /\ InFlight[k].from \in Clients
  BY InFlightShape DEF IInv, Messages
<1>7. MessagesTrue'
  <2> SUFFICES ASSUME NEW k \in Places, Truthful(InFlight[k]) PROVE Truthful(InFlight[k])'
    BY <1>3 DEF IInv, MessagesTrue
  <2>1. CASE InFlight[k].from = c
    <3>1. ~Waits(c)
      BY <1>1 DEF Waits
    <3> QED
      BY <1>1, <1>2, <1>3, <2>1, <3>1
         DEF Truthful, Asks, Waits, Leaving, Stopped, HasEntry, Serving
  <2>2. CASE InFlight[k].from # c
    BY <1>1, <1>2, <1>3, <1>6, <2>2
       DEF Truthful, Asks, Waits, Leaving, Stopped, HasEntry, Serving
  <2> QED
    BY <2>1, <2>2
<1>8. MessagesInOrder'
  BY <1>3 DEF IInv, MessagesInOrder, Asks
<1>9. InboxRight'
  BY <1>1, <1>2, <1>3 DEF IInv, InboxRight, Waits, Leaving, Asking, Asks
<1>10. NumberKnown'
  <2>1. \A d \in Clients : HasEntry(d)' <=> HasEntry(d)
    BY <1>1, <1>3 DEF HasEntry
  <2>2. \A d \in Clients : Stopped(d) => Stopped(d)'
    BY <1>2 DEF Stopped
  <2> QED
    BY <1>1, <1>2, <1>3, <2>1, <2>2 DEF IInv, NumberKnown
<1>11. EntriesOwned'
  BY <1>1, <1>3 DEF IInv, EntriesOwned, Serving
<1>12. FailsOnlyForLeavers'
  <2>1. outcome = "failed" /\ spc = "onexit" => buff.from \in Clients
    BY DEF IInv, TypeOK, ServerShape, Messages
  <2> QED
    BY <1>1, <1>2, <2>1 DEF IInv, FailsOnlyForLeavers
<1> QED
  BY <1>4, <1>5, <1>7, <1>8, <1>9, <1>10, <1>11, <1>12 DEF IInv

(* Every step of a client is one of these.                                 *)
LEMMA ClientStep ==
  ASSUME IInv, NEW c \in Clients, Works(c) \/ Input(c) \/ Interrupt(c)
  PROVE  IInv'
<1>1. ASSUME OpenQueues(c) PROVE SilentMove(c, "start", "register")
  BY <1>1 DEF OpenQueues, SilentMove, SilentPath, Moves
<1>2. ASSUME NoServer(c) PROVE SilentMove(c, "start", "left")
  BY <1>2 DEF NoServer, SilentMove, SilentPath, Moves
<1>3. ASSUME Register(c) PROVE SpeakingMove(c, "register", "wait_id", "REGISTER", 0)
  <2>1. asked[c] = 0
    BY <1>3 DEF Register, ClientAt, IInv, ClientShape
  <2> QED
    BY <1>3, <2>1 DEF Register, SpeakingMove, SpeakingPath, Moves, Asks
<1>4. ASSUME Request(c)
      PROVE  \E type \in {"REQUEST", "CALC_BY_ZERO"} :
                 SpeakingMove(c, "asking", "wait", type, asked[c])
  BY <1>4 DEF Request, SpeakingMove, SpeakingPath, Moves, Asks
<1>5. ASSUME SendEnd(c) PROVE SpeakingMove(c, "ending", "onexit", "END", 0)
  BY <1>5 DEF SendEnd, SpeakingMove, SpeakingPath, Moves, Asks
<1>6. ASSUME SendFails(c)
      PROVE  \E from \in {"register", "asking", "ending"} : SilentMove(c, from, "onexit")
  BY <1>6 DEF SendFails, SilentMove, SilentPath, Moves
<1>7. ASSUME SendStop(c) PROVE SpeakingMove(c, "onexit", "unlink", "STOP", 0)
  BY <1>7 DEF SendStop, SpeakingMove, SpeakingPath, Moves, Asks
<1>8. ASSUME Input(c) PROVE \E to \in {"asking", "ending", "onexit"} : SilentMove(c, "ready", to)
  BY <1>8 DEF Input, Command, EndOfInput, SilentMove, SilentPath, Moves
<1>9. ASSUME Interrupt(c)
      PROVE  \E from \in {"register", "wait_id", "ready", "asking", "wait", "ending"} :
                 SilentMove(c, from, "onexit")
  BY <1>9 DEF Interrupt, SilentMove, SilentPath, Moves
<1>10. ASSUME ReceiveId(c) PROVE IInv'
  BY <1>10, TakeStep DEF ReceiveId
<1>11. ASSUME ReceiveAnswer(c) PROVE IInv'
  BY <1>11, TakeStep DEF ReceiveAnswer
<1> QED
  BY <1>1, <1>2, <1>3, <1>4, <1>5, <1>6, <1>7, <1>8, <1>9, <1>10, <1>11,
     SilentStep, SpeakingStep, RemoveStep DEF Works
-----------------------------------------------------------------------------
(* The server takes a message; it is in flight until it has been handled.  *)
LEMMA ReceiveStep == IInv /\ Receive => IInv'
<1> SUFFICES ASSUME IInv, Receive PROVE IInv'
  OBVIOUS
<1>1. /\ spc = "receive" /\ spc' = "handle" /\ server_queue # <<>> /\ buff = Nothing
      /\ buff' = Head(server_queue) /\ server_queue' = Tail(server_queue)
      /\ server_queue \in Seq(Messages) /\ Len(server_queue) <= Capacity
      /\ UNCHANGED <<posix, should_end, outcome, queue_removed, client_queues, cpc, client_id,
                     asked, has_queue, inbox>>
  BY DEF IInv, TypeOK, ServerShape, Receive, clientVars
<1>2. /\ server_queue' \in Seq(Messages) /\ Len(server_queue') <= Capacity
      /\ buff' \in Messages /\ server_queue = <<buff'>> \o server_queue'
  BY <1>1, MqAssumption
<1>3. buff' # Nothing
  BY <1>2 DEF Messages, Nothing, Types
<1>4. InFlight' = InFlight /\ Places' = Places /\ Entries' = Entries
  BY <1>1, <1>2, <1>3 DEF InFlight, Places, Entries
<1>5. Serving' /\ Serving
  BY <1>1 DEF Serving
<1>6. TypeOK' /\ ServerShape' /\ ClientShape'
  BY <1>1, <1>2, <1>3, <1>5 DEF IInv, TypeOK, ServerShape, ClientShape
<1>7. MessagesTrue'
  BY <1>1, <1>4, <1>5
     DEF IInv, MessagesTrue, Truthful, Asks, Waits, Leaving, Stopped, HasEntry
<1>8. MessagesInOrder'
  BY <1>4 DEF IInv, MessagesInOrder, Asks
<1>9. InboxRight'
  BY <1>1, <1>4 DEF IInv, InboxRight, Waits, Leaving, Asking, Asks
<1>10. NumberKnown'
  BY <1>1, <1>4 DEF IInv, NumberKnown, HasEntry, Stopped
<1>11. EntriesOwned'
  BY <1>1, <1>4, <1>5 DEF IInv, EntriesOwned
<1>12. FailsOnlyForLeavers'
  BY <1>1, <1>5 DEF IInv, ServerShape, FailsOnlyForLeavers
<1> QED
  BY <1>6, <1>7, <1>8, <1>9, <1>10, <1>11, <1>12 DEF IInv

(* The server leaves its loop, and keeps what it has.                      *)
LEMMA HaltStep == IInv /\ (QueueDrained \/ ServerInterrupt) => IInv'
<1> SUFFICES ASSUME IInv, QueueDrained \/ ServerInterrupt PROVE IInv'
  OBVIOUS
<1>1. UNCHANGED <<posix, should_end, buff, client_queues, server_queue, cpc, client_id,
                  asked, has_queue, inbox>>
  BY DEF QueueDrained, ServerInterrupt, clientVars, Exits
<1>2. /\ spc' = "onexit" /\ spc # "gone" /\ outcome' \in {"ended", "interrupted"}
      /\ queue_removed' \in BOOLEAN
  BY DEF QueueDrained, ServerInterrupt, Exits, IInv, TypeOK
<1>3. InFlight' = InFlight /\ Places' = Places /\ Entries' = Entries
  BY <1>1 DEF InFlight, Places, Entries
<1>4. ~Serving'
  BY <1>2 DEF Serving
<1>5. TypeOK' /\ ClientShape'
  BY <1>1, <1>2 DEF IInv, TypeOK, ClientShape
<1>6. ServerShape'
  BY <1>1, <1>2, <1>4 DEF IInv, ServerShape
<1>7. MessagesTrue'
  BY <1>1, <1>3, <1>4
     DEF IInv, MessagesTrue, Truthful, Asks, Waits, Leaving, Stopped, HasEntry
<1>8. MessagesInOrder'
  BY <1>3 DEF IInv, MessagesInOrder, Asks
<1>9. InboxRight'
  BY <1>1, <1>2, <1>3 DEF IInv, InboxRight, Waits, Leaving, Asking, Asks
<1>10. NumberKnown'
  BY <1>1, <1>3 DEF IInv, NumberKnown, HasEntry, Stopped
<1>11. EntriesOwned'
  BY <1>1, <1>3, <1>4 DEF IInv, EntriesOwned
<1>12. FailsOnlyForLeavers'
  BY <1>1, <1>2 DEF IInv, FailsOnlyForLeavers
<1> QED
  BY <1>5, <1>6, <1>7, <1>8, <1>9, <1>10, <1>11, <1>12 DEF IInv

(* A message that has been handled is no longer in flight.                 *)
LEMMA MessageHandled ==
  ASSUME TypeOK, buff # Nothing, buff' = Nothing, UNCHANGED server_queue
  PROVE  /\ Len(InFlight') \in Nat /\ Len(InFlight) = Len(InFlight') + 1
         /\ InFlight[1] = buff
         /\ \A k \in Places' : /\ k + 1 \in Places /\ k + 1 > 1 /\ k \in Nat
                               /\ InFlight'[k] = InFlight[k + 1]
         /\ 1 \in Places
         /\ \A k \in Places : k = 1 \/ (k - 1 \in Places' /\ InFlight[k] = InFlight'[k - 1])
<1>1. /\ Len(InFlight) \in Nat /\ Len(InFlight) = Len(server_queue) + 1
      /\ InFlight[1] = buff
      /\ \A k \in 1..Len(server_queue) : InFlight[k + 1] = server_queue[k]
  BY InFlightShape
<1>2. InFlight' = server_queue
  BY DEF InFlight
<1>3. server_queue \in Seq(Messages) /\ Len(server_queue) \in Nat
  BY DEF TypeOK
<1>4. \A k \in Places : k = 1 \/ (k - 1 \in 1..Len(server_queue) /\ (k - 1) + 1 = k)
  BY <1>1, <1>3 DEF Places
<1> QED
  BY <1>1, <1>2, <1>3, <1>4 DEF Places

(* The message in the server's hand.                                       *)
LEMMA InHand ==
  ASSUME IInv, spc = "handle"
  PROVE  /\ Serving /\ outcome = "running" /\ buff # Nothing /\ buff \in Messages
         /\ buff.from \in Clients /\ Truthful(buff) /\ 1 \in Places /\ InFlight[1] = buff
<1>1. Serving /\ outcome = "running" /\ buff # Nothing
  BY DEF IInv, ServerShape, Serving
<1>2. buff \in Messages /\ buff.from \in Clients
  BY <1>1 DEF IInv, TypeOK, Messages
<1>3. 1 \in Places /\ InFlight[1] = buff
  <2>1. Len(InFlight) = Len(server_queue) + 1 /\ InFlight[1] = buff /\ Len(server_queue) \in Nat
    BY <1>1, InFlightShape DEF IInv, TypeOK
  <2> QED
    BY <2>1 DEF Places
<1> QED
  BY <1>1, <1>2, <1>3 DEF IInv, MessagesTrue

(* With the server goes what it had in hand, and in zad1 its queue.        *)
LEMMA GoneStep == IInv /\ (DivideByZero \/ OnExit) => IInv'
<1> SUFFICES ASSUME IInv, DivideByZero \/ OnExit PROVE IInv'
  OBVIOUS
<1>1. /\ spc' = "gone" /\ buff' = Nothing /\ queue_removed' \in BOOLEAN
      /\ outcome' \in {"ended", "interrupted", "failed", "killed"}
      /\ UNCHANGED <<posix, should_end, client_queues, cpc, client_id, asked, has_queue, inbox>>
  BY DEF DivideByZero, OnExit, clientVars, IInv, TypeOK, ServerShape, Serving
<1>2. \/ server_queue' = server_queue
      \/ server_queue' = <<>>
  BY DEF DivideByZero, OnExit
<1>3. /\ server_queue' \in Seq(Messages) /\ Len(server_queue') <= Capacity
      /\ server_queue' = <<>> => Len(server_queue') = 0
  <2>1. <<>> \in Seq(Messages) /\ Len(<<>>) = 0 /\ 0 <= Capacity
    BY MqAssumption
  <2> QED
    BY <1>2, <2>1 DEF IInv, TypeOK
(* What is left in flight is the end of what was.                          *)
<1>4. PICK d \in {0, 1} :
          \A k \in Places' : k \in Nat /\ k + d \in Places /\ InFlight'[k] = InFlight[k + d]
  <2>1. InFlight' = server_queue'
    BY <1>1 DEF InFlight
  <2>2. CASE server_queue' = <<>>
    <3>1. Places' = {}
      BY <1>3, <2>1, <2>2 DEF Places
    <3> QED
      BY <3>1
  <2>3. CASE server_queue' = server_queue /\ buff = Nothing
    <3>1. InFlight' = InFlight /\ Places' = Places
      BY <2>1, <2>3 DEF InFlight, Places
    <3>2. \A k \in Places : k \in Nat /\ k + 0 = k
      BY DEF Places
    <3> QED
      BY <3>1, <3>2
  <2>4. CASE server_queue' = server_queue /\ buff # Nothing
    BY <1>1, <2>4, MessageHandled DEF IInv
  <2> QED
    BY <1>2, <2>2, <2>3, <2>4
<1>5. ~Serving' /\ Entries' = Entries
  BY <1>1 DEF Serving, Entries
<1>6. TypeOK' /\ ClientShape'
  BY <1>1, <1>3 DEF IInv, TypeOK, ClientShape
<1>7. ServerShape'
  BY <1>1, <1>5 DEF ServerShape
<1>8. MessagesTrue'
  BY <1>1, <1>4, <1>5
     DEF IInv, MessagesTrue, Truthful, Asks, Waits, Leaving, Stopped, HasEntry
<1>9. MessagesInOrder'
  <2>1. \A j, k \in Places' : j < k => j + d < k + d
    BY <1>4
  <2> QED
    BY <1>4, <2>1 DEF IInv, MessagesInOrder, Asks
<1>10. InboxRight'
  BY <1>1 DEF IInv, InboxRight, Waits, Leaving
<1>11. NumberKnown'
  <2>1. \A c \in Clients : (\A k \in Places : InFlight[k].from # c)
                          => \A k \in Places' : InFlight'[k].from # c
    BY <1>4
  <2> QED
    BY <1>1, <1>5, <2>1 DEF IInv, NumberKnown, HasEntry, Stopped
<1>12. EntriesOwned'
  BY <1>1, <1>5 DEF IInv, EntriesOwned
<1>13. FailsOnlyForLeavers'
  BY <1>1 DEF FailsOnlyForLeavers
<1> QED
  BY <1>6, <1>7, <1>8, <1>9, <1>10, <1>11, <1>12, <1>13 DEF IInv

LEMMA EndStep == IInv /\ HandleEnd => IInv'
<1> SUFFICES ASSUME IInv, HandleEnd PROVE IInv'
  OBVIOUS
<1>1. /\ spc = "handle" /\ buff.type = "END" /\ spc' = "receive" /\ buff' = Nothing
      /\ should_end' = TRUE
      /\ UNCHANGED <<posix, outcome, queue_removed, client_queues, server_queue, cpc, client_id,
                     asked, has_queue, inbox>>
  BY DEF HandleEnd, Handles, clientVars
<1>2. /\ Serving /\ outcome = "running" /\ buff # Nothing
      /\ 1 \in Places /\ InFlight[1] = buff
  BY <1>1, InHand
<1>3. /\ \A k \in Places' : /\ k + 1 \in Places /\ k + 1 > 1 /\ k \in Nat
                            /\ InFlight'[k] = InFlight[k + 1]
      /\ \A k \in Places : k = 1 \/ (k - 1 \in Places' /\ InFlight[k] = InFlight'[k - 1])
  BY <1>1, <1>2, MessageHandled DEF IInv
<1>4. Serving' /\ Entries' = Entries
  BY <1>1 DEF Serving, Entries
<1>5. TypeOK' /\ ServerShape' /\ ClientShape'
  BY <1>1, <1>2, <1>4 DEF IInv, TypeOK, ServerShape, ClientShape
<1>6. MessagesTrue'
  BY <1>1, <1>2, <1>3, <1>4
     DEF IInv, MessagesTrue, Truthful, Asks, Waits, Leaving, Stopped, HasEntry
<1>7. MessagesInOrder'
  BY <1>3 DEF IInv, MessagesInOrder, Asks
<1>8. InboxRight'
  <2>1. \A c \in Clients : Asking(c) => Asking(c)'
    BY <1>1, <1>2, <1>3 DEF Asking, Asks
  <2> QED
    BY <1>1, <2>1 DEF IInv, InboxRight, Waits, Leaving
<1>9. NumberKnown'
  BY <1>1, <1>3, <1>4 DEF IInv, NumberKnown, HasEntry, Stopped
<1>10. EntriesOwned' /\ FailsOnlyForLeavers'
  BY <1>1, <1>2, <1>4 DEF IInv, EntriesOwned, FailsOnlyForLeavers
<1> QED
  BY <1>5, <1>6, <1>7, <1>8, <1>9, <1>10 DEF IInv

LEMMA StopStep == IInv /\ HandleStop => IInv'
<1> SUFFICES ASSUME IInv, HandleStop PROVE IInv'
  OBVIOUS
<1>1. /\ spc = "handle" /\ buff.type = "STOP" /\ spc' = "receive" /\ buff' = Nothing
      /\ client_queues' = IF buff.sender_id = Unregistered THEN client_queues
                          ELSE [client_queues EXCEPT ![buff.sender_id + 1] = NoQueue]
      /\ UNCHANGED <<posix, should_end, outcome, queue_removed, server_queue, cpc, client_id,
                     asked, has_queue, inbox>>
  BY DEF HandleStop, Handles, clientVars
<1>0. PICK c \in Clients : c = buff.from
  BY <1>1, InHand
<1> DEFINE e == client_id[c] + 1
<1>2. /\ c = buff.from
      /\ Serving /\ outcome = "running" /\ buff # Nothing /\ buff \in Messages
      /\ c \in Clients /\ Truthful(buff) /\ 1 \in Places /\ InFlight[1] = buff
  BY <1>0, <1>1, InHand
<1>3. /\ \A k \in Places' : /\ k + 1 \in Places /\ k + 1 > 1 /\ k \in Nat
                            /\ InFlight'[k] = InFlight[k + 1]
      /\ \A k \in Places : k = 1 \/ (k - 1 \in Places' /\ InFlight[k] = InFlight'[k - 1])
  BY <1>1, <1>2, MessageHandled DEF IInv
<1>4. Stopped(c) /\ buff.sender_id = client_id[c]
  BY <1>1, <1>2 DEF Truthful
<1>5. \A k \in Places' : InFlight'[k].from # c
  BY <1>1, <1>2, <1>3 DEF IInv, MessagesInOrder
<1>6. client_id[c] # Unregistered => e \in Entries /\ client_queues[e] \in {c, NoQueue}
  BY <1>2 DEF IInv, NumberKnown
<1>7. client_queues \in Seq(Clients \cup {NoQueue})
  BY DEF IInv, TypeOK
<1> HIDE DEF e
<1>8. /\ client_queues' \in Seq(Clients \cup {NoQueue}) /\ Entries' = Entries
      /\ \A d \in Entries :
             client_queues'[d] = IF client_id[c] # Unregistered /\ d = e THEN NoQueue
                                 ELSE client_queues[d]
  <2>1. CASE client_id[c] = Unregistered
    BY <1>1, <1>4, <1>7, <2>1 DEF Entries
  <2>2. CASE client_id[c] # Unregistered
    <3>1. client_queues' = [client_queues EXCEPT ![e] = NoQueue]
      BY <1>1, <1>4, <2>2 DEF e
    <3> QED
      BY <1>6, <1>7, <2>2, <3>1 DEF Entries
  <2> QED
    BY <2>1, <2>2
<1>9. Serving'
  BY <1>1 DEF Serving
<1>10. \A d \in Clients : HasEntry(d)' => HasEntry(d)
  BY <1>8, NoQueueAssumption DEF HasEntry
<1>101. client_id[c] # Unregistered => ~HasEntry(c)'
  <2> SUFFICES ASSUME client_id[c] # Unregistered, NEW f \in Entries, client_queues'[f] = c
               PROVE  FALSE
    BY <1>8 DEF HasEntry
  <2>1. f # e /\ client_queues[f] = c
    BY <1>2, <1>8, NoQueueAssumption
  <2>2. client_queues[e] = c
    BY <1>2, <2>1 DEF IInv, NumberKnown, HasEntry, e
  <2> QED
    BY <1>2, <1>6, <2>1, <2>2, NoQueueAssumption DEF IInv, EntriesOwned
<1>11. TypeOK' /\ ServerShape' /\ ClientShape'
  BY <1>1, <1>2, <1>8, <1>9 DEF IInv, TypeOK, ServerShape, ClientShape
<1>12. MessagesTrue'
  <2>1. \A m \in Messages : Truthful(m) => Truthful(m)'
    <3>1. \A m \in Messages : m.from \in Clients
      BY DEF Messages
    <3> QED
      BY <1>1, <1>2, <1>9, <1>10, <3>1 DEF Truthful, Asks, Waits, Leaving, Stopped
  <2>2. \A k \in Places : InFlight[k] \in Messages
    BY InFlightShape DEF IInv
  <2> QED
    BY <1>3, <2>1, <2>2 DEF IInv, MessagesTrue
<1>13. MessagesInOrder'
  BY <1>3 DEF IInv, MessagesInOrder, Asks
<1>14. InboxRight'
  <2>1. \A d \in Clients : Asking(d) => Asking(d)'
    BY <1>1, <1>2, <1>3 DEF Asking, Asks
  <2> QED
    BY <1>1, <2>1 DEF IInv, InboxRight, Waits, Leaving
<1>15. NumberKnown'
  <2> SUFFICES ASSUME NEW d \in Clients
               PROVE  /\ client_id[d] # Unregistered =>
                          /\ client_id[d] + 1 \in Entries
                          /\ \/ client_queues'[client_id[d] + 1] = d
                             \/ /\ client_queues'[client_id[d] + 1] = NoQueue
                                /\ Stopped(d) /\ ~HasEntry(d)'
                                /\ \A k \in Places' : InFlight'[k].from # d
                      /\ cpc[d] = "wait_id" /\ inbox[d] # <<>> =>
                             client_queues'[Head(inbox[d]).id + 1] = d
    BY <1>1, <1>8, <1>10 DEF IInv, NumberKnown, Stopped
  <2>1. (\A k \in Places : InFlight[k].from # d) => \A k \in Places' : InFlight'[k].from # d
    BY <1>3
  <2>2. client_id[d] # Unregistered /\ client_id[c] # Unregistered /\ client_id[d] + 1 = e => d = c
    <3>1. client_id[d] \in Int /\ client_id[c] \in Int
      BY <1>2 DEF IInv, TypeOK, Ids, Unregistered
    <3> QED
      BY <1>2, <3>1 DEF IInv, EntriesOwned, e
  <2>3. CASE d = c
    <3>1. cpc[d] # "wait_id"
      BY <1>4, <2>3 DEF Stopped
    <3> QED
      BY <1>101, <1>4, <1>5, <1>6, <1>8, <2>3, <3>1 DEF e
  <2>4. CASE d # c
    <3>1. cpc[d] = "wait_id" /\ inbox[d] # <<>> =>
              /\ Head(inbox[d]).id + 1 \in Entries /\ client_queues[Head(inbox[d]).id + 1] = d
      BY DEF IInv, NumberKnown
    <3>2. cpc[d] = "wait_id" /\ inbox[d] # <<>> => client_queues'[Head(inbox[d]).id + 1] = d
      BY <1>2, <1>6, <1>8, <2>4, <3>1, NoQueueAssumption
    <3>3. client_id[d] # Unregistered =>
              client_queues'[client_id[d] + 1] = client_queues[client_id[d] + 1]
      BY <1>8, <2>2, <2>4 DEF IInv, NumberKnown
    <3> QED
      BY <1>10, <2>1, <3>2, <3>3 DEF IInv, NumberKnown
  <2> QED
    BY <2>3, <2>4
<1>16. EntriesOwned'
  <2>1. \A d \in Entries : client_queues'[d] # NoQueue \/ \E f \in Clients : client_id[f] = d - 1
    <3>1. client_id[c] # Unregistered => client_id[c] = e - 1
      BY <1>2 DEF IInv, TypeOK, Ids, e
    <3> QED
      BY <1>2, <1>8, <3>1 DEF IInv, EntriesOwned
  <2> QED
    BY <1>1, <1>8, <2>1 DEF IInv, EntriesOwned
<1>17. FailsOnlyForLeavers'
  BY <1>1, <1>2 DEF FailsOnlyForLeavers
<1> QED
  BY <1>11, <1>12, <1>13, <1>14, <1>15, <1>16, <1>17 DEF IInv
-----------------------------------------------------------------------------
(* While the server serves, every entry has had an owner of its own; so a  *)
(* client that registers finds fewer entries than there are clients.       *)
LEMMA NumbersSuffice ==
  ASSUME IInv, spc = "handle", buff.type = "REGISTER"
  PROVE  Len(client_queues) \in Ids
<1>1. /\ Serving /\ buff.from \in Clients
      /\ client_id[buff.from] = Unregistered /\ ~HasEntry(buff.from)
  BY InHand DEF Truthful
<1>2. /\ Len(client_queues) \in Nat
      /\ \A e \in Entries : client_queues[e] \in Clients \cup {NoQueue} /\ e \in Int /\ e - 1 # Unregistered
  BY DEF IInv, TypeOK, Entries, Unregistered
<1>3. \A e \in Entries : client_queues[e] = NoQueue => \E c \in Clients : client_id[c] = e - 1
  BY <1>1 DEF IInv, EntriesOwned
<1> DEFINE Others == Clients \ {buff.from}
           owner == [e \in Entries |-> IF client_queues[e] # NoQueue THEN client_queues[e]
                                      ELSE CHOOSE c \in Clients : client_id[c] = e - 1]
<1>4. \A e \in Entries :
          /\ client_queues[e] # NoQueue => owner[e] = client_queues[e] /\ owner[e] \in Others
          /\ client_queues[e] = NoQueue => owner[e] \in Others /\ client_id[owner[e]] = e - 1
  <2> SUFFICES ASSUME NEW e \in Entries
               PROVE  /\ client_queues[e] # NoQueue => owner[e] = client_queues[e] /\ owner[e] \in Others
                      /\ client_queues[e] = NoQueue => owner[e] \in Others /\ client_id[owner[e]] = e - 1
    OBVIOUS
  <2>1. CASE client_queues[e] # NoQueue
    BY <1>1, <1>2, <2>1 DEF HasEntry
  <2>2. CASE client_queues[e] = NoQueue
    <3> DEFINE d == CHOOSE c \in Clients : client_id[c] = e - 1
    <3>1. d \in Clients /\ client_id[d] = e - 1
      BY <1>3, <2>2
    <3>2. owner[e] = d
      BY <2>2
    <3> HIDE DEF d, owner
    <3> QED
      BY <1>1, <1>2, <2>2, <3>1, <3>2
  <2> QED
    BY <2>1, <2>2
<1>5. owner \in [Entries -> Others]
  BY <1>4
<1> HIDE DEF owner
<1>6. \A e, f \in Entries : owner[e] = owner[f] => e = f
  <2> SUFFICES ASSUME NEW e \in Entries, NEW f \in Entries, owner[e] = owner[f] PROVE e = f
    OBVIOUS
  <2>1. CASE client_queues[e] # NoQueue /\ client_queues[f] # NoQueue
    BY <1>4, <2>1 DEF IInv, EntriesOwned
  <2>2. CASE client_queues[e] = NoQueue /\ client_queues[f] = NoQueue
    BY <1>2, <1>4, <2>2
  <2>3. \A x, y \in Entries :
            client_queues[x] # NoQueue /\ client_queues[y] = NoQueue => owner[x] # owner[y]
    <3> SUFFICES ASSUME NEW x \in Entries, NEW y \in Entries, client_queues[x] # NoQueue,
                        client_queues[y] = NoQueue, owner[x] = owner[y]
                 PROVE  FALSE
      OBVIOUS
    <3> DEFINE d == owner[y]
    <3>1. d \in Clients /\ client_id[d] = y - 1 /\ client_queues[x] = d
      BY <1>4
    <3>2. HasEntry(d)
      BY <3>1 DEF HasEntry
    <3>3. client_id[d] + 1 = y /\ client_id[d] # Unregistered
      BY <1>2, <3>1
    <3>4. client_queues[y] = d
      BY <3>1, <3>2, <3>3 DEF IInv, NumberKnown
    <3> QED
      BY <3>1, <3>4, NoQueueAssumption
  <2> QED
    BY <2>1, <2>2, <2>3
<1>7. owner \in Injection(Entries, Others)
  BY <1>5, <1>6 DEF Injection, IsInjective
<1>8. /\ IsFiniteSet(Clients) /\ Cardinality(Clients) \in Nat
      /\ IsFiniteSet(Others) /\ Cardinality(Others) = Cardinality(Clients) - 1
  BY <1>1, MqAssumption, FS_CardinalityType, FS_RemoveElement
<1>9. Cardinality(Entries) <= Cardinality(Others)
  BY <1>7, <1>8, FS_Injection
<1>10. Cardinality(Entries) = Len(client_queues)
  <2>1. 1 \in Int /\ Len(client_queues) \in Int
    BY <1>2
  <2>2. Cardinality(1..Len(client_queues)) =
            IF 1 > Len(client_queues) THEN 0 ELSE Len(client_queues) - 1 + 1
    BY <2>1, FS_Interval
  <2> QED
    BY <1>2, <2>2 DEF Entries
<1> QED
  BY <1>2, <1>8, <1>9, <1>10 DEF Ids

(* What an answer does to messages and answers on their way.               *)
LEMMA AnswerKeeps ==
  ASSUME IInv, spc = "handle", Asks(buff), NEW id \in Ids,
         inbox' = [inbox EXCEPT ![buff.from] = Append(@, [n |-> buff.n, id |-> id])],
         spc' = "receive", buff' = Nothing,
         UNCHANGED <<posix, should_end, outcome, queue_removed, server_queue, cpc, client_id,
                     asked, has_queue>>
  PROVE  /\ ServerShape' /\ ClientShape' /\ MessagesInOrder' /\ InboxRight' /\ FailsOnlyForLeavers'
         /\ Serving' /\ inbox' \in [Clients -> Seq(Answers)]
         /\ inbox'[buff.from] # <<>> /\ Head(inbox'[buff.from]).id = id
         /\ \A c \in Clients : c # buff.from => inbox'[c] = inbox[c]
         /\ \A k \in Places' : /\ k + 1 \in Places /\ InFlight'[k] = InFlight[k + 1]
                               /\ InFlight'[k] \in Messages
                               /\ InFlight'[k].from = buff.from => ~Asks(InFlight'[k])
<1> DEFINE a == [n |-> buff.n, id |-> id]
<1>0. PICK c \in Clients : c = buff.from
  BY InHand
<1>1. /\ c = buff.from
      /\ Serving /\ outcome = "running" /\ buff # Nothing /\ buff \in Messages
      /\ c \in Clients /\ Truthful(buff) /\ 1 \in Places /\ InFlight[1] = buff
  BY <1>0, InHand
<1>2. /\ \A k \in Places' : /\ k + 1 \in Places /\ k + 1 > 1 /\ k \in Nat
                            /\ InFlight'[k] = InFlight[k + 1]
      /\ \A k \in Places : k = 1 \/ (k - 1 \in Places' /\ InFlight[k] = InFlight'[k - 1])
  BY <1>1, MessageHandled DEF IInv
<1>3. a \in Answers /\ a.n = asked[c] /\ a.id = id /\ inbox[c] = <<>>
  BY <1>1 DEF Truthful, Answers, Messages
<1>4. Waits(c) \/ Leaving(c)
  BY <1>1 DEF Truthful
<1> HIDE DEF a
<1>5. inbox' = [inbox EXCEPT ![c] = Append(@, a)] /\ inbox \in [Clients -> Seq(Answers)]
  BY <1>1 DEF IInv, TypeOK, a
<1>6. /\ inbox' \in [Clients -> Seq(Answers)]
      /\ inbox'[c] = <<a>> /\ \A d \in Clients : d # c => inbox'[d] = inbox[d]
  <2>1. Append(inbox[c], a) = <<a>> /\ <<a>> \in Seq(Answers)
    BY <1>3
  <2> QED
    BY <1>1, <1>5, <2>1
<1>7. inbox'[c] # <<>> /\ Len(inbox'[c]) = 1 /\ Head(inbox'[c]) = a
  <2>1. ASSUME NEW x PROVE <<x>> # <<>> /\ Len(<<x>>) = 1 /\ Head(<<x>>) = x
    OBVIOUS
  <2> QED
    BY <1>6, <2>1, Zenon
<1>8. Serving'
  BY DEF Serving
<1>9. ServerShape' /\ ClientShape' /\ FailsOnlyForLeavers'
  BY <1>1, <1>8 DEF IInv, ServerShape, ClientShape, FailsOnlyForLeavers
<1>10. MessagesInOrder'
  BY <1>2 DEF IInv, MessagesInOrder, Asks
<1>11. \A k \in Places' : InFlight'[k] \in Messages /\ (InFlight'[k].from = c => ~Asks(InFlight'[k]))
  <2>1. \A k \in Places : InFlight[k] \in Messages
    BY InFlightShape DEF IInv
  <2> QED
    BY <1>1, <1>2, <2>1 DEF IInv, MessagesInOrder
<1>12. InboxRight'
  <2>1. \A d \in Clients : d # c /\ Asking(d) => Asking(d)'
    BY <1>1, <1>2 DEF Asking, Asks
  <2> QED
    BY <1>1, <1>3, <1>4, <1>6, <1>7, <2>1 DEF IInv, InboxRight, Waits, Leaving
<1> QED
  BY <1>1, <1>2, <1>3, <1>6, <1>7, <1>8, <1>9, <1>10, <1>11, <1>12
(* The registration gets the next number.                                  *)
LEMMA RegisterStep == IInv /\ HandleRegister => IInv'
<1> SUFFICES ASSUME IInv, HandleRegister PROVE IInv'
  OBVIOUS
<1>0. PICK c \in Clients : c = buff.from
  BY InHand DEF HandleRegister, Handles
<1> DEFINE new == IF posix /\ ~has_queue[c] THEN NoQueue ELSE c
           id == Len(client_queues)
<1>1. /\ spc = "handle" /\ buff.type = "REGISTER"
      /\ client_queues' = Append(client_queues, new)
      /\ UNCHANGED <<posix, should_end, queue_removed, server_queue, cpc, client_id, asked,
                     has_queue>>
  BY <1>0 DEF HandleRegister, Handles, clientVars
<1>2. SendTo(id, buff.n)
  BY DEF HandleRegister
<1>3. /\ c = buff.from
      /\ Serving /\ outcome = "running" /\ buff # Nothing /\ buff \in Messages
      /\ c \in Clients /\ Truthful(buff) /\ 1 \in Places /\ InFlight[1] = buff
  BY <1>0, <1>1, InHand
<1>4. id \in Ids
  BY <1>1, NumbersSuffice
<1>5. /\ Asks(buff) /\ client_id[c] = Unregistered /\ ~HasEntry(c)
      /\ Waits(c) \/ (Leaving(c) /\ c \in Interruptible)
  BY <1>1, <1>3 DEF Truthful, Asks
<1>6. new \in Clients \cup {NoQueue} /\ client_queues \in Seq(Clients \cup {NoQueue})
  BY <1>3 DEF IInv, TypeOK
<1>7. has_queue[c] <=> cpc[c] # "left"
  BY <1>3, <1>5 DEF IInv, ClientShape, Waits, Leaving
<1>8. /\ new = NoQueue <=> posix /\ ~has_queue[c]
      /\ new # NoQueue => new = c
  BY <1>3, NoQueueAssumption
<1> HIDE DEF new, id
<1>9. /\ client_queues' \in Seq(Clients \cup {NoQueue})
      /\ id \in Nat /\ Entries' = Entries \cup {id + 1} /\ id + 1 \notin Entries
      /\ \A d \in Entries : client_queues'[d] = client_queues[d]
      /\ client_queues'[id + 1] = new
  BY <1>1, <1>6 DEF Entries, id
<1>10. \A d \in Clients : d # c => (HasEntry(d)' <=> HasEntry(d))
  BY <1>8, <1>9, NoQueueAssumption DEF HasEntry
<1>11. CanSendTo(id) <=> has_queue[c]
  BY <1>8, <1>9, NoQueueAssumption DEF CanSendTo
<1>12. \A d, e \in Entries' :
           client_queues'[d] = client_queues'[e] /\ client_queues'[d] # NoQueue => d = e
  BY <1>5, <1>8, <1>9 DEF IInv, EntriesOwned, HasEntry
<1>13. \A d \in Clients :
           /\ client_id[d] # Unregistered =>
                  /\ client_id[d] + 1 \in Entries' /\ d # c
                  /\ client_queues'[client_id[d] + 1] = client_queues[client_id[d] + 1]
           /\ cpc[d] = "wait_id" /\ inbox[d] # <<>> =>
                  /\ Head(inbox[d]).id + 1 \in Entries'
                  /\ client_queues'[Head(inbox[d]).id + 1] = d
           /\ cpc[d] \in {"start", "register"} => d # c
  BY <1>5, <1>9 DEF IInv, NumberKnown, Waits, Leaving
<1>14. CASE has_queue[c]
  <2>1. /\ inbox' = [inbox EXCEPT ![c] = Append(@, [n |-> buff.n, id |-> id])]
        /\ spc' = "receive" /\ buff' = Nothing /\ UNCHANGED outcome
        /\ new = c
    BY <1>11, <1>14, <1>2, <1>3, <1>8, <1>9 DEF SendTo
  <2>2. /\ ServerShape' /\ ClientShape' /\ MessagesInOrder' /\ InboxRight' /\ FailsOnlyForLeavers'
        /\ Serving' /\ inbox' \in [Clients -> Seq(Answers)]
        /\ inbox'[c] # <<>> /\ Head(inbox'[c]).id = id
        /\ \A d \in Clients : d # c => inbox'[d] = inbox[d]
        /\ \A k \in Places' : /\ k + 1 \in Places /\ InFlight'[k] = InFlight[k + 1]
                              /\ InFlight'[k] \in Messages
                              /\ InFlight'[k].from = c => ~Asks(InFlight'[k])
    BY <1>1, <1>3, <1>4, <1>5, <2>1, AnswerKeeps
  <2>3. TypeOK'
    BY <1>1, <1>9, <2>1, <2>2 DEF IInv, TypeOK
  <2>4. MessagesTrue'
    <3>1. \A m \in Messages : Truthful(m) /\ (m.from = c => ~Asks(m)) => Truthful(m)'
      <4>1. \A m \in Messages : m.from \in Clients /\ (m.type = "REGISTER" => Asks(m))
        BY DEF Messages, Asks
      <4> QED
        BY <1>1, <1>3, <1>10, <2>1, <2>2, <4>1
           DEF Truthful, Asks, Waits, Leaving, Stopped
    <3> QED
      BY <2>2, <3>1 DEF IInv, MessagesTrue
  <2>5. NumberKnown'
    <3>1. \A d \in Clients : (\A k \in Places : InFlight[k].from # d) =>
              \A k \in Places' : InFlight'[k].from # d
      BY <2>2
    <3> SUFFICES ASSUME NEW d \in Clients
                 PROVE  /\ client_id[d] # Unregistered =>
                            /\ client_id[d] + 1 \in Entries'
                            /\ \/ client_queues'[client_id[d] + 1] = d
                               \/ /\ client_queues'[client_id[d] + 1] = NoQueue
                                  /\ Stopped(d) /\ ~HasEntry(d)'
                                  /\ \A k \in Places' : InFlight'[k].from # d
                        /\ cpc[d] \in {"start", "register"} =>
                               client_id[d] = Unregistered /\ ~HasEntry(d)'
                        /\ cpc[d] = "wait_id" =>
                               /\ client_id[d] = Unregistered
                               /\ inbox'[d] # <<>> => /\ Head(inbox'[d]).id + 1 \in Entries'
                                                      /\ client_queues'[Head(inbox'[d]).id + 1] = d
                        /\ cpc[d] \in {"ready", "asking", "wait", "ending"} =>
                               client_id[d] # Unregistered
      BY <1>1 DEF NumberKnown, Stopped
    <3>2. CASE d = c
      <4>1. cpc[c] \in {"wait_id", "onexit", "unlink", "left"}
        BY <1>5 DEF IInv, NumberKnown, Waits, Leaving
      <4> QED
        BY <1>5, <1>9, <2>1, <2>2, <3>2, <4>1
    <3>3. CASE d # c
      BY <1>10, <1>13, <2>2, <3>1, <3>3 DEF IInv, NumberKnown
    <3> QED
      BY <3>2, <3>3
  <2>6. EntriesOwned'
    <3>1. \A d \in Entries' : client_queues'[d] # NoQueue \/ \E e \in Clients : client_id[e] = d - 1
      BY <1>3, <1>9, <2>1, NoQueueAssumption DEF IInv, EntriesOwned
    <3> QED
      BY <1>1, <1>12, <3>1 DEF IInv, EntriesOwned
  <2> QED
    BY <2>2, <2>3, <2>4, <2>5, <2>6 DEF IInv
<1>15. CASE ~has_queue[c]
  <2>1. spc' = "onexit" /\ outcome' = "failed" /\ inbox' = inbox /\ buff' = buff
    BY <1>11, <1>15, <1>2 DEF SendTo, Exits
  <2>2. InFlight' = InFlight /\ Places' = Places
    BY <1>1, <2>1 DEF InFlight, Places
  <2>3. ~Serving'
    BY <2>1 DEF Serving
  <2>4. TypeOK' /\ ServerShape' /\ ClientShape'
    BY <1>1, <1>3, <1>9, <2>1, <2>3 DEF IInv, TypeOK, ServerShape, ClientShape
  <2>5. MessagesTrue'
    BY <1>1, <2>1, <2>2, <2>3
       DEF IInv, MessagesTrue, Truthful, Asks, Waits, Leaving, Stopped
  <2>6. MessagesInOrder'
    BY <2>2 DEF IInv, MessagesInOrder, Asks
  <2>7. InboxRight'
    BY <1>1, <2>1, <2>2 DEF IInv, InboxRight, Waits, Leaving, Asking, Asks
  <2>8. NumberKnown'
    <3> SUFFICES ASSUME NEW d \in Clients
                 PROVE  /\ client_id[d] # Unregistered =>
                            /\ client_id[d] + 1 \in Entries'
                            /\ \/ client_queues'[client_id[d] + 1] = d
                               \/ /\ client_queues'[client_id[d] + 1] = NoQueue
                                  /\ Stopped(d) /\ ~HasEntry(d)'
                                  /\ \A k \in Places : InFlight[k].from # d
                        /\ cpc[d] \in {"start", "register"} =>
                               client_id[d] = Unregistered /\ ~HasEntry(d)'
                        /\ cpc[d] = "wait_id" =>
                               /\ client_id[d] = Unregistered
                               /\ inbox[d] # <<>> => /\ Head(inbox[d]).id + 1 \in Entries'
                                                     /\ client_queues'[Head(inbox[d]).id + 1] = d
                        /\ cpc[d] \in {"ready", "asking", "wait", "ending"} =>
                               client_id[d] # Unregistered
      BY <1>1, <2>1, <2>2, ZenonT(60) DEF NumberKnown, Stopped
    <3>1. CASE d = c
      <4>1. cpc[c] \in {"wait_id", "onexit", "unlink", "left"}
        BY <1>5 DEF IInv, NumberKnown, Waits, Leaving
      <4> QED
        BY <1>5, <1>13, <3>1, <4>1
    <3>2. CASE d # c
      BY <1>10, <1>13, <3>2 DEF IInv, NumberKnown
    <3> QED
      BY <3>1, <3>2
  <2>9. EntriesOwned'
    BY <1>1, <1>12, <2>3 DEF IInv, EntriesOwned
  <2>10. FailsOnlyForLeavers'
    BY <1>1, <1>3, <1>5, <1>7, <1>15, <2>1 DEF FailsOnlyForLeavers, Waits
  <2> QED
    BY <2>4, <2>5, <2>6, <2>7, <2>8, <2>9, <2>10 DEF IInv
<1> QED
  BY <1>14, <1>15

(* The answer to a request goes to the client that asked.                  *)
LEMMA RequestStep == IInv /\ HandleRequest => IInv'
<1> SUFFICES ASSUME IInv, HandleRequest PROVE IInv'
  OBVIOUS
<1>0. PICK c \in Clients : c = buff.from
  BY InHand DEF HandleRequest, Handles
<1> DEFINE id == client_id[c]
<1>1. /\ spc = "handle" /\ buff.type = "REQUEST"
      /\ UNCHANGED <<posix, should_end, queue_removed, server_queue, cpc, client_id, asked,
                     has_queue, client_queues>>
  BY DEF HandleRequest, Handles, clientVars
<1>2. SendTo(buff.sender_id, buff.n)
  BY DEF HandleRequest
<1>3. /\ c = buff.from
      /\ Serving /\ outcome = "running" /\ buff # Nothing /\ buff \in Messages
      /\ c \in Clients /\ Truthful(buff) /\ 1 \in Places /\ InFlight[1] = buff
  BY <1>0, <1>1, InHand
<1>4. /\ Asks(buff) /\ id # Unregistered /\ buff.sender_id = id /\ id \in Ids
      /\ Waits(c) \/ (Leaving(c) /\ c \in Interruptible)
  BY <1>1, <1>3 DEF Truthful, Asks, IInv, TypeOK
<1>5. id + 1 \in Entries /\ client_queues[id + 1] = c
  BY <1>3, <1>4 DEF IInv, NumberKnown
<1>6. has_queue[c] <=> cpc[c] # "left"
  BY <1>3, <1>4 DEF IInv, ClientShape, Waits, Leaving
<1>7. CanSendTo(buff.sender_id) <=> posix \/ has_queue[c]
  BY <1>1, <1>3, <1>4, <1>5, NoQueueAssumption DEF CanSendTo
<1>8. Entries' = Entries /\ client_queues'[buff.sender_id + 1] = c
  BY <1>1, <1>4, <1>5 DEF Entries
<1> HIDE DEF id
<1>9. CASE posix \/ has_queue[c]
  <2>1. /\ inbox' = [inbox EXCEPT ![c] = Append(@, [n |-> buff.n, id |-> id])]
        /\ spc' = "receive" /\ buff' = Nothing /\ UNCHANGED outcome
    BY <1>2, <1>3, <1>4, <1>7, <1>8, <1>9 DEF SendTo
  <2>2. /\ ServerShape' /\ ClientShape' /\ MessagesInOrder' /\ InboxRight' /\ FailsOnlyForLeavers'
        /\ Serving' /\ inbox' \in [Clients -> Seq(Answers)]
        /\ inbox'[c] # <<>> /\ Head(inbox'[c]).id = id
        /\ \A d \in Clients : d # c => inbox'[d] = inbox[d]
        /\ \A k \in Places' : /\ k + 1 \in Places /\ InFlight'[k] = InFlight[k + 1]
                              /\ InFlight'[k] \in Messages
                              /\ InFlight'[k].from = c => ~Asks(InFlight'[k])
    BY <1>1, <1>3, <1>4, <2>1, AnswerKeeps
  <2>3. TypeOK'
    BY <1>1, <2>1, <2>2 DEF IInv, TypeOK
  <2>4. MessagesTrue'
    <3>1. \A m \in Messages : Truthful(m) /\ (m.from = c => ~Asks(m)) => Truthful(m)'
      <4>1. \A m \in Messages : m.from \in Clients
        BY DEF Messages
      <4> QED
        BY <1>1, <1>3, <1>8, <2>1, <2>2, <4>1
           DEF Truthful, Asks, Waits, Leaving, Stopped, HasEntry
    <3> QED
      BY <2>2, <3>1 DEF IInv, MessagesTrue
  <2>5. NumberKnown'
    <3>1. \A d \in Clients : (\A k \in Places : InFlight[k].from # d) =>
              \A k \in Places' : InFlight'[k].from # d
      BY <2>2
    <3> QED
      BY <1>1, <1>3, <1>4, <1>5, <1>8, <2>1, <2>2, <3>1
         DEF IInv, NumberKnown, Stopped, HasEntry
  <2>6. EntriesOwned'
    BY <1>1, <1>8, <1>3 DEF IInv, EntriesOwned
  <2> QED
    BY <2>2, <2>3, <2>4, <2>5, <2>6 DEF IInv
<1>10. CASE ~(posix \/ has_queue[c])
  <2>1. spc' = "onexit" /\ outcome' = "failed" /\ inbox' = inbox /\ buff' = buff
    BY <1>7, <1>10, <1>2 DEF SendTo, Exits
  <2>2. InFlight' = InFlight /\ Places' = Places
    BY <1>1, <2>1 DEF InFlight, Places
  <2>3. ~Serving'
    BY <2>1 DEF Serving
  <2>4. TypeOK' /\ ServerShape' /\ ClientShape'
    BY <1>1, <1>3, <2>1, <2>3 DEF IInv, TypeOK, ServerShape, ClientShape
  <2>5. MessagesTrue'
    BY <1>1, <2>1, <2>2, <2>3
       DEF IInv, MessagesTrue, Truthful, Asks, Waits, Leaving, Stopped
  <2>6. MessagesInOrder'
    BY <2>2 DEF IInv, MessagesInOrder, Asks
  <2>7. InboxRight'
    BY <1>1, <2>1, <2>2 DEF IInv, InboxRight, Waits, Leaving, Asking, Asks
  <2>8. NumberKnown'
    BY <1>1, <1>8, <2>1, <2>2 DEF IInv, NumberKnown, Stopped, HasEntry
  <2>9. EntriesOwned'
    BY <1>1, <1>8, <2>3 DEF IInv, EntriesOwned
  <2>10. FailsOnlyForLeavers'
    BY <1>1, <1>3, <1>4, <1>6, <1>10, <2>1 DEF FailsOnlyForLeavers, Waits
  <2> QED
    BY <2>4, <2>5, <2>6, <2>7, <2>8, <2>9, <2>10 DEF IInv
<1> QED
  BY <1>9, <1>10
-----------------------------------------------------------------------------
LEMMA InitIInv == Init => IInv
<1> SUFFICES ASSUME Init PROVE IInv
  OBVIOUS
<1>1. InFlight = <<>> /\ Places = {} /\ Entries = {}
  BY DEF Init, InFlight, Places, Entries
<1>2. TypeOK
  <2>1. \A S : <<>> \in Seq(S)
    OBVIOUS
  <2>2. Len(server_queue) <= Capacity
    BY MqAssumption DEF Init
  <2>3. /\ asked \in [Clients -> 0..Requests] /\ has_queue \in [Clients -> BOOLEAN]
        /\ inbox \in [Clients -> Seq(Answers)]
        /\ client_id \in [Clients -> Ids \cup {Unregistered}]
    BY <2>1, MqAssumption DEF Init
  <2> QED
    BY <2>1, <2>2, <2>3 DEF Init, TypeOK
<1>3. ServerShape /\ ClientShape /\ FailsOnlyForLeavers
  BY DEF Init, ServerShape, ClientShape, Serving, FailsOnlyForLeavers
<1>4. MessagesTrue /\ MessagesInOrder /\ EntriesOwned
  BY <1>1 DEF Init, MessagesTrue, MessagesInOrder, EntriesOwned
<1>5. InboxRight /\ NumberKnown
  BY <1>1 DEF Init, InboxRight, NumberKnown, HasEntry, Waits, Unregistered
<1> QED
  BY <1>2, <1>3, <1>4, <1>5 DEF IInv

LEMMA StutterIInv == IInv /\ UNCHANGED vars => IInv'
<1> SUFFICES ASSUME IInv, UNCHANGED vars PROVE IInv'
  OBVIOUS
<1>1. UNCHANGED <<posix, spc, should_end, outcome, buff, queue_removed, client_queues,
                  server_queue, cpc, client_id, asked, has_queue, inbox>>
  BY DEF vars, serverVars, clientVars
<1>2. InFlight' = InFlight /\ Places' = Places /\ Entries' = Entries
  BY <1>1 DEF InFlight, Places, Entries
<1>3. TypeOK' /\ ServerShape' /\ ClientShape' /\ FailsOnlyForLeavers'
  BY <1>1 DEF IInv, TypeOK, ServerShape, ClientShape, Serving, FailsOnlyForLeavers
<1>4. MessagesTrue' /\ MessagesInOrder' /\ EntriesOwned'
  BY <1>1, <1>2
     DEF IInv, MessagesTrue, MessagesInOrder, EntriesOwned, Truthful, Asks, Waits, Leaving,
         Stopped, HasEntry, Serving
<1>5. InboxRight' /\ NumberKnown'
  BY <1>1, <1>2
     DEF IInv, InboxRight, NumberKnown, HasEntry, Waits, Leaving, Stopped, Asking, Asks
<1> QED
  BY <1>3, <1>4, <1>5 DEF IInv

LEMMA Invariance == Spec => []IInv
<1>1. IInv /\ [Next]_vars => IInv'
  <2> SUFFICES ASSUME IInv, [Next]_vars PROVE IInv'
    OBVIOUS
  <2>1. CASE Server
    BY <2>1, ReceiveStep, HaltStep, GoneStep, RegisterStep, RequestStep, EndStep, StopStep
       DEF Server
  <2>2. CASE ServerInterrupt
    BY <2>2, HaltStep
  <2>3. CASE \E c \in Clients : Works(c) \/ Input(c) \/ Interrupt(c)
    BY <2>3, ClientStep
  <2>4. CASE Quiet \/ UNCHANGED vars
    BY <2>4, StutterIInv DEF Quiet
  <2> QED
    BY <2>1, <2>2, <2>3, <2>4 DEF Next
<1> QED
  BY <1>1, InitIInv, PTL DEF Spec

(* All state is what the declarations of server.c and client.c hold; in    *)
(* particular no more numbers are given out than there are clients.        *)
THEOREM MqTypeCorrect == Spec => []TypeOK
<1>1. IInv => TypeOK
  BY DEF IInv
<1> QED
  BY <1>1, Invariance, PTL

(* client_idx and client_queues: a number is one client's, for as long as  *)
(* it lasts, and stands for the queue of that client until it leaves.      *)
THEOREM MqNumbersDistinct == Spec => []NumbersDistinct
<1>1. IInv => NumbersDistinct
  <2> SUFFICES ASSUME IInv, NEW c \in Clients, client_id[c] # Unregistered
               PROVE  /\ client_id[c] < Len(client_queues)
                      /\ cpc[c] \notin {"unlink", "left"} => client_queues[client_id[c] + 1] = c
                      /\ \A d \in Clients : client_id[d] = client_id[c] => d = c
    BY DEF NumbersDistinct
  <2>1. client_id[c] + 1 \in Entries /\ client_id[c] \in Int /\ Len(client_queues) \in Nat
    BY DEF IInv, TypeOK, NumberKnown, Ids
  <2>2. client_id[c] < Len(client_queues)
    BY <2>1 DEF Entries
  <2>3. cpc[c] \notin {"unlink", "left"} => client_queues[client_id[c] + 1] = c
    BY DEF IInv, NumberKnown, Stopped
  <2> QED
    BY <2>2, <2>3 DEF IInv, EntriesOwned
<1> QED
  BY <1>1, Invariance, PTL

(* Until the server is gone a client that waits has its request or its     *)
(* answer on the way, once; IPC_RMID may then destroy requests, but leaves *)
(* none open that was answered.                                            *)
THEOREM MqRequestAccounted == Spec => []RequestAccounted
<1>1. IInv => RequestAccounted
  <2> SUFFICES ASSUME IInv, NEW c \in Clients
               PROVE  /\ Waits(c) /\ spc # "gone" => Cardinality(OpenRequests(c)) + Len(inbox[c]) = 1
                      /\ Waits(c) => Cardinality(OpenRequests(c)) + Len(inbox[c]) <= 1
                      /\ ~Waits(c) /\ ~Leaving(c) => OpenRequests(c) = {} /\ inbox[c] = <<>>
                      /\ Len(inbox[c]) <= 1
                      /\ inbox[c] # <<>> => Head(inbox[c]).n = asked[c]
    BY DEF RequestAccounted, Leaving
  <2>1. /\ \A k \in OpenRequests(c) : k \in Places /\ k \in Nat
                                       /\ Asks(InFlight[k]) /\ InFlight[k].from = c
        /\ Asking(c) <=> OpenRequests(c) # {}
    BY DEF OpenRequests, Places, Asking
  <2>2. \A j, k \in OpenRequests(c) : j = k
    <3>1. \A j, k \in OpenRequests(c) : ~(j < k)
      BY <2>1 DEF IInv, MessagesInOrder
    <3> QED
      BY <2>1, <3>1
  <2>3. Cardinality(OpenRequests(c)) = IF Asking(c) THEN 1 ELSE 0
    <3>1. CASE Asking(c)
      <4>1. PICK k \in OpenRequests(c) : TRUE
        BY <2>1, <3>1
      <4>2. OpenRequests(c) = {k}
        BY <2>2, <4>1
      <4> QED
        BY <3>1, <4>2, FS_Singleton
    <3>2. CASE ~Asking(c)
      BY <2>1, <3>2, FS_EmptySet
    <3> QED
      BY <3>1, <3>2
  <2>4. /\ Len(inbox[c]) <= 1
        /\ \/ inbox[c] = <<>> /\ Len(inbox[c]) = 0
           \/ inbox[c] # <<>> /\ Len(inbox[c]) = 1
    <3>1. inbox[c] \in Seq(Answers) /\ Len(inbox[c]) <= 1
      BY DEF IInv, TypeOK, InboxRight
    <3>2. ASSUME NEW b \in Seq(Answers), Len(b) <= 1
          PROVE  \/ b = <<>> /\ Len(b) = 0
                 \/ b # <<>> /\ Len(b) = 1
      <4>1. Len(b) \in Nat /\ (b = <<>> <=> Len(b) = 0)
        BY EmptySeq
      <4> QED
        BY <3>2, <4>1
    <3> QED
      BY <3>1, <3>2
  <2>5. Asking(c) => inbox[c] = <<>> /\ (Waits(c) \/ Leaving(c))
    BY DEF Asking, IInv, MessagesTrue, Truthful
  <2>6. /\ Waits(c) /\ spc # "gone" => Cardinality(OpenRequests(c)) + Len(inbox[c]) = 1
        /\ Cardinality(OpenRequests(c)) + Len(inbox[c]) <= 1
    <3>1. Waits(c) /\ spc # "gone" => Asking(c) \/ inbox[c] # <<>>
      BY DEF IInv, InboxRight
    <3> DEFINE l == Len(inbox[c])
    <3>2. (inbox[c] = <<>> /\ l = 0) \/ (inbox[c] # <<>> /\ l = 1)
      BY <2>4
    <3> HIDE DEF l
    <3>3. /\ Waits(c) /\ spc # "gone" => Cardinality(OpenRequests(c)) + l = 1
          /\ Cardinality(OpenRequests(c)) + l <= 1
      BY <2>3, <2>5, <3>1, <3>2
    <3> QED
      BY <3>3 DEF l
  <2>7. ~Waits(c) /\ ~Leaving(c) => OpenRequests(c) = {} /\ inbox[c] = <<>>
    BY <2>1, <2>5 DEF IInv, InboxRight
  <2>8. inbox[c] # <<>> => Head(inbox[c]).n = asked[c]
    BY DEF IInv, InboxRight
  <2> QED
    BY <2>4, <2>6, <2>7, <2>8
<1> QED
  BY <1>1, Invariance, PTL

(* OK() in send_to ends the server only for the sake of a client that was  *)
(* interrupted and has gone; in zad2 only while it is being registered.    *)
THEOREM MqFailsOnlyForLeavers == Spec => []FailsOnlyForLeavers
<1>1. IInv => FailsOnlyForLeavers
  BY DEF IInv
<1> QED
  BY <1>1, Invariance, PTL
-----------------------------------------------------------------------------
(***************************************************************************)
(* The members of a set of places, counted off in order.                   *)
(***************************************************************************)
Rank(S, i) == Cardinality({j \in S : j <= i})

LEMMA PlacesFinite ==
  ASSUME NEW N \in Nat, NEW S \in SUBSET (1..N)
  PROVE  /\ IsFiniteSet(S) /\ Cardinality(S) \in Nat
         /\ \A i \in Int : IsFiniteSet({j \in S : j <= i}) /\ Rank(S, i) \in Nat
<1>1. IsFiniteSet(1..N) /\ S \in SUBSET (1..N)
  BY FS_Interval
<1>2. IsFiniteSet(S)
  BY <1>1, FS_Subset
<1>3. ASSUME NEW i \in Int
      PROVE  IsFiniteSet({j \in S : j <= i}) /\ Rank(S, i) \in Nat
  <2>1. {j \in S : j <= i} \in SUBSET S
    OBVIOUS
  <2> QED
    BY <1>2, <2>1, FS_Subset, FS_CardinalityType DEF Rank
<1> QED
  BY <1>2, <1>3, FS_CardinalityType

(* The places up to i are those before i, and i.                           *)
LEMMA RankSteps ==
  ASSUME NEW N \in Nat, NEW S \in SUBSET (1..N)
  PROVE  /\ Rank(S, 0) = 0 /\ Rank(S, N) = Cardinality(S)
         /\ \A i \in Nat : i # 0 =>
                Rank(S, i) = IF i \in S THEN Rank(S, i - 1) + 1 ELSE Rank(S, i - 1)
<1>1. \A m \in S : m \in Nat /\ m >= 1 /\ m <= N
  OBVIOUS
<1>2. {j \in S : j <= 0} = {} /\ {j \in S : j <= N} = S
  <2>1. ASSUME NEW m \in {j \in S : j <= 0} PROVE FALSE
    <3>1. m \in S /\ m <= 0
      BY <2>1
    <3> QED
      BY <1>1, <3>1
  <2>2. {j \in S : j <= N} = S
    BY <1>1
  <2> QED
    BY <2>1, <2>2
<1>3. ASSUME NEW i \in Nat, i # 0
      PROVE  Rank(S, i) = IF i \in S THEN Rank(S, i - 1) + 1 ELSE Rank(S, i - 1)
  <2> DEFINE before == {j \in S : j <= i - 1}
  <2>1. \A m \in S : m \in Int /\ (m <= i <=> m <= i - 1 \/ m = i)
    BY <1>1
  <2>2. i \in Int /\ ~ (i <= i - 1) /\ i - 1 \in Int
    OBVIOUS
  <2>3. IF i \in S THEN {j \in S : j <= i} = before \cup {i} /\ i \notin before
        ELSE {j \in S : j <= i} = before
    BY <2>1, <2>2
  <2>4. IsFiniteSet(before)
    BY <2>2, PlacesFinite
  <2> HIDE DEF before
  <2>5. IF i \in S THEN Cardinality({j \in S : j <= i}) = Cardinality(before) + 1
        ELSE Cardinality({j \in S : j <= i}) = Cardinality(before)
    BY <2>3, <2>4, FS_AddElement
  <2> QED
    BY <2>5 DEF Rank, before
<1> QED
  BY <1>2, <1>3, FS_EmptySet DEF Rank

(* No two members have the same rank.                                      *)
LEMMA RankGrows ==
  ASSUME NEW N \in Nat, NEW S \in SUBSET (1..N), NEW i \in S, NEW j \in S, i < j
  PROVE  Rank(S, i) < Rank(S, j)
<1>1. i \in Nat /\ j \in Nat /\ j # 0 /\ j - 1 \in Int /\ i <= j - 1
  OBVIOUS
<1>2. Rank(S, j) = Rank(S, j - 1) + 1
  BY <1>1, RankSteps
<1>3. {m \in S : m <= i} \in SUBSET {m \in S : m <= j - 1}
  <2>1. \A m \in S : m \in Int
    OBVIOUS
  <2>2. \A m \in S : m <= i => m <= j - 1
    BY <1>1, <2>1
  <2> QED
    BY <2>2
<1>4. IsFiniteSet({m \in S : m <= j - 1}) /\ Rank(S, j - 1) \in Nat /\ Rank(S, i) \in Nat
  <2>1. Rank(S, j - 1) \in Nat /\ Rank(S, i) \in Nat
    <3>1. \A m \in Int : Rank(S, m) \in Nat
      BY PlacesFinite
    <3>2. i \in Int /\ j - 1 \in Int
      BY <1>1
    <3> QED
      BY <3>1, <3>2
  <2>2. {m \in S : m <= j - 1} \in SUBSET S /\ IsFiniteSet(S)
    BY PlacesFinite
  <2> QED
    BY <2>1, <2>2, FS_Subset
<1>5. Rank(S, i) <= Rank(S, j - 1)
  BY <1>3, <1>4, FS_Subset DEF Rank
<1> QED
  BY <1>2, <1>4, <1>5

LEMMA NthIs ==
  ASSUME NEW N \in Nat, NEW S \in SUBSET (1..N), NEW i \in S
  PROVE  Nth(S, Rank(S, i)) = i
<1> DEFINE k == Rank(S, i)
<1>1. \A j \in S : Rank(S, j) = k => j = i
  <2> SUFFICES ASSUME NEW j \in S, j # i PROVE Rank(S, j) # Rank(S, i)
    OBVIOUS
  <2>1. i \in Int /\ j \in Int
    OBVIOUS
  <2>2. Rank(S, i) \in Nat /\ Rank(S, j) \in Nat
    BY <2>1, PlacesFinite
  <2>3. CASE i < j
    <3>1. Rank(S, i) < Rank(S, j)
      BY <2>3, RankGrows
    <3> QED
      BY <2>2, <3>1
  <2>4. CASE j < i
    <3>1. Rank(S, j) < Rank(S, i)
      BY <2>4, RankGrows
    <3> QED
      BY <2>2, <3>1
  <2> QED
    BY <2>1, <2>3, <2>4
<1> HIDE DEF k
<1>2. Nth(S, k) = CHOOSE j \in S : Rank(S, j) = k
  BY Zenon DEF Nth, Rank
<1>3. Rank(S, i) = k
  BY DEF k
<1>4. Nth(S, k) = i
  BY <1>1, <1>2, <1>3
<1> QED
  BY <1>3, <1>4

LEMMA LeastNumber ==
  ASSUME NEW T, T \subseteq Nat, T # {}
  PROVE  \E x \in T : \A y \in T : x <= y
<1>1. PICK x \in T : \A y \in T : ~ (<<y, x>> \in OpToRel(<, Nat))
  BY WFMin, NatLessThanWellFounded, Zenon
<1>2. \A y \in Nat : x \in Nat /\ y < x => <<y, x>> \in OpToRel(<, Nat)
  BY Zenon DEF OpToRel
<1>3. \A y \in T : ~ (y < x)
  BY <1>1, <1>2
<1> QED
  BY <1>3

LEMMA NthMember ==
  ASSUME NEW N \in Nat, NEW S \in SUBSET (1..N), NEW k \in 1..Cardinality(S)
  PROVE  Nth(S, k) \in S /\ Rank(S, Nth(S, k)) = k
<1>1. k \in Nat /\ k >= 1 /\ k <= Cardinality(S) /\ Cardinality(S) \in Nat
  <2>1. Cardinality(S) \in Nat
    BY PlacesFinite
  <2> QED
    BY <2>1
<1>0. /\ Rank(S, 0) = 0 /\ Rank(S, N) = Cardinality(S)
      /\ \A i \in Nat : i # 0 =>
             Rank(S, i) = IF i \in S THEN Rank(S, i - 1) + 1 ELSE Rank(S, i - 1)
      /\ \A i \in Int : Rank(S, i) \in Nat
  BY RankSteps, PlacesFinite
<1>2. PICK x \in Nat : /\ Rank(S, x) >= k
                       /\ \A y \in Nat : Rank(S, y) >= k => x <= y
  <2> DEFINE Enough == {n \in Nat : Rank(S, n) >= k}
  <2>1. Enough \subseteq Nat /\ Enough # {}
    BY <1>1, <1>0
  <2>2. \E x \in Enough : \A y \in Enough : x <= y
    <3> HIDE DEF Enough
    <3> QED
      BY <2>1, LeastNumber
  <2> QED
    BY <2>2
<1>3. x # 0
  BY <1>1, <1>2, <1>0
<1>4. /\ x - 1 \in Nat /\ Rank(S, x - 1) < k
      /\ Rank(S, x) \in Nat /\ Rank(S, x - 1) \in Nat
  <2>1. x - 1 \in Nat /\ x - 1 < x /\ x \in Int
    BY <1>3
  <2>2. Rank(S, x) \in Nat /\ Rank(S, x - 1) \in Nat
    BY <2>1, <1>0
  <2>3. ~ (Rank(S, x - 1) >= k)
    BY <1>2, <2>1
  <2> QED
    BY <1>1, <2>1, <2>2, <2>3
<1>5. Rank(S, x) = IF x \in S THEN Rank(S, x - 1) + 1 ELSE Rank(S, x - 1)
  BY <1>3, <1>0
<1>6. x \in S /\ Rank(S, x) = k
  BY <1>1, <1>2, <1>4, <1>5
<1> QED
  BY <1>6, NthIs

EndsWith(T, S, n) ==
    /\ Cardinality(T) = Cardinality(S) + 1
    /\ \A k \in 1..Cardinality(S) : Nth(T, k) = Nth(S, k)
    /\ Nth(T, Cardinality(S) + 1) = n

(* A place behind all others comes last.                                   *)
LEMMA NthAppend ==
  ASSUME NEW N \in Nat, NEW S \in SUBSET (1..N)
  PROVE  EndsWith(S \cup {N + 1}, S, N + 1)
<1> DEFINE T == S \cup {N + 1}
<1>1. T \in SUBSET (1..N + 1) /\ N + 1 \in Nat /\ N + 1 \notin S /\ N + 1 \in T
  OBVIOUS
<1>2. IsFiniteSet(S) /\ Cardinality(S) \in Nat
  BY PlacesFinite
<1>3. Cardinality(T) = Cardinality(S) + 1
  BY <1>1, <1>2, FS_AddElement
<1>4. ASSUME NEW k \in 1..Cardinality(S) PROVE Nth(T, k) = Nth(S, k)
  <2> DEFINE i == Nth(S, k)
  <2>1. i \in S /\ Rank(S, i) = k
    BY NthMember
  <2> HIDE DEF i
  <2>2. i \in T /\ i \in Int /\ ~ (N + 1 <= i)
    BY <2>1
  <2>3. {j \in T : j <= i} = {j \in S : j <= i}
    BY <2>2
  <2>4. Rank(T, i) = k
    BY <2>1, <2>3 DEF Rank
  <2>5. Nth(T, k) = i
    BY <1>1, <2>2, <2>4, NthIs
  <2> QED
    BY <2>5 DEF i
<1>5. Nth(T, Cardinality(S) + 1) = N + 1
  <2>1. Rank(T, N + 1) = Cardinality(S) + 1
    BY <1>1, <1>3, RankSteps
  <2> QED
    BY <1>1, <2>1, NthIs
<1> QED
  BY <1>3, <1>4, <1>5 DEF EndsWith

MovedUp(T, S) == \A i \in Nat : i \in T <=> i >= 1 /\ i + 1 \in S

StartsWith(T, S) ==
    LET d == IF 1 \in S THEN 1 ELSE 0
    IN  /\ Cardinality(S) = Cardinality(T) + d
        /\ \A k \in 1..Cardinality(T) : Nth(S, k + d) = Nth(T, k) + 1
        /\ 1 \in S => Nth(S, 1) = 1

(* Without the first place all others move up by one.                      *)
LEMMA NthTail ==
  ASSUME NEW N \in Nat, NEW S \in SUBSET (1..N), NEW T \in SUBSET (1..N), MovedUp(T, S)
  PROVE  StartsWith(T, S)
<1>m. \A i \in Nat : i \in T <=> i >= 1 /\ i + 1 \in S
  BY DEF MovedUp
<1> DEFINE d == IF 1 \in S THEN 1 ELSE 0
<1>s. /\ Rank(S, 0) = 0 /\ Rank(S, N) = Cardinality(S) /\ Cardinality(S) \in Nat
      /\ \A i \in Nat : i # 0 =>
             Rank(S, i) = IF i \in S THEN Rank(S, i - 1) + 1 ELSE Rank(S, i - 1)
  BY RankSteps, PlacesFinite
<1>t. /\ Rank(T, 0) = 0 /\ Rank(T, N) = Cardinality(T) /\ Cardinality(T) \in Nat
      /\ \A i \in Nat : i # 0 =>
             Rank(T, i) = IF i \in T THEN Rank(T, i - 1) + 1 ELSE Rank(T, i - 1)
      /\ \A i \in Int : Rank(T, i) \in Nat
  BY RankSteps, PlacesFinite
<1>1. d \in Nat /\ Rank(S, 1) = d
  <2>1. Rank(S, 1) = IF 1 \in S THEN Rank(S, 0) + 1 ELSE Rank(S, 0)
    <3>1. 1 \in Nat /\ 1 # 0 /\ 1 - 1 = 0
      OBVIOUS
    <3> QED
      BY <1>s, <3>1
  <2> QED
    BY <1>s, <2>1
<1>2. \A i \in Nat : Rank(S, i + 1) = Rank(T, i) + d
  <2> DEFINE Off == {i \in Nat : Rank(S, i + 1) # Rank(T, i) + d}
  <2> SUFFICES ASSUME Off # {} PROVE FALSE
    OBVIOUS
  <2>1. \E i \in Off : \A y \in Off : i <= y
    <3>1. Off \subseteq Nat
      OBVIOUS
    <3> HIDE DEF Off
    <3> QED
      BY <3>1, LeastNumber
  <2>2. PICK i \in Nat : /\ Rank(S, i + 1) # Rank(T, i) + d
                         /\ \A y \in Nat : Rank(S, y + 1) # Rank(T, y) + d => i <= y
    BY <2>1
  <2> HIDE DEF d
  <2>3. i # 0
    BY <1>1, <2>2, <1>s, <1>t
  <2>4. i - 1 \in Nat /\ i + 1 \in Nat /\ i + 1 # 0 /\ (i + 1) - 1 = i /\ (i - 1) + 1 = i
        /\ ~ (i <= i - 1)
    BY <2>3
  <2>5. Rank(S, i) = Rank(T, i - 1) + d
    BY <2>2, <2>4
  <2>6. Rank(T, i) = IF i \in T THEN Rank(T, i - 1) + 1 ELSE Rank(T, i - 1)
    BY <2>3, <1>t
  <2>7. Rank(S, i + 1) = IF i + 1 \in S THEN Rank(S, i) + 1 ELSE Rank(S, i)
    <3> DEFINE n == i + 1
    <3>1. n \in Nat /\ n # 0 /\ n - 1 = i
      BY <2>4
    <3> HIDE DEF n
    <3>2. Rank(S, n) = IF n \in S THEN Rank(S, i) + 1 ELSE Rank(S, i)
      BY <1>s, <3>1
    <3> QED
      BY <3>2 DEF n
  <2>8. i \in T <=> i + 1 \in S
    BY <1>m, <2>3
  <2>9. Rank(T, i - 1) \in Nat
    BY <2>4, <1>t
  <2> QED
    BY <1>1, <2>2, <2>5, <2>6, <2>7, <2>8, <2>9
<1> HIDE DEF d
<1>3. Cardinality(S) = Cardinality(T) + d /\ Cardinality(T) \in Nat
  <2>1. Rank(S, N + 1) = Cardinality(S)
    <3>1. N + 1 \notin S /\ N + 1 \in Nat /\ N + 1 # 0 /\ (N + 1) - 1 = N
      OBVIOUS
    <3> QED
      BY <1>s, <3>1
  <2> QED
    BY <1>2, <1>t, <2>1
<1>4. ASSUME NEW k \in 1..Cardinality(T) PROVE Nth(S, k + d) = Nth(T, k) + 1
  <2> DEFINE i == Nth(T, k)
  <2>1. i \in T /\ Rank(T, i) = k
    BY NthMember
  <2> HIDE DEF i
  <2>2. i \in Nat /\ i + 1 \in S
    BY <1>m, <2>1
  <2>3. Rank(S, i + 1) = k + d
    BY <1>2, <2>1, <2>2
  <2>4. Nth(S, k + d) = i + 1
    BY <2>2, <2>3, NthIs
  <2> QED
    BY <2>4 DEF i
<1>5. 1 \in S => Nth(S, 1) = 1
  <2>1. 1 \in S => d = 1
    BY DEF d
  <2>2. 1 \in S => Nth(S, Rank(S, 1)) = 1
    BY NthIs
  <2> QED
    BY <1>1, <2>1, <2>2
<1> QED
  BY <1>3, <1>4, <1>5 DEF d, StartsWith
-----------------------------------------------------------------------------
(* The open requests among the messages in flight.                         *)
LEMMA OpenShape ==
  ASSUME NEW s \in Seq(Messages)
  PROVE  /\ Len(s) \in Nat
         /\ OpenPlaces(s) \in SUBSET (1..Len(s))
         /\ Cardinality(OpenPlaces(s)) \in Nat
         /\ OpenOnes(s) \in Seq(Clients \X (0..Requests))
         /\ Len(OpenOnes(s)) = Cardinality(OpenPlaces(s))
         /\ \A k \in 1..Len(OpenOnes(s)) :
                /\ Nth(OpenPlaces(s), k) \in OpenPlaces(s)
                /\ OpenOnes(s)[k] = <<s[Nth(OpenPlaces(s), k)].from, s[Nth(OpenPlaces(s), k)].n>>
<1>1. Len(s) \in Nat
  OBVIOUS
<1>2. OpenPlaces(s) \in SUBSET (1..Len(s))
  BY DEF OpenPlaces
<1>3. Cardinality(OpenPlaces(s)) \in Nat
  BY <1>1, <1>2, PlacesFinite
<1>4. \A k \in 1..Cardinality(OpenPlaces(s)) : Nth(OpenPlaces(s), k) \in OpenPlaces(s)
  BY <1>1, <1>2, NthMember
<1>5. \A i \in OpenPlaces(s) : s[i] \in Messages
  BY <1>2
<1>6. \A k \in 1..Cardinality(OpenPlaces(s)) :
          s[Nth(OpenPlaces(s), k)].from \in Clients /\ s[Nth(OpenPlaces(s), k)].n \in 0..Requests
  BY <1>4, <1>5 DEF Messages
<1>7. \A k \in 1..Cardinality(OpenPlaces(s)) :
          <<s[Nth(OpenPlaces(s), k)].from, s[Nth(OpenPlaces(s), k)].n>> \in Clients \X (0..Requests)
  BY <1>6
<1> DEFINE N == Cardinality(OpenPlaces(s))
           e(k) == <<s[Nth(OpenPlaces(s), k)].from, s[Nth(OpenPlaces(s), k)].n>>
<1>8. OpenOnes(s) = [k \in 1..N |-> e(k)]
  BY DEF OpenOnes
<1>9. N \in Nat /\ \A k \in 1..N : e(k) \in Clients \X (0..Requests)
  BY <1>3, <1>7
<1> HIDE DEF N, e
<1>10. /\ OpenOnes(s) \in Seq(Clients \X (0..Requests)) /\ Len(OpenOnes(s)) = N
       /\ \A k \in 1..N : OpenOnes(s)[k] = e(k)
  BY <1>8, <1>9
<1> QED
  BY <1>1, <1>2, <1>3, <1>4, <1>10 DEF N, e

LongerBy(t, s, m) ==
    Len(t) = Len(s) + 1 /\ (\A k \in 1..Len(s) : t[k] = s[k]) /\ t[Len(s) + 1] = m

RestOf(t, s) == Len(s) = Len(t) + 1 /\ \A k \in 1..Len(t) : t[k] = s[k + 1]

(* A message sent is behind all others.                                    *)
LEMMA OpenAppend ==
  ASSUME NEW s \in Seq(Messages), NEW t \in Seq(Messages), NEW m \in Messages,
         LongerBy(t, s, m)
  PROVE  OpenOnes(t) = IF Asks(m) THEN Append(OpenOnes(s), <<m.from, m.n>>) ELSE OpenOnes(s)
<1> DEFINE S == OpenPlaces(s)
           T == OpenPlaces(t)
           N == Cardinality(S)
<1>1. /\ Len(s) \in Nat /\ S \in SUBSET (1..Len(s)) /\ N \in Nat
      /\ OpenOnes(s) \in Seq(Clients \X (0..Requests)) /\ Len(OpenOnes(s)) = N
      /\ \A k \in 1..N : /\ Nth(S, k) \in S
                         /\ OpenOnes(s)[k] = <<s[Nth(S, k)].from, s[Nth(S, k)].n>>
  <2> HIDE DEF S, N
  <2> QED
    BY OpenShape DEF S, N
<1>2. /\ OpenOnes(t) \in Seq(Clients \X (0..Requests)) /\ Len(OpenOnes(t)) = Cardinality(T)
      /\ \A k \in 1..Cardinality(T) : OpenOnes(t)[k] = <<t[Nth(T, k)].from, t[Nth(T, k)].n>>
  <2> HIDE DEF T
  <2> QED
    BY OpenShape DEF T
<1>3. T = IF Asks(m) THEN S \cup {Len(s) + 1} ELSE S
  <2>1. 1..Len(t) = 1..Len(s) \cup {Len(s) + 1}
    BY <1>1 DEF LongerBy
  <2>2. (\A i \in 1..Len(s) : t[i] = s[i] /\ i # Len(s) + 1) /\ t[Len(s) + 1] = m
    BY <1>1 DEF LongerBy
  <2>3. \A i : i \in T <=> i \in 1..Len(t) /\ Asks(t[i])
    BY DEF OpenPlaces
  <2>4. \A i : i \in S <=> i \in 1..Len(s) /\ Asks(s[i])
    BY DEF OpenPlaces
  <2> HIDE DEF S, T
  <2>5. \A i : i \in T <=> i \in S \/ (i = Len(s) + 1 /\ Asks(m))
    BY <2>1, <2>2, <2>3, <2>4
  <2> QED
    BY <2>5
<1> HIDE DEF S, T, N
<1>4. CASE Asks(m)
  <2>1. /\ Cardinality(T) = N + 1
        /\ \A k \in 1..N : Nth(T, k) = Nth(S, k)
        /\ Nth(T, N + 1) = Len(s) + 1
    <3>1. T = S \cup {Len(s) + 1} /\ Len(s) \in Nat /\ S \in SUBSET (1..Len(s))
      BY <1>1, <1>3, <1>4
    <3>2. EndsWith(T, S, Len(s) + 1)
      BY <3>1, NthAppend
    <3> QED
      BY <3>2 DEF N, EndsWith
  <2> DEFINE w == <<m.from, m.n>>
  <2>0. w \in Clients \X (0..Requests)
    BY DEF Messages
  <2>2. \A k \in 1..N : OpenOnes(t)[k] = OpenOnes(s)[k]
    <3> SUFFICES ASSUME NEW k \in 1..N PROVE OpenOnes(t)[k] = OpenOnes(s)[k]
      OBVIOUS
    <3> DEFINE i == Nth(S, k)
    <3>1. i \in 1..Len(s) /\ i = Nth(T, k) /\ k \in 1..Cardinality(T)
      <4>1. i \in S
        BY <1>1
      <4>2. Nth(T, k) = i
        BY <2>1
      <4> HIDE DEF i
      <4> QED
        BY <1>1, <2>1, <4>1, <4>2
    <3>2. OpenOnes(s)[k] = <<s[i].from, s[i].n>>
      BY <1>1
    <3> HIDE DEF i
    <3>3. OpenOnes(t)[k] = <<t[i].from, t[i].n>> /\ t[i] = s[i]
      BY <1>2, <3>1 DEF LongerBy
    <3> QED
      BY <3>2, <3>3
  <2>3. OpenOnes(t)[N + 1] = w
    <3>1. N + 1 \in 1..Cardinality(T)
      BY <1>1, <2>1
    <3>2. OpenOnes(t)[N + 1] = <<t[Nth(T, N + 1)].from, t[Nth(T, N + 1)].n>>
      BY <1>2, <3>1
    <3> QED
      BY <2>1, <3>2 DEF LongerBy
  <2> HIDE DEF w
  <2>4. /\ Append(OpenOnes(s), w) \in Seq(Clients \X (0..Requests))
        /\ Len(Append(OpenOnes(s), w)) = N + 1
        /\ \A k \in 1..N : Append(OpenOnes(s), w)[k] = OpenOnes(s)[k]
        /\ Append(OpenOnes(s), w)[N + 1] = w
    BY <1>1, <2>0, AppendProperties
  <2>5. \A k \in 1..Len(OpenOnes(t)) : OpenOnes(t)[k] = Append(OpenOnes(s), w)[k]
    BY <1>1, <1>2, <2>1, <2>2, <2>3, <2>4
  <2>6. OpenOnes(t) = Append(OpenOnes(s), w)
    BY <1>2, <2>1, <2>4, <2>5, SeqEqual
  <2> QED
    BY <1>4, <2>6 DEF w
<1>5. CASE ~Asks(m)
  <2>1. T = S
    BY <1>3, <1>5
  <2>2. \A k \in 1..Len(OpenOnes(t)) : OpenOnes(t)[k] = OpenOnes(s)[k]
    <3> SUFFICES ASSUME NEW k \in 1..N PROVE OpenOnes(t)[k] = OpenOnes(s)[k]
      BY <1>2, <2>1 DEF N
    <3> DEFINE i == Nth(S, k)
    <3>1. i \in 1..Len(s) /\ OpenOnes(s)[k] = <<s[i].from, s[i].n>>
      BY <1>1
    <3>2. OpenOnes(t)[k] = <<t[i].from, t[i].n>>
      BY <1>2, <2>1 DEF N
    <3> HIDE DEF i
    <3>3. t[i] = s[i]
      BY <3>1 DEF LongerBy
    <3> QED
      BY <3>1, <3>2, <3>3
  <2>3. OpenOnes(t) = OpenOnes(s)
    BY <1>1, <1>2, <2>1, <2>2, SeqEqual DEF N
  <2> QED
    BY <1>5, <2>3
<1> QED
  BY <1>4, <1>5

(* The message that has been handled was the first.                        *)
LEMMA OpenTail ==
  ASSUME NEW s \in Seq(Messages), NEW t \in Seq(Messages), RestOf(t, s)
  PROVE  IF Asks(s[1]) THEN /\ OpenOnes(s) # <<>>
                            /\ Head(OpenOnes(s)) = <<s[1].from, s[1].n>>
                            /\ Tail(OpenOnes(s)) = OpenOnes(t)
                       ELSE OpenOnes(t) = OpenOnes(s)
<1> DEFINE S == OpenPlaces(s)
           T == OpenPlaces(t)
           N == Cardinality(T)
           d == IF 1 \in S THEN 1 ELSE 0
<1>1. /\ Len(s) \in Nat /\ S \in SUBSET (1..Len(s))
      /\ OpenOnes(s) \in Seq(Clients \X (0..Requests)) /\ Len(OpenOnes(s)) = Cardinality(S)
      /\ \A k \in 1..Cardinality(S) : OpenOnes(s)[k] = <<s[Nth(S, k)].from, s[Nth(S, k)].n>>
  <2> HIDE DEF S
  <2> QED
    BY OpenShape DEF S
<1>2. /\ Len(t) \in Nat /\ T \in SUBSET (1..Len(t)) /\ N \in Nat
      /\ OpenOnes(t) \in Seq(Clients \X (0..Requests)) /\ Len(OpenOnes(t)) = N
      /\ \A k \in 1..N : /\ Nth(T, k) \in T
                         /\ OpenOnes(t)[k] = <<t[Nth(T, k)].from, t[Nth(T, k)].n>>
  <2> HIDE DEF T, N
  <2> QED
    BY OpenShape DEF T, N
<1>3. 1 \in S <=> Asks(s[1])
  <2>1. 1 \in 1..Len(s)
    BY <1>1, <1>2 DEF RestOf
  <2> QED
    BY <2>1 DEF OpenPlaces
<1>4. \A i \in Nat : i \in T <=> i >= 1 /\ i + 1 \in S
  <2>1. \A i \in Nat : i \in 1..Len(t) <=> i >= 1 /\ i + 1 \in 1..Len(s)
    BY <1>1, <1>2 DEF RestOf
  <2>2. \A i : i \in T <=> i \in 1..Len(t) /\ Asks(t[i])
    BY DEF OpenPlaces
  <2>3. \A i : i \in S <=> i \in 1..Len(s) /\ Asks(s[i])
    BY DEF OpenPlaces
  <2>4. \A i \in 1..Len(t) : t[i] = s[i + 1]
    BY DEF RestOf
  <2> HIDE DEF S, T
  <2> QED
    BY <2>1, <2>2, <2>3, <2>4
<1>5. T \in SUBSET (1..Len(s))
  <2> HIDE DEF T
  <2> QED
    BY <1>1, <1>2 DEF RestOf
<1> HIDE DEF S, T, N
<1>6. /\ Cardinality(S) = N + d
      /\ \A k \in 1..N : Nth(S, k + d) = Nth(T, k) + 1
      /\ 1 \in S => Nth(S, 1) = 1
  <2>1. MovedUp(T, S)
    BY <1>4 DEF MovedUp
  <2>2. StartsWith(T, S)
    BY <1>1, <1>5, <2>1, NthTail
  <2> QED
    BY <2>2 DEF N, StartsWith
<1>7. \A k \in 1..N : OpenOnes(t)[k] = OpenOnes(s)[k + d]
  <2> SUFFICES ASSUME NEW k \in 1..N PROVE OpenOnes(t)[k] = OpenOnes(s)[k + d]
    OBVIOUS
  <2> DEFINE j == k + d
             i == Nth(T, k)
  <2>1. j \in 1..Cardinality(S)
    BY <1>2, <1>6
  <2>2. i \in 1..Len(t) /\ Nth(S, j) = i + 1
    BY <1>2, <1>6
  <2>3. OpenOnes(t)[k] = <<t[i].from, t[i].n>>
    BY <1>2
  <2> HIDE DEF j, i, d
  <2>4. OpenOnes(s)[j] = <<s[i + 1].from, s[i + 1].n>>
    BY <1>1, <2>1, <2>2
  <2>5. t[i] = s[i + 1]
    BY <2>2 DEF RestOf
  <2>6. OpenOnes(t)[k] = OpenOnes(s)[j]
    BY <2>3, <2>4, <2>5
  <2> QED
    BY <2>6 DEF j
<1>8. CASE Asks(s[1])
  <2> DEFINE q == OpenOnes(s)
             r == OpenOnes(t)
  <2>1. d = 1 /\ 1 \in S
    BY <1>3, <1>8
  <2>2. q[1] = <<s[1].from, s[1].n>>
    <3>1. 1 \in 1..Cardinality(S)
      BY <1>2, <1>6, <2>1
    <3> QED
      BY <1>1, <1>6, <2>1, <3>1
  <2>3. /\ q \in Seq(Clients \X (0..Requests)) /\ r \in Seq(Clients \X (0..Requests))
        /\ Len(q) = N + 1 /\ Len(r) = N /\ N \in Nat
        /\ \A k \in 1..N : r[k] = q[k + 1]
    BY <1>1, <1>2, <1>6, <1>7, <2>1
  <2> HIDE DEF q, r, d
  <2>4. q # <<>>
    BY <2>3, EmptySeq
  <2>5. /\ Tail(q) \in Seq(Clients \X (0..Requests)) /\ Len(Tail(q)) = N
        /\ \A k \in 1..N : Tail(q)[k] = q[k + 1]
    <3>1. /\ Tail(q) \in Seq(Clients \X (0..Requests)) /\ Len(Tail(q)) = Len(q) - 1
          /\ \A k \in 1..Len(Tail(q)) : Tail(q)[k] = q[k + 1]
      BY <2>3, <2>4, HeadTailProperties
    <3> QED
      BY <2>3, <3>1
  <2>6. \A k \in 1..Len(Tail(q)) : Tail(q)[k] = r[k]
    BY <2>3, <2>5
  <2>7. Tail(q) = r
    BY <2>3, <2>5, <2>6, SeqEqual
  <2>8. Head(q) = q[1]
    BY <2>3, <2>4
  <2> QED
    BY <1>8, <2>2, <2>4, <2>7, <2>8 DEF q, r
<1>9. CASE ~Asks(s[1])
  <2>1. d = 0
    BY <1>3, <1>9
  <2>2. Len(OpenOnes(s)) = Len(OpenOnes(t)) /\ Len(OpenOnes(t)) = N
    BY <1>1, <1>2, <1>6, <2>1
  <2>3. \A k \in 1..N : OpenOnes(t)[k] = OpenOnes(s)[k]
    BY <1>2, <1>7, <2>1
  <2>4. OpenOnes(t) = OpenOnes(s)
    BY <1>1, <1>2, <2>2, <2>3, SeqEqual
  <2> QED
    BY <1>9, <2>4
<1> QED
  BY <1>8, <1>9

(* The numbers of the answers change as the answers do.                    *)
LEMMA NumbersMove ==
  ASSUME NEW b \in Seq(Answers)
  PROVE  /\ NumbersOf(b) \in Seq(0..Requests)
         /\ NumbersOf(<<>>) = <<>>
         /\ b # <<>> => NumbersOf(b) # <<>> /\ NumbersOf(Tail(b)) = Tail(NumbersOf(b))
         /\ \A a \in Answers : NumbersOf(Append(b, a)) = Append(NumbersOf(b), a.n)
<1>1. ASSUME NEW u \in Seq(Answers)
      PROVE  /\ NumbersOf(u) \in Seq(0..Requests) /\ Len(NumbersOf(u)) = Len(u)
             /\ Len(u) \in Nat
             /\ \A i \in 1..Len(u) : NumbersOf(u)[i] = u[i].n
  <2>1. Len(u) \in Nat /\ \A i \in 1..Len(u) : u[i].n \in 0..Requests
    <3>1. \A i \in 1..Len(u) : u[i] \in Answers
      OBVIOUS
    <3> QED
      BY <3>1 DEF Answers
  <2> DEFINE l == Len(u)
             e(i) == u[i].n
  <2>2. NumbersOf(u) = [i \in 1..l |-> e(i)]
    BY DEF NumbersOf
  <2>3. l \in Nat /\ \A i \in 1..l : e(i) \in 0..Requests
    BY <2>1
  <2> HIDE DEF l, e
  <2>4. /\ NumbersOf(u) \in Seq(0..Requests) /\ Len(NumbersOf(u)) = l
        /\ \A i \in 1..l : NumbersOf(u)[i] = e(i)
    BY <2>2, <2>3
  <2> QED
    BY <2>3, <2>4 DEF l, e
<1>2. NumbersOf(<<>>) = <<>>
  <2>1. <<>> \in Seq(Answers) /\ Len(<<>>) = 0
    OBVIOUS
  <2>2. NumbersOf(<<>>) \in Seq(0..Requests) /\ Len(NumbersOf(<<>>)) = 0
    BY <1>1, <2>1
  <2> QED
    BY <2>2, EmptySeq
<1>3. ASSUME b # <<>>
      PROVE  NumbersOf(b) # <<>> /\ NumbersOf(Tail(b)) = Tail(NumbersOf(b))
  <2>1. /\ Tail(b) \in Seq(Answers) /\ Len(Tail(b)) = Len(b) - 1
        /\ \A i \in 1..Len(Tail(b)) : Tail(b)[i] = b[i + 1]
    BY <1>3, HeadTailProperties
  <2>2. Len(b) # 0
    BY <1>3, EmptySeq
  <2>3. NumbersOf(b) # <<>>
    BY <1>1, <2>2, EmptySeq
  <2>4. /\ Tail(NumbersOf(b)) \in Seq(0..Requests)
        /\ Len(Tail(NumbersOf(b))) = Len(NumbersOf(b)) - 1
        /\ \A i \in 1..Len(Tail(NumbersOf(b))) : Tail(NumbersOf(b))[i] = NumbersOf(b)[i + 1]
    BY <1>1, <2>3, HeadTailProperties
  <2>5. /\ NumbersOf(Tail(b)) \in Seq(0..Requests) /\ Len(NumbersOf(Tail(b))) = Len(b) - 1
        /\ \A i \in 1..(Len(b) - 1) : NumbersOf(Tail(b))[i] = Tail(b)[i].n
    BY <1>1, <2>1
  <2>6. Len(NumbersOf(b)) = Len(b) /\ Len(b) \in Nat
    BY <1>1
  <2>7. \A i \in 1..(Len(b) - 1) : NumbersOf(Tail(b))[i] = Tail(NumbersOf(b))[i]
    <3> SUFFICES ASSUME NEW i \in 1..(Len(b) - 1)
                 PROVE  NumbersOf(Tail(b))[i] = Tail(NumbersOf(b))[i]
      OBVIOUS
    <3>1. i + 1 \in 1..Len(b)
      BY <2>6
    <3>2. NumbersOf(b)[i + 1] = b[i + 1].n
      BY <1>1, <3>1
    <3> QED
      BY <2>1, <2>4, <2>5, <2>6, <3>2
  <2>8. NumbersOf(Tail(b)) = Tail(NumbersOf(b))
    BY <2>4, <2>5, <2>6, <2>7, SeqEqual
  <2> QED
    BY <2>3, <2>8
<1>4. ASSUME NEW a \in Answers
      PROVE  NumbersOf(Append(b, a)) = Append(NumbersOf(b), a.n)
  <2> DEFINE x == Append(b, a)
             y == NumbersOf(b)
             z == Append(y, a.n)
  <2>1. /\ x \in Seq(Answers) /\ Len(x) = Len(b) + 1
        /\ \A i \in 1..Len(b) : x[i] = b[i]
        /\ x[Len(b) + 1] = a
    BY AppendProperties
  <2>2. y \in Seq(0..Requests) /\ Len(y) = Len(b) /\ Len(b) \in Nat
        /\ \A i \in 1..Len(b) : y[i] = b[i].n
    BY <1>1
  <2>3. a.n \in 0..Requests
    BY DEF Answers
  <2> HIDE DEF x, y
  <2>4. /\ z \in Seq(0..Requests) /\ Len(z) = Len(b) + 1
        /\ \A i \in 1..Len(b) : z[i] = y[i]
        /\ z[Len(b) + 1] = a.n
    <3>1. /\ z \in Seq(0..Requests) /\ Len(z) = Len(y) + 1
          /\ \A i \in 1..Len(y) : z[i] = y[i]
          /\ z[Len(y) + 1] = a.n
      BY <2>2, <2>3, AppendProperties
    <3> QED
      BY <2>2, <3>1
  <2>5. /\ NumbersOf(x) \in Seq(0..Requests) /\ Len(NumbersOf(x)) = Len(b) + 1
        /\ \A i \in 1..(Len(b) + 1) : NumbersOf(x)[i] = x[i].n
    BY <1>1, <2>1
  <2> HIDE DEF z
  <2>6. \A i \in 1..(Len(b) + 1) : NumbersOf(x)[i] = z[i]
    BY <2>1, <2>2, <2>4, <2>5
  <2>7. NumbersOf(x) = z
    BY <2>4, <2>5, <2>6, SeqEqual
  <2> QED
    BY <2>7 DEF x, y, z
<1> QED
  BY <1>1, <1>2, <1>3, <1>4
-----------------------------------------------------------------------------
(* What a step does to the open requests.                                  *)
LEMMA PendingKept ==
  ASSUME UNCHANGED <<buff, server_queue>>
  PROVE  Pending' = Pending
BY DEF Pending, OpenOnes, OpenPlaces, InFlight, Asks

LEMMA RepliesKept ==
  ASSUME UNCHANGED inbox
  PROVE  Replies' = Replies
BY DEF Replies, NumbersOf

LEMMA PendingGrows ==
  ASSUME IInv, NEW c \in Clients, NEW type \in Types, NEW n \in 0..Requests,
         Sends(c, type, n), buff' = buff
  PROVE  Pending' = IF Asks([type |-> type]) THEN Append(Pending, <<c, n>>) ELSE Pending
<1> DEFINE m == [type |-> type, from |-> c, sender_id |-> client_id[c], n |-> n]
           s == InFlight
           t == InFlight'
<1>1. TypeOK
  BY DEF IInv
<1>2. /\ server_queue' \in Seq(Messages) /\ m \in Messages
      /\ Len(t) = Len(s) + 1
      /\ \A k \in Places : t[k] = s[k]
      /\ t[Len(s) + 1] = m
  BY <1>1, MessageSent
<1>3. m.from = c /\ m.n = n /\ (Asks(m) <=> Asks([type |-> type]))
  BY DEF Asks
<1>4. s \in Seq(Messages)
  BY <1>1, InFlightShape
<1> HIDE DEF m
<1>5. t \in Seq(Messages)
  <2>1. buff' \in Messages \cup {Nothing}
    BY <1>1 DEF TypeOK
  <2>2. t = IF buff' = Nothing THEN server_queue' ELSE <<buff'>> \o server_queue'
    BY DEF InFlight
  <2> HIDE DEF t
  <2> QED
    BY <1>2, <2>1, <2>2
<1>6. LongerBy(t, s, m)
  BY <1>2 DEF LongerBy, Places
<1>7. Pending' = OpenOnes(t) /\ Pending = OpenOnes(s)
  BY DEF Pending
<1> HIDE DEF s, t
<1>8. OpenOnes(t) = IF Asks(m) THEN Append(OpenOnes(s), <<m.from, m.n>>) ELSE OpenOnes(s)
  BY <1>2, <1>4, <1>5, <1>6, OpenAppend
<1> QED
  BY <1>3, <1>7, <1>8

LEMMA PendingShrinks ==
  ASSUME IInv, buff # Nothing, buff' = Nothing, UNCHANGED server_queue
  PROVE  IF Asks(buff) THEN /\ Pending # <<>> /\ Head(Pending) = <<buff.from, buff.n>>
                            /\ Pending' = Tail(Pending)
                       ELSE Pending' = Pending
<1> DEFINE s == InFlight
           t == InFlight'
<1>1. TypeOK
  BY DEF IInv
<1>2. buff # Nothing
  OBVIOUS
<1>3. /\ s \in Seq(Messages) /\ Len(s) = Len(server_queue) + 1 /\ s[1] = buff
      /\ \A k \in 1..Len(server_queue) : s[k + 1] = server_queue[k]
  BY <1>1, <1>2, InFlightShape
<1>4. t = server_queue /\ t \in Seq(Messages)
  BY <1>1 DEF InFlight, TypeOK
<1>5. RestOf(t, s)
  BY <1>3, <1>4 DEF RestOf
<1>6. Pending' = OpenOnes(t) /\ Pending = OpenOnes(s)
  BY DEF Pending
<1> HIDE DEF s, t
<1>7. IF Asks(s[1]) THEN /\ OpenOnes(s) # <<>>
                         /\ Head(OpenOnes(s)) = <<s[1].from, s[1].n>>
                         /\ Tail(OpenOnes(s)) = OpenOnes(t)
                    ELSE OpenOnes(t) = OpenOnes(s)
  BY <1>3, <1>4, <1>5, OpenTail
<1> QED
  BY <1>3, <1>6, <1>7

(* Who is neither waiting nor on its way out has nothing open.             *)
LEMMA NothingOpen ==
  ASSUME IInv, NEW c \in Clients, ~Waits(c), ~Leaving(c)
  PROVE  /\ Replies[c] = <<>>
         /\ \A i \in 1..Len(Pending) : Pending[i][1] # c
<1>1. inbox[c] = <<>>
  BY DEF IInv, InboxRight
<1>2. <<>> \in Seq(Answers)
  OBVIOUS
<1>3. Replies[c] = <<>>
  BY <1>1, <1>2, NumbersMove DEF Replies
<1>4. \A i \in 1..Len(Pending) : Pending[i][1] # c
  <2> SUFFICES ASSUME NEW i \in 1..Len(Pending), Pending[i][1] = c PROVE FALSE
    OBVIOUS
  <2> DEFINE s == InFlight
             k == Nth(OpenPlaces(s), i)
  <2>1. s \in Seq(Messages)
    BY InFlightShape DEF IInv
  <2>2. Pending = OpenOnes(s)
    BY DEF Pending
  <2>3. k \in OpenPlaces(s) /\ OpenOnes(s)[i] = <<s[k].from, s[k].n>>
    <3> HIDE DEF s
    <3> QED
      BY <2>1, <2>2, OpenShape
  <2>4. s[k].from = c
    BY <2>2, <2>3
  <2>5. k \in Places /\ Asks(s[k])
    BY <2>3 DEF OpenPlaces, Places
  <2>6. Truthful(s[k])
    BY <2>5 DEF IInv, MessagesTrue
  <2> HIDE DEF s, k
  <2> QED
    BY <2>4, <2>5, <2>6 DEF Truthful
<1> QED
  BY <1>3, <1>4

LEMMA ServiceAsks ==
  ASSUME IInv, NEW c \in Clients, NEW type \in {"REGISTER", "REQUEST", "CALC_BY_ZERO"},
         NEW n \in 0..Requests, cpc[c] \in {"register", "asking"},
         Sends(c, type, n), UNCHANGED <<buff, inbox, outcome>>
  PROVE  Service!Ask(c)
<1>1. type \in Types /\ Asks([type |-> type])
  BY DEF Types, Asks
<1>2. Pending' = Append(Pending, <<c, n>>)
  BY <1>1, PendingGrows
<1>3. Replies' = Replies
  BY RepliesKept
<1>4. /\ Replies[c] = <<>>
      /\ \A i \in 1..Len(Pending) : Pending[i][1] # c
  BY NothingOpen DEF Waits, Leaving
<1> QED
  BY <1>2, <1>3, <1>4 DEF Service!Ask, Service!HasOpen, Condition

LEMMA ServiceReads ==
  ASSUME IInv, NEW c \in Clients, TakeAnswer(c), UNCHANGED <<buff, server_queue, outcome>>
  PROVE  Service!Read(c)
<1>1. /\ inbox \in [Clients -> Seq(Answers)] /\ inbox[c] # <<>>
      /\ inbox' = [inbox EXCEPT ![c] = Tail(@)]
  BY DEF IInv, TypeOK, TakeAnswer
<1>2. /\ NumbersOf(inbox[c]) # <<>>
      /\ NumbersOf(Tail(inbox[c])) = Tail(NumbersOf(inbox[c]))
  <2>1. inbox[c] \in Seq(Answers)
    BY <1>1
  <2> QED
    BY <1>1, <2>1, NumbersMove
<1>3. Replies' = [d \in Clients |-> NumbersOf(inbox'[d])]
  BY DEF Replies, NumbersOf
<1>4. /\ Replies[c] # <<>>
      /\ Replies' = [Replies EXCEPT ![c] = Tail(@)]
  <2>1. \A d \in Clients : Replies[d] = NumbersOf(inbox[d])
    BY DEF Replies
  <2>2. \A d \in Clients : inbox'[d] = IF d = c THEN Tail(inbox[c]) ELSE inbox[d]
    BY <1>1
  <2>3. Replies' = [d \in Clients |-> IF d = c THEN Tail(Replies[c]) ELSE Replies[d]]
    BY <1>2, <1>3, <2>1, <2>2
  <2>4. Replies \in [Clients -> {Replies[d] : d \in Clients}]
    BY DEF Replies
  <2> QED
    BY <1>2, <2>1, <2>3, <2>4
<1>5. Pending' = Pending
  BY PendingKept
<1> QED
  BY <1>4, <1>5 DEF Service!Read, Condition

LEMMA ServiceLeaves ==
  ASSUME IInv, NEW c \in Clients, RemoveQueue(c)
  PROVE  Service!Leave(c)
<1>1. /\ inbox \in [Clients -> Seq(Answers)] /\ inbox' = [inbox EXCEPT ![c] = <<>>]
      /\ UNCHANGED <<buff, server_queue, outcome>>
  BY DEF IInv, TypeOK, RemoveQueue, serverVars
<1>2. NumbersOf(<<>>) = <<>>
  <2>1. <<>> \in Seq(Answers)
    OBVIOUS
  <2> QED
    BY <2>1, NumbersMove
<1>3. Replies' = [d \in Clients |-> NumbersOf(inbox'[d])]
  BY DEF Replies, NumbersOf
<1>4. Replies' = [Replies EXCEPT ![c] = <<>>]
  <2>1. \A d \in Clients : Replies[d] = NumbersOf(inbox[d])
    BY DEF Replies
  <2>2. \A d \in Clients : inbox'[d] = IF d = c THEN <<>> ELSE inbox[d]
    BY <1>1
  <2>3. Replies' = [d \in Clients |-> IF d = c THEN <<>> ELSE Replies[d]]
    BY <1>2, <1>3, <2>1, <2>2
  <2>4. Replies \in [Clients -> {Replies[d] : d \in Clients}]
    BY DEF Replies
  <2> QED
    BY <2>3, <2>4
<1>5. Pending' = Pending
  BY <1>1, PendingKept
<1> QED
  BY <1>1, <1>4, <1>5 DEF Service!Leave, Condition

(* The server goes on without touching what clients see.                   *)
LEMMA ServiceRests ==
  ASSUME Pending' = Pending, UNCHANGED <<inbox, outcome>>
  PROVE  UNCHANGED Service!serviceVars
BY RepliesKept DEF Service!serviceVars, Condition

(* Nothing is open where nothing is on its way.                            *)
LEMMA NoneOpen == OpenOnes(<<>>) = <<>>
<1>1. <<>> \in Seq(Messages)
  OBVIOUS
<1>2. /\ OpenPlaces(<<>>) \in SUBSET (1..0)
      /\ OpenOnes(<<>>) \in Seq(Clients \X (0..Requests))
      /\ Len(OpenOnes(<<>>)) = Cardinality(OpenPlaces(<<>>))
  BY <1>1, OpenShape
<1>3. OpenPlaces(<<>>) = {}
  BY <1>2
<1> QED
  BY <1>2, <1>3, FS_EmptySet, EmptySeq

(* The server leaves its loop because it has ended or because it breaks.   *)
LEMMA ServiceEnds == IInv /\ QueueDrained => Service!End
<1> SUFFICES ASSUME IInv, QueueDrained PROVE Service!End
  OBVIOUS
<1>1. /\ spc = "receive" /\ server_queue = <<>> /\ outcome' = "ended"
      /\ UNCHANGED <<buff, server_queue, inbox>>
  BY DEF QueueDrained, Exits
<1>2. outcome = "running" /\ buff = Nothing
  BY <1>1 DEF IInv, ServerShape, Serving
<1>3. Pending = <<>>
  BY <1>1, <1>2, NoneOpen DEF InFlight, Pending
<1>4. Condition = "up" /\ Condition' = "ended"
  BY <1>1, <1>2 DEF Condition
<1> QED
  BY <1>1, <1>3, <1>4, PendingKept, RepliesKept DEF Service!End

LEMMA ServiceBreaks ==
  ASSUME IInv, Serving, outcome' \in {"interrupted", "failed", "killed"},
         Pending' \in Service!Remains, UNCHANGED inbox
  PROVE  Service!Break
<1>1. outcome = "running"
  BY DEF IInv, ServerShape
<1>2. Condition = "up" /\ Condition' = "broken"
  BY <1>1 DEF Condition
<1> QED
  BY <1>2, RepliesKept DEF Service!Break

(* What may be left of the requests when the server goes.                  *)
LEMMA ServiceRemains == IInv /\ (DivideByZero \/ OnExit) => Pending' \in Service!Remains
<1> SUFFICES ASSUME IInv, DivideByZero \/ OnExit PROVE Pending' \in Service!Remains
  OBVIOUS
<1>1. /\ buff' = Nothing
      /\ server_queue' = server_queue \/ server_queue' = <<>>
  BY DEF DivideByZero, OnExit
<1>2. CASE server_queue' = <<>>
  <2>1. InFlight' = <<>>
    BY <1>1, <1>2 DEF InFlight
  <2>2. OpenOnes(<<>>) = <<>>
    BY NoneOpen
  <2>3. Pending' = OpenOnes(InFlight')
    BY DEF Pending, OpenOnes, OpenPlaces, Asks
  <2>4. Pending' = <<>>
    BY <2>1, <2>2, <2>3
  <2> QED
    BY <2>4 DEF Service!Remains
<1>3. CASE server_queue' = server_queue /\ buff = Nothing
  <2>1. Pending' = Pending
    BY <1>1, <1>3, PendingKept
  <2> QED
    BY <2>1 DEF Service!Remains
<1>4. CASE server_queue' = server_queue /\ buff # Nothing
  <2>1. Pending' = Pending \/ (Pending # <<>> /\ Pending' = Tail(Pending))
    BY <1>1, <1>4, PendingShrinks
  <2> QED
    BY <2>1 DEF Service!Remains
<1> QED
  BY <1>1, <1>2, <1>3, <1>4

LEMMA ServiceAnswers ==
  ASSUME IInv, spc = "handle", Asks(buff), NEW id \in Ids,
         inbox' = [inbox EXCEPT ![buff.from] = Append(@, [n |-> buff.n, id |-> id])],
         buff' = Nothing, UNCHANGED <<server_queue, outcome>>
  PROVE  Service!Answer
<1> DEFINE a == [n |-> buff.n, id |-> id]
<1>0. PICK c \in Clients : c = buff.from
  BY InHand
<1>1. /\ inbox \in [Clients -> Seq(Answers)] /\ inbox' = [inbox EXCEPT ![c] = Append(@, a)]
      /\ a \in Answers /\ a.n = buff.n /\ outcome = "running"
  BY <1>0, InHand DEF IInv, TypeOK, Answers, Messages
<1>2. /\ Pending # <<>> /\ Head(Pending) = <<c, a.n>> /\ Pending' = Tail(Pending)
  BY <1>0, <1>1, InHand, PendingShrinks
<1> HIDE DEF a
<1>3. NumbersOf(Append(inbox[c], a)) = Append(NumbersOf(inbox[c]), a.n)
  <2>1. inbox[c] \in Seq(Answers)
    BY <1>1
  <2> QED
    BY <1>1, <2>1, NumbersMove
<1>4. Replies' = [d \in Clients |-> NumbersOf(inbox'[d])]
  BY DEF Replies, NumbersOf
<1>5. Replies' = [Replies EXCEPT ![c] = Append(@, a.n)]
  <2>1. \A d \in Clients : Replies[d] = NumbersOf(inbox[d])
    BY DEF Replies
  <2>2. \A d \in Clients : inbox'[d] = IF d = c THEN Append(inbox[c], a) ELSE inbox[d]
    BY <1>1
  <2>3. Replies' = [d \in Clients |-> IF d = c THEN Append(Replies[c], a.n) ELSE Replies[d]]
    BY <1>3, <1>4, <2>1, <2>2
  <2>4. Replies \in [Clients -> {Replies[d] : d \in Clients}]
    BY DEF Replies
  <2> QED
    BY <2>3, <2>4
<1>6. Head(Pending)[1] = c /\ Head(Pending)[2] = a.n
  BY <1>2
<1> QED
  BY <1>1, <1>2, <1>5, <1>6 DEF Service!Answer, Condition

LEMMA ClientServiceStep ==
  ASSUME IInv, NEW c \in Clients, Works(c) \/ Input(c) \/ Interrupt(c)
  PROVE  \/ Service!Ask(c) \/ Service!Read(c) \/ Service!Leave(c)
         \/ UNCHANGED Service!serviceVars
<1>1. ASSUME Register(c) PROVE Service!Ask(c)
  <2>1. /\ cpc[c] = "register" /\ Sends(c, "REGISTER", 0) /\ 0 \in 0..Requests
        /\ UNCHANGED <<buff, inbox, outcome>>
    BY <1>1, MqAssumption DEF Register, ClientAt, serverVars
  <2> QED
    BY <2>1, ServiceAsks
<1>2. ASSUME Request(c) PROVE Service!Ask(c)
  <2>1. PICK type \in {"REQUEST", "CALC_BY_ZERO"} : Sends(c, type, asked[c])
    BY <1>2 DEF Request
  <2>2. /\ cpc[c] = "asking" /\ asked[c] \in 0..Requests
        /\ UNCHANGED <<buff, inbox, outcome>>
    BY <1>2 DEF Request, ClientAt, serverVars, IInv, TypeOK
  <2> QED
    BY <2>1, <2>2, ServiceAsks
<1>3. ASSUME NEW type \in {"END", "STOP"}, Sends(c, type, 0), UNCHANGED <<buff, inbox, outcome>>
      PROVE  UNCHANGED Service!serviceVars
  <2>1. type \in Types /\ 0 \in 0..Requests /\ ~Asks([type |-> type])
    BY MqAssumption DEF Types, Asks
  <2>2. Pending' = Pending
    BY <1>3, <2>1, PendingGrows
  <2> QED
    BY <1>3, <2>2, ServiceRests
<1>4. ASSUME SendEnd(c) \/ SendStop(c) PROVE UNCHANGED Service!serviceVars
  BY <1>3, <1>4 DEF SendEnd, SendStop, serverVars
<1>5. ASSUME ReceiveId(c) \/ ReceiveAnswer(c) PROVE Service!Read(c)
  BY <1>5, ServiceReads DEF ReceiveId, ReceiveAnswer, serverVars
<1>6. ASSUME OpenQueues(c) \/ NoServer(c) \/ SendFails(c) \/ Input(c) \/ Interrupt(c)
      PROVE  UNCHANGED Service!serviceVars
  <2>1. UNCHANGED <<buff, server_queue, inbox, outcome>>
    BY <1>6 DEF OpenQueues, NoServer, SendFails, Input, Command, EndOfInput, Interrupt, serverVars
  <2> QED
    BY <2>1, PendingKept, ServiceRests
<1> QED
  BY <1>1, <1>2, <1>4, <1>5, <1>6, ServiceLeaves DEF Works

LEMMA ServerServiceStep ==
  ASSUME IInv, Server \/ ServerInterrupt
  PROVE  \/ Service!Answer \/ Service!End \/ Service!Break \/ Service!Vanish
         \/ UNCHANGED Service!serviceVars
<1>1. ASSUME Receive PROVE UNCHANGED Service!serviceVars
  <2>1. /\ server_queue # <<>> /\ buff = Nothing
        /\ buff' = Head(server_queue) /\ server_queue' = Tail(server_queue)
        /\ server_queue \in Seq(Messages) /\ UNCHANGED <<inbox, outcome>>
    BY <1>1 DEF IInv, TypeOK, ServerShape, Receive
  <2>2. buff' \in Messages /\ server_queue = <<buff'>> \o server_queue'
    BY <2>1
  <2>3. buff' # Nothing
    BY <2>2 DEF Messages, Nothing, Types
  <2>4. InFlight' = InFlight
    BY <2>1, <2>2, <2>3 DEF InFlight
  <2>5. Pending' = Pending
    BY <2>4 DEF Pending, OpenOnes, OpenPlaces, Asks
  <2> QED
    BY <2>1, <2>5, ServiceRests
<1>2. ASSUME DivideByZero \/ ServerInterrupt PROVE Service!Break
  <2>1. Serving /\ outcome' \in {"interrupted", "killed"} /\ UNCHANGED inbox
    BY <1>2 DEF DivideByZero, ServerInterrupt, Exits, Handles, Serving
  <2>2. Pending' \in Service!Remains
    <3>1. ASSUME ServerInterrupt PROVE Pending' = Pending
      BY <3>1, PendingKept DEF ServerInterrupt
    <3> QED
      BY <1>2, <3>1, ServiceRemains DEF Service!Remains
  <2> QED
    BY <2>1, <2>2, ServiceBreaks
<1>3. ASSUME HandleEnd \/ HandleStop PROVE UNCHANGED Service!serviceVars
  <2>1. /\ spc = "handle" /\ ~Asks(buff) /\ buff' = Nothing
        /\ UNCHANGED <<server_queue, inbox, outcome>>
    BY <1>3 DEF HandleEnd, HandleStop, Handles, Asks
  <2>2. Pending' = Pending
    BY <2>1, InHand, PendingShrinks
  <2> QED
    BY <2>1, <2>2, ServiceRests
<1>4. ASSUME OnExit PROVE Service!Vanish
  <2>1. outcome # "running" /\ UNCHANGED <<outcome, inbox>>
    BY <1>4 DEF OnExit, IInv, ServerShape, Serving
  <2>2. Condition # "up" /\ Condition' = Condition
    BY <2>1 DEF Condition
  <2> QED
    BY <1>4, <2>1, <2>2, ServiceRemains, RepliesKept DEF Service!Vanish
<1>5. ASSUME NEW id \in Ids, spc = "handle", Asks(buff), SendTo(id, buff.n),
             UNCHANGED server_queue, CanSendTo(id) => client_queues'[id + 1] = buff.from
      PROVE  Service!Answer \/ Service!Break
  <2>1. CASE CanSendTo(id)
    <3>1. /\ inbox' = [inbox EXCEPT ![buff.from] = Append(@, [n |-> buff.n, id |-> id])]
          /\ buff' = Nothing /\ UNCHANGED outcome
      BY <1>5, <2>1 DEF SendTo
    <3> QED
      BY <1>5, <3>1, ServiceAnswers
  <2>2. CASE ~CanSendTo(id)
    <3>1. outcome' = "failed" /\ UNCHANGED <<buff, inbox>> /\ Serving
      BY <1>5, <2>2 DEF SendTo, Exits, Serving
    <3>2. Pending' \in Service!Remains
      BY <1>5, <3>1, PendingKept DEF Service!Remains
    <3> QED
      BY <3>1, <3>2, ServiceBreaks
  <2> QED
    BY <2>1, <2>2
<1>6. ASSUME HandleRegister PROVE Service!Answer \/ Service!Break
  <2> DEFINE id == Len(client_queues)
             new == IF posix /\ ~has_queue[buff.from] THEN NoQueue ELSE buff.from
  <2>1. /\ spc = "handle" /\ buff.type = "REGISTER" /\ client_queues' = Append(client_queues, new)
        /\ UNCHANGED server_queue /\ SendTo(id, buff.n)
    BY <1>6 DEF HandleRegister, Handles
  <2>2. id \in Ids /\ Asks(buff)
    BY <2>1, NumbersSuffice DEF Asks
  <2>3. client_queues \in Seq(Clients \cup {NoQueue}) /\ new \in Clients \cup {NoQueue}
    BY <2>1, InHand DEF IInv, TypeOK
  <2>4. new # NoQueue => new = buff.from
    OBVIOUS
  <2> HIDE DEF new
  <2>5. client_queues'[id + 1] = new
    BY <2>1, <2>3
  <2> HIDE DEF id
  <2>6. CanSendTo(id) => client_queues'[id + 1] = buff.from
    BY <2>4, <2>5 DEF CanSendTo
  <2> QED
    BY <1>5, <2>1, <2>2, <2>6
<1>7. ASSUME HandleRequest PROVE Service!Answer \/ Service!Break
  <2>1. /\ spc = "handle" /\ buff.type = "REQUEST"
        /\ UNCHANGED <<server_queue, client_queues>> /\ SendTo(buff.sender_id, buff.n)
    BY <1>7 DEF HandleRequest, Handles
  <2>2. buff.from \in Clients /\ Truthful(buff)
    BY <2>1, InHand
  <2>3. /\ buff.sender_id = client_id[buff.from] /\ buff.sender_id # Unregistered
        /\ buff.sender_id \in Ids /\ Asks(buff)
    BY <2>1, <2>2 DEF Truthful, Asks, IInv, TypeOK
  <2>4. client_queues[buff.sender_id + 1] \in {buff.from, NoQueue}
    BY <2>2, <2>3 DEF IInv, NumberKnown
  <2>5. CanSendTo(buff.sender_id) => client_queues'[buff.sender_id + 1] = buff.from
    BY <2>1, <2>4 DEF CanSendTo
  <2> QED
    BY <1>5, <2>1, <2>3, <2>5
<1> QED
  BY <1>1, <1>2, <1>3, <1>4, <1>6, <1>7, ServiceEnds DEF Server

(* The queues implement a service that answers each request once, to who   *)
(* asked, in the order the requests came, and that has answered them all   *)
(* when it ends.                                                           *)
THEOREM MqImplementsService == Spec => ImplementsService
<1>1. Init => Service!ServiceInit
  <2> SUFFICES ASSUME Init PROVE Service!ServiceInit
    OBVIOUS
  <2>1. InFlight = <<>>
    BY DEF Init, InFlight
  <2>2. <<>> \in Seq(Answers)
    OBVIOUS
  <2>3. Pending = <<>>
    BY <2>1, NoneOpen DEF Pending
  <2>4. Replies = [c \in Clients |-> <<>>]
    <3>1. NumbersOf(<<>>) = <<>>
      BY <2>2, NumbersMove
    <3>2. \A c \in Clients : inbox[c] = <<>>
      BY DEF Init
    <3> QED
      BY <3>1, <3>2 DEF Replies
  <2> QED
    BY <2>3, <2>4 DEF Init, Service!ServiceInit, Condition
<1>2. IInv /\ [Next]_vars => [Service!ServiceNext]_(Service!serviceVars)
  <2> SUFFICES ASSUME IInv, [Next]_vars PROVE [Service!ServiceNext]_(Service!serviceVars)
    OBVIOUS
  <2>1. CASE Server \/ ServerInterrupt
    BY <2>1, ServerServiceStep DEF Service!ServiceNext
  <2>2. ASSUME NEW c \in Clients, Works(c) \/ Input(c) \/ Interrupt(c)
        PROVE  [Service!ServiceNext]_(Service!serviceVars)
    BY <2>2, ClientServiceStep DEF Service!ServiceNext
  <2>3. CASE UNCHANGED vars
    <3>1. UNCHANGED <<buff, server_queue, inbox, outcome>>
      BY <2>3 DEF vars, serverVars
    <3> QED
      BY <3>1, PendingKept, ServiceRests
  <2> QED
    BY <2>1, <2>2, <2>3 DEF Next, Quiet
<1> QED
  BY <1>1, <1>2, Invariance, PTL DEF Spec, ImplementsService, Service!ServiceSpec
=============================================================================

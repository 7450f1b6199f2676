------------------------- MODULE SocketServerProofs -------------------------
(***************************************************************************)
(* Proofs about SocketServer, for any number of clients, names and slots.  *)
(*                                                                         *)
(* Names: what the listener's search has passed can only lose its name, so *)
(* no entry but the one it writes has the name it writes.  This needs no   *)
(* lock.  The rest holds as long as listener and monitor have not changed  *)
(* the registry at a time: then whichever of them is changing it, every    *)
(* other entry is complete, and client_count is off by the change alone.   *)
(***************************************************************************)
EXTENDS SocketServer, FiniteSetTheorems, SequenceTheorems, TLAPS

ListenerPcs ==
    {"rest", "recv", "find", "anonymous", "full", "scan", "compare", "refuse", "set_name",
     "set_socket", "set_responsive", "inc", "inc_store", "ack", "match_ping", "answered",
     "match", "fetch_victim", "close", "zero_socket", "zero_name", "dec", "dec_store"}

MonitorPcs ==
    {"rest", "check", "test", "fetch", "ping", "mark", "match", "fetch_victim", "close",
     "zero_socket", "zero_name", "dec", "dec_store"}

(* A registration, from the message to the entry.                          *)
Registering == L.pc \in {"full", "scan", "compare", "set_name", "set_socket"}
Filling == L.pc \in {"set_name", "set_socket", "set_responsive", "inc", "inc_store"}

ListenerShape ==
    /\ L.pc \in ListenerPcs
    /\ L.pc \in {"rest", "recv", "full"} => L.at = 0 /\ L.avail = -1 /\ L.own = -1
    /\ L.pc \in {"recv", "find", "anonymous", "full", "scan", "compare", "refuse", "set_name",
                 "set_socket", "set_responsive", "inc", "inc_store", "ack"} => L.fd \in Fds
    /\ L.pc \in {"find", "scan", "compare"} => L.own = -1
    /\ Filling => L.avail \in Slots

MonitorShape ==
    /\ M.pc \in MonitorPcs
    /\ M.pc # "rest" => M.own \in Slots

ReaderShape == R.pc \in {"rest", "pick", "fetch_socket", "send"}

ThreadShape ==
    /\ ListenerShape /\ MonitorShape /\ ReaderShape
    /\ Overlap => overlapped

(* A client that is connected has a name.                                  *)
ClientShape ==
    /\ \A c \in Clients :
           /\ cpc[c] # "start" => my_name[c] \in Names
           /\ c \in backlog \/ to_server[c] # <<>> => cpc[c] # "start"
    /\ \A f \in Fds : Open(f) => cpc[peer[f]] # "start"

(* What the listener's searches have passed.                               *)
Searched ==
    /\ Registering => L.arg \in Names
    /\ L.pc \in {"scan", "compare"} => \A j \in Slots : j < L.at /\ j # L.avail => name[j] # L.arg
    /\ L.pc = "set_name" => \A j \in Slots : j # L.avail => name[j] # L.arg
    /\ Registering /\ L.avail \in Slots => socket[L.avail] = 0
    /\ L.pc = "find" => \A j \in Slots : j < L.at => socket[j] # L.fd
    /\ L.pc = "anonymous" => \A j \in Slots : socket[j] # L.fd
    /\ L.pc = "match" /\ L.own = -1 => L.arg \in Names

Changers == {"listener", "monitor"}

(* The slot a thread is removing.                                          *)
Victim(t) == th[t].at

(* The connection of an entry that is being removed has been closed, and   *)
(* its descriptor may have been given to somebody else.                    *)
Stale(i) == \E t \in Changers : th[t].pc = "zero_socket" /\ Victim(t) = i

(* Between what the count is and what it should be.                        *)
Uncounted == \E t \in Changers : th[t].pc \in {"zero_name", "dec", "dec_store"}
Unlisted == L.pc \in {"set_responsive", "inc", "inc_store"}

NewClient(c) == \E k \in 1..Len(to_server[c]) : to_server[c][k] = "REGISTER"

EntriesSound ==
    /\ \A i \in Used : Stale(i) \/ (Open(socket[i]) /\ name[i] = my_name[peer[socket[i]]])
    /\ \A i, j \in Used : socket[i] = socket[j] => i = j
    /\ \A i \in Slots \ Used :
           \/ name[i] = NoName
           \/ \E t \in Changers : th[t].pc = "zero_name" /\ Victim(t) = i
           \/ L.pc = "set_socket" /\ L.avail = i

CountSound ==
    /\ client_count = Cardinality(Used) + (IF Uncounted THEN 1 ELSE 0) - (IF Unlisted THEN 1 ELSE 0)
    /\ \A t \in Changers : th[t].pc \in {"dec_store", "inc_store"} => th[t].reg = client_count

(* What a thread must know of the entry it removes.                        *)
RemovalKnown(t) ==
    /\ th[t].pc \in {"fetch_victim", "close", "zero_socket"} => Victim(t) \in Used
    /\ th[t].pc = "close" => th[t].fd = socket[Victim(t)]
    /\ th[t].pc = "zero_name" => Victim(t) \notin Used
    /\ th[t].pc = "match" /\ th[t].own \in Slots => th[t].own \in Used
    /\ t = "monitor" /\ th[t].pc = "test" => th[t].own \in Used

RemovalSound == \A t \in Changers : RemovalKnown(t)

(* A client registers once, and its connection is in no entry before.      *)
RegistrationSound ==
    /\ Registering =>
           /\ Open(L.fd) /\ L.arg = my_name[peer[L.fd]]
           /\ ~NewClient(peer[L.fd])
           /\ \A i \in Slots : socket[i] = L.fd => Stale(i)
           /\ L.pc = "set_socket" => name[L.avail] = L.arg
    /\ \A c \in Clients : NewClient(c) =>
           /\ \A k \in 1..Len(to_server[c]) : to_server[c][k] = "REGISTER" => k = 1
           /\ \A i \in Used : Stale(i) \/ peer[socket[i]] # c

IInv ==
    /\ TypeOK /\ ThreadShape /\ ClientShape /\ Searched /\ NamesUnique
    /\ ~overlapped => EntriesSound /\ CountSound /\ RemovalSound /\ RegistrationSound
-----------------------------------------------------------------------------
USE DEF L, M, R, Victim

(* What the steps do to the variables of a thread.                         *)
Pcs == {"rest", "recv", "find", "anonymous", "full", "scan", "compare", "refuse",
        "set_name", "set_socket", "set_responsive", "inc", "inc_store", "ack",
        "match_ping", "answered", "match", "fetch_victim", "close", "zero_socket",
        "zero_name", "dec", "dec_store", "check", "test", "fetch", "ping", "mark",
        "pick", "fetch_socket", "send"}

Locals ==
    [pc: Pcs, at: Slots, arg: Names \cup {NoName}, own: Slots \cup {-1},
     fd: Fds \cup {0}, avail: Slots \cup {-1}, reg: Int]

(* Only thread t has moved.                                                *)
Moved(t) ==
    /\ th' \in [Threads -> Locals] /\ th'[t] \in Locals
    /\ \A u \in Threads : u # t => th'[u] = th[u]

LEMMA SlotFacts ==
    /\ MaxClients \in Nat /\ MaxClients >= 1 /\ 0 \in Slots /\ -1 \notin Slots
    /\ \A i \in Slots : i \in Nat /\ i < MaxClients
    /\ \A i \in Slots : i + 1 # MaxClients => i + 1 \in Slots
    /\ \A f \in Fds : f # 0
    /\ NoName \notin Names
<1>1. MaxClients \in Nat /\ MaxClients >= 1
  BY SocketAssumption
<1> QED
  BY <1>1, SocketAssumption DEF Slots, Fds

LEMMA RestTyped == Rest \in Locals
BY SlotFacts DEF Rest, Locals, Pcs

LEMMA ThreadTyped == TypeOK => th \in [Threads -> Locals] /\ \A t \in Threads : th[t] \in Locals
BY DEF TypeOK, Locals, Pcs

LEMMA GoesMoves ==
  ASSUME TypeOK, NEW t \in Threads, NEW p \in Pcs, Goes(t, p)
  PROVE  /\ Moved(t) /\ th'[t].pc = p /\ th'[t].at = th[t].at /\ th'[t].arg = th[t].arg
         /\ th'[t].own = th[t].own /\ th'[t].fd = th[t].fd /\ th'[t].avail = th[t].avail
         /\ th'[t].reg = th[t].reg
<1>1. th \in [Threads -> Locals] /\ th[t] \in Locals
  BY ThreadTyped
<1> DEFINE r == [th[t] EXCEPT !.pc = p]
<1>2. /\ r \in Locals /\ r.pc = p /\ r.at = th[t].at /\ r.arg = th[t].arg /\ r.own = th[t].own
      /\ r.fd = th[t].fd /\ r.avail = th[t].avail /\ r.reg = th[t].reg
  BY <1>1 DEF Locals
<1>3. th' = [th EXCEPT ![t] = r]
  BY DEF Goes
<1> HIDE DEF r
<1> QED
  BY <1>1, <1>2, <1>3 DEF Moved

LEMMA RestsMoves ==
  ASSUME TypeOK, NEW t \in Threads, Rests(t)
  PROVE  Moved(t) /\ th'[t] = Rest
BY ThreadTyped, RestTyped DEF Rests, Moved

(* Back to the loop: at rest, or at the next slot.                         *)
LEMMA ReturnsMoves ==
  ASSUME TypeOK, NEW t \in Threads, t = "monitor" => th[t].own \in Slots, Returns(t)
  PROVE  /\ Moved(t)
         /\ \/ th'[t] = Rest
            \/ t = "monitor" /\ th'[t].pc = "check" /\ th'[t].own \in Slots
<1>1. th \in [Threads -> Locals] /\ th[t] \in Locals
  BY ThreadTyped
<1>2. CASE Rests(t) \/ th' = [th EXCEPT ![t] = Rest]
  BY <1>1, <1>2, RestTyped DEF Rests, Moved
<1>3. CASE /\ t = "monitor" /\ th[t].own + 1 # MaxClients
           /\ th' = [th EXCEPT ![t] = [Rest EXCEPT !.pc = "check", !.own = th[t].own + 1]]
  <2> DEFINE r == [Rest EXCEPT !.pc = "check", !.own = th[t].own + 1]
  <2>1. th[t].own + 1 \in Slots
    BY <1>3, SlotFacts
  <2>2. r \in Locals /\ r.pc = "check" /\ r.own \in Slots
    BY <2>1, RestTyped DEF Rest, Locals, Pcs
  <2>3. th' = [th EXCEPT ![t] = r]
    BY <1>3
  <2> HIDE DEF r
  <2> QED
    BY <1>1, <1>3, <2>2, <2>3 DEF Moved
<1> QED
  BY <1>2, <1>3 DEF Returns

LEMMA SearchMoves ==
  ASSUME TypeOK, NEW t \in Threads, NEW ACTION otherwise, SearchesOn(t, otherwise)
  PROVE  \/ th[t].at + 1 = MaxClients /\ otherwise
         \/ /\ Moved(t) /\ th'[t].at = th[t].at + 1
            /\ th'[t].pc = th[t].pc /\ th'[t].arg = th[t].arg /\ th'[t].own = th[t].own
            /\ th'[t].fd = th[t].fd /\ th'[t].avail = th[t].avail /\ th'[t].reg = th[t].reg
<1>1. th \in [Threads -> Locals] /\ th[t] \in Locals
  BY ThreadTyped
<1>2. CASE th[t].at + 1 = MaxClients
  BY <1>2 DEF SearchesOn
<1>3. CASE th[t].at + 1 # MaxClients
  <2> DEFINE r == [th[t] EXCEPT !.at = @ + 1]
  <2>1. th[t].at + 1 \in Slots
    BY <1>1, <1>3, SlotFacts DEF Locals
  <2>2. /\ r \in Locals /\ r.at = th[t].at + 1
        /\ r.pc = th[t].pc /\ r.arg = th[t].arg /\ r.own = th[t].own
        /\ r.fd = th[t].fd /\ r.avail = th[t].avail /\ r.reg = th[t].reg
    BY <1>1, <2>1 DEF Locals
  <2>3. th' = [th EXCEPT ![t] = r]
    BY <1>3 DEF SearchesOn
  <2> HIDE DEF r
  <2> QED
    BY <1>1, <2>2, <2>3 DEF Moved
<1> QED
  BY <1>2, <1>3

(* A step that leaves the entries, the count and the connections as they   *)
(* are, and does not take a thread from one phase of a change to another.  *)
Settled(t) == th[t].pc \notin {"zero_socket", "zero_name", "dec", "dec_store", "set_socket",
                               "set_responsive", "inc", "inc_store"}

SamePhase(t) ==
    \/ Settled(t) /\ Settled(t)'
    \/ th[t].pc = "set_responsive" /\ th'[t].pc = "inc"
    \/ th[t].pc = "inc" /\ th'[t].pc = "inc_store" /\ th'[t].reg = client_count
    \/ th[t].pc = "dec" /\ th'[t].pc = "dec_store" /\ th'[t].reg = client_count

Shape(t) ==
    /\ t = "listener" => ListenerShape /\ Searched
    /\ t = "monitor" => MonitorShape
    /\ t = "reader" => ReaderShape

(* No REGISTER is sent.                                                    *)
NoneNew ==
    \A c \in Clients : \A k \in 1..Len(to_server'[c]) :
        to_server'[c][k] = "REGISTER" =>
            k \in 1..Len(to_server[c]) /\ to_server[c][k] = "REGISTER"

(* What a registration relies on.                                          *)
RegistrationKnown ==
    Registering =>
        /\ Open(L.fd) /\ L.arg = my_name[peer[L.fd]]
        /\ ~NewClient(peer[L.fd])
        /\ \A i \in Slots : socket[i] = L.fd => Stale(i)
        /\ L.pc = "set_socket" => name[L.avail] = L.arg

SameRegistration == Registering' => Registering /\ L'.fd = L.fd /\ L'.arg = L.arg

LEMMA QuietStep ==
  ASSUME IInv, NEW t \in Threads, Moved(t), Noted,
         UNCHANGED <<name, socket, client_count, peer, my_name>>,
         responsive' \in [Slots -> BOOLEAN], op_id' \in 0..Requests,
         stdin_open' \in BOOLEAN, up' \in BOOLEAN, backlog' \subseteq Clients,
         to_server' \in [Clients -> Seq({"REGISTER", "UNREGISTER", "PING", "RESULT"})],
         to_client' \in [Clients -> Seq({"REGISTER_ACK", "NAME_TAKEN", "PING", "ARITH", "rest"})],
         cpc' \in [Clients -> {"start", "register", "listen", "hung", "left"}],
         signalled' \subseteq Interruptible,
         t \in Changers => SamePhase(t), Shape(t)', ClientShape',
         ~overlapped' => /\ NoneNew
                         /\ t = "listener" => SameRegistration \/ RegistrationKnown'
                         /\ t \in Changers => RemovalKnown(t)'
  PROVE  IInv'
<1>1. overlapped \in BOOLEAN /\ overlapped' \in BOOLEAN /\ (overlapped => overlapped')
  BY DEF IInv, TypeOK, Noted
<1>2. TypeOK'
  <2>1. th' \in [Threads ->
           [pc: {"rest", "recv", "find", "anonymous", "full", "scan", "compare", "refuse",
                 "set_name", "set_socket", "set_responsive", "inc", "inc_store", "ack",
                 "match_ping", "answered", "match", "fetch_victim", "close", "zero_socket",
                 "zero_name", "dec", "dec_store", "check", "test", "fetch", "ping", "mark",
                 "pick", "fetch_socket", "send"},
            at: Slots, arg: Names \cup {NoName}, own: Slots \cup {-1},
            fd: Fds \cup {0}, avail: Slots \cup {-1}, reg: Int]]
    BY DEF Moved, Locals, Pcs
  <2> QED
    BY <1>1, <2>1 DEF IInv, TypeOK
<1>3. Threads = {"listener", "monitor", "reader"} /\ Changers = {"listener", "monitor"}
  BY DEF Threads, Changers
<1>4. \A u \in Threads : u # t => th'[u] = th[u]
  BY DEF Moved
<1>5. ThreadShape' /\ Searched' /\ NamesUnique'
  <2>1. t # "listener" => L' = L
    BY <1>3, <1>4
  <2>2. ListenerShape' /\ Searched'
    BY <2>1 DEF IInv, ThreadShape, ListenerShape, Searched, Shape, Registering, Filling
  <2>3. MonitorShape' /\ ReaderShape'
    BY <1>3, <1>4 DEF IInv, ThreadShape, MonitorShape, ReaderShape, Shape
  <2>4. (Overlap => overlapped)'
    BY DEF Noted
  <2> QED
    BY <2>2, <2>3, <2>4 DEF ThreadShape, IInv, NamesUnique
<1>6. ASSUME ~overlapped' PROVE EntriesSound' /\ CountSound' /\ RemovalSound' /\ RegistrationSound'
  <2>1. EntriesSound /\ CountSound /\ RemovalSound /\ RegistrationSound
    BY <1>1, <1>6 DEF IInv
  <2>2. Changers \subseteq Threads /\ "listener" \in Changers /\ "monitor" \in Changers
    BY <1>3
  <2>3. \A u \in Changers : u # t => th'[u] = th[u]
    BY <1>4, <2>2
  <2>4. Used' = Used
    BY DEF Used
  <2>5. \A i \in Slots : Stale(i)' <=> Stale(i)
    BY <2>3 DEF Stale, SamePhase, Settled, Victim
  <2>6. EntriesSound'
    <3>1. \A i \in Slots :
             /\ (\E u \in Changers : th'[u].pc = "zero_name" /\ th'[u].at = i)
                    <=> (\E u \in Changers : th[u].pc = "zero_name" /\ th[u].at = i)
             /\ (L'.pc = "set_socket" /\ L'.avail = i) <=> (L.pc = "set_socket" /\ L.avail = i)
      BY <2>2, <2>3 DEF SamePhase, Settled
    <3>2. \A i \in Used : i \in Slots
      BY DEF Used
    <3> QED
      BY <2>1, <2>4, <2>5, <3>1, <3>2 DEF EntriesSound, Open, Victim
  <2>7. CountSound'
    <3>1. (Uncounted' <=> Uncounted) /\ (Unlisted' <=> Unlisted)
      BY <2>2, <2>3 DEF Uncounted, Unlisted, SamePhase, Settled
    <3>2. \A u \in Changers : th'[u].pc \in {"dec_store", "inc_store"} => th'[u].reg = client_count
      BY <2>1, <2>3 DEF CountSound, SamePhase, Settled
    <3>3. client_count' = Cardinality(Used) + (IF Uncounted THEN 1 ELSE 0) - (IF Unlisted THEN 1 ELSE 0)
      BY <2>1 DEF CountSound
    <3> QED
      BY <2>4, <3>1, <3>2, <3>3 DEF CountSound
  <2>8. RemovalSound'
    <3>1. \A u \in Changers : u # t => RemovalKnown(u)'
      BY <2>1, <2>3, <2>4 DEF RemovalSound, RemovalKnown
    <3> QED
      BY <1>6, <3>1 DEF RemovalSound
  <2>9. RegistrationSound'
    <3>1. \A c \in Clients : NewClient(c)' => NewClient(c)
      BY <1>6 DEF NewClient, NoneNew
    <3>2. Open(L.fd) /\ Registering => peer[L.fd] \in Clients
      BY DEF IInv, ThreadShape, ListenerShape, TypeOK, Registering, Open
    <3>3. RegistrationKnown'
      <4>1. CASE ~RegistrationKnown'
        <5>1. SameRegistration /\ (L'.pc = "set_socket" => L' = L)
          BY <1>3, <1>4, <1>6, <2>3, <4>1 DEF SamePhase, Settled, SameRegistration, Registering
        <5> QED
          BY <2>1, <2>5, <3>1, <3>2, <5>1
             DEF RegistrationSound, RegistrationKnown, SameRegistration, Open
      <4> QED
        BY <4>1
    <3>4. ASSUME NEW c \in Clients, NewClient(c)'
          PROVE  /\ \A k \in 1..Len(to_server'[c]) : to_server'[c][k] = "REGISTER" => k = 1
                 /\ \A i \in Used : Stale(i)' \/ peer[socket[i]] # c
      BY <1>6, <2>1, <2>5, <3>1, <3>4 DEF RegistrationSound, NoneNew, Used
    <3> QED
      BY <2>4, <3>3, <3>4 DEF RegistrationSound, RegistrationKnown
  <2> QED
    BY <2>6, <2>7, <2>8, <2>9
<1> QED
  BY <1>2, <1>5, <1>6 DEF IInv

(* The step of a thread that changes its own variables only.               *)
LEMMA LocalStep ==
  ASSUME IInv, NEW t \in Threads, Moved(t), Local,
         UNCHANGED <<name, socket, client_count>>, responsive' \in [Slots -> BOOLEAN],
         t \in Changers => SamePhase(t), Shape(t)',
         ~overlapped' => /\ t = "listener" => SameRegistration
                         /\ t \in Changers => RemovalKnown(t)'
  PROVE  IInv'
<1>1. /\ UNCHANGED <<op_id, stdin_open, up, peer, backlog, to_server, to_client, cpc, my_name,
                     signalled>>
      /\ Noted
  BY DEF Local, inputVars, network, clientVars
<1>2. NoneNew
  BY <1>1 DEF NoneNew
<1>3. ClientShape'
  BY <1>1 DEF IInv, ClientShape, Open
<1>4. TypeOK
  BY DEF IInv
<1> QED
  BY <1>1, <1>2, <1>3, <1>4, QuietStep DEF TypeOK

LEMMA SetsMoves ==
  ASSUME TypeOK, NEW t \in Threads, NEW r \in Locals, th' = [th EXCEPT ![t] = r]
  PROVE  Moved(t) /\ th'[t] = r
BY ThreadTyped DEF Moved

LEMMA ThreadNames ==
    /\ Threads = {"listener", "monitor", "reader"} /\ Changers = {"listener", "monitor"}
    /\ "listener" \in Threads /\ "monitor" \in Threads /\ "reader" \in Threads
BY DEF Threads, Changers

(* A thread at rest has nothing to know.                                   *)
QuietAtRest ==
    \A t \in Threads : th[t] = Rest =>
        /\ Settled(t) /\ RemovalKnown(t) /\ Shape(t)
        /\ t = "listener" => ~Registering

LEMMA RestIsQuiet == QuietAtRest
<1> SUFFICES ASSUME NEW t \in Threads, th[t] = Rest
             PROVE  /\ Settled(t) /\ RemovalKnown(t) /\ Shape(t)
                    /\ t = "listener" => ~Registering
  BY DEF QuietAtRest
<1>1. th[t].pc = "rest" /\ th[t].at = 0 /\ th[t].avail = -1 /\ th[t].own = -1
  BY DEF Rest
<1> QED
  BY <1>1, ThreadNames, SlotFacts
     DEF Settled, RemovalKnown, Shape, ListenerShape, ListenerPcs, Filling, Searched, Registering,
         MonitorShape, MonitorPcs, ReaderShape

LEMMA RestsQuietly ==
  ASSUME TypeOK, NEW t \in Threads, Rests(t)
  PROVE  /\ Moved(t) /\ Settled(t)' /\ RemovalKnown(t)' /\ Shape(t)'
         /\ t = "listener" => ~Registering'
<1>1. Moved(t) /\ th'[t] = Rest
  BY RestsMoves
<1>2. QuietAtRest'
  BY RestIsQuiet, PTL
<1> QED
  BY <1>1, <1>2 DEF QuietAtRest

LEMMA ReturnsQuietly ==
  ASSUME TypeOK, NEW t \in Changers, t = "monitor" => th[t].own \in Slots, Returns(t)
  PROVE  /\ Moved(t) /\ Settled(t)' /\ RemovalKnown(t)' /\ Shape(t)'
         /\ t = "listener" => ~Registering'
<1>1. t \in Threads
  BY ThreadNames
<1>2. /\ Moved(t)
      /\ \/ th'[t] = Rest
         \/ t = "monitor" /\ th'[t].pc = "check" /\ th'[t].own \in Slots
  BY <1>1, ReturnsMoves
<1>3. CASE th'[t] = Rest
  <2>1. QuietAtRest'
    BY RestIsQuiet, PTL
  <2> QED
    BY <1>1, <1>2, <1>3, <2>1 DEF QuietAtRest
<1>4. CASE t = "monitor" /\ th'[t].pc = "check" /\ th'[t].own \in Slots
  BY <1>2, <1>4 DEF Settled, RemovalKnown, Shape, MonitorShape, MonitorPcs
<1> QED
  BY <1>2, <1>3, <1>4

(* The steps of the listener's own.                                        *)
LEMMA EpollWaitStep == IInv /\ EpollWait => IInv'
<1> SUFFICES ASSUME IInv, EpollWait PROVE IInv'
  OBVIOUS
<1>1. TypeOK /\ Local /\ L.pc = "rest" /\ UNCHANGED <<name, socket, responsive, client_count>>
  BY DEF IInv, EpollWait, ListenerAt, At, registry
<1>2. L.at = 0 /\ L.avail = -1 /\ L.own = -1
  BY <1>1 DEF IInv, ThreadShape, ListenerShape
<1>3. L \in Locals
  BY <1>1, ThreadTyped, ThreadNames
<1>4. PICK f \in Fds : th' = [th EXCEPT !["listener"].pc = "recv", !["listener"].fd = f]
  BY DEF EpollWait
<1> DEFINE r == [L EXCEPT !.pc = "recv", !.fd = f]
<1>5. r \in Locals /\ r.pc = "recv" /\ r.fd = f /\ r.at = 0 /\ r.avail = -1 /\ r.own = -1
  BY <1>2, <1>3 DEF Locals, Pcs
<1>6. th' = [th EXCEPT !["listener"] = r]
  BY <1>4
<1> HIDE DEF r
<1>7. Moved("listener") /\ L' = r
  BY <1>1, <1>5, <1>6, SetsMoves, ThreadNames
<1>8. SamePhase("listener") /\ SameRegistration /\ RemovalKnown("listener")'
  BY <1>1, <1>5, <1>7 DEF SamePhase, Settled, SameRegistration, Registering, RemovalKnown
<1>9. Shape("listener")'
  BY <1>5, <1>7, SlotFacts
     DEF Shape, ListenerShape, ListenerPcs, Filling, Searched, Registering
<1> QED
  BY <1>1, <1>7, <1>8, <1>9, LocalStep, ThreadNames DEF TypeOK

(* What every step of a thread's own has in common.                        *)
LEMMA LocalFacts ==
  ASSUME IInv, Local, UNCHANGED registry
  PROVE  /\ TypeOK /\ UNCHANGED <<name, socket, responsive, client_count>>
         /\ responsive' \in [Slots -> BOOLEAN]
         /\ "listener" \in Threads /\ "monitor" \in Threads /\ "reader" \in Threads
         /\ \A t \in Threads : th[t] \in Locals
         /\ ListenerShape /\ MonitorShape /\ ReaderShape /\ Searched
BY ThreadTyped, ThreadNames DEF IInv, TypeOK, registry, ThreadShape

LEMMA ReadEndOfFileStep ==
  ASSUME IInv, ListenerAt("recv"), Goes("listener", "find"), Local, UNCHANGED registry
  PROVE  IInv'
<1>1. /\ TypeOK /\ UNCHANGED <<name, socket, client_count>> /\ responsive' \in [Slots -> BOOLEAN]
      /\ "listener" \in Threads /\ ListenerShape
  BY LocalFacts
<1>2. L.pc = "recv" /\ L.at = 0 /\ L.own = -1 /\ L.fd \in Fds
  BY <1>1 DEF ListenerAt, At, ListenerShape
<1>3. "find" \in Pcs
  BY DEF Pcs
<1>4. /\ Moved("listener") /\ L'.pc = "find" /\ L'.at = L.at /\ L'.arg = L.arg
      /\ L'.own = L.own /\ L'.fd = L.fd /\ L'.avail = L.avail
  BY <1>1, <1>3, GoesMoves
<1>5. SamePhase("listener") /\ SameRegistration /\ RemovalKnown("listener")'
  BY <1>2, <1>4 DEF SamePhase, Settled, SameRegistration, Registering, RemovalKnown
<1>6. Shape("listener")'
  BY <1>2, <1>4, SlotFacts
     DEF Shape, ListenerShape, ListenerPcs, Filling, Searched, Registering
<1> QED
  BY <1>1, <1>4, <1>5, <1>6, LocalStep

LEMMA FindStep == IInv /\ Find => IInv'
<1> SUFFICES ASSUME IInv, Find PROVE IInv'
  OBVIOUS
<1>1. Local /\ UNCHANGED registry /\ L.pc = "find"
  BY DEF Find, ListenerAt, At
<1>2. /\ TypeOK /\ UNCHANGED <<name, socket, client_count>> /\ responsive' \in [Slots -> BOOLEAN]
      /\ "listener" \in Threads /\ L \in Locals /\ ListenerShape /\ Searched
  BY <1>1, LocalFacts
<1>3. L.fd \in Fds /\ L.at \in Slots /\ L.own = -1 /\ \A j \in Slots : j < L.at => socket[j] # L.fd
  BY <1>1, <1>2 DEF ListenerShape, Searched, Locals
<1>4. CASE socket[L.at] = L.fd
  <2> DEFINE r == [L EXCEPT !.pc = "match", !.at = 0, !.own = L.at]
  <2>1. r \in Locals /\ r.pc = "match" /\ r.own = L.at
    BY <1>2, <1>3, SlotFacts DEF Locals, Pcs
  <2>2. th' = [th EXCEPT !["listener"] = r]
    BY <1>4 DEF Find
  <2> HIDE DEF r
  <2>3. Moved("listener") /\ L'.pc = "match" /\ L'.own = L.at
    BY <1>2, <2>1, <2>2, SetsMoves
  <2>4. L.at \in Used
    BY <1>3, <1>4, SlotFacts DEF Used
  <2>5. SamePhase("listener") /\ SameRegistration /\ RemovalKnown("listener")'
    BY <1>1, <1>2, <2>3, <2>4 DEF SamePhase, Settled, SameRegistration, Registering, RemovalKnown, Used
  <2>6. Shape("listener")'
    BY <1>3, <2>3, SlotFacts
       DEF Shape, ListenerShape, ListenerPcs, Filling, Searched, Registering
  <2> QED
    BY <1>1, <1>2, <2>3, <2>5, <2>6, LocalStep
<1>5. CASE socket[L.at] # L.fd
  <2>1. SearchesOn("listener", Goes("listener", "anonymous"))
    BY <1>5 DEF Find
  <2>2. /\ Moved("listener") /\ L'.arg = L.arg /\ L'.own = L.own /\ L'.fd = L.fd
        /\ \/ L.at + 1 = MaxClients /\ L'.pc = "anonymous"
           \/ L'.at = L.at + 1 /\ L'.pc = "find"
    <3>1. CASE L.at + 1 = MaxClients /\ Goes("listener", "anonymous")
      BY <1>2, <3>1, GoesMoves DEF Pcs
    <3> QED
      BY <1>1, <1>2, <2>1, <3>1, SearchMoves
  <2>3. SamePhase("listener") /\ SameRegistration /\ RemovalKnown("listener")'
    BY <1>1, <2>2 DEF SamePhase, Settled, SameRegistration, Registering, RemovalKnown
  <2>4. \A j \in Slots : j < L.at + 1 => socket[j] # L.fd
    BY <1>3, <1>5, SlotFacts
  <2>5. Shape("listener")'
    BY <1>2, <1>3, <2>2, <2>4, SlotFacts
       DEF Shape, ListenerShape, ListenerPcs, Filling, Searched, Registering
  <2> QED
    BY <1>1, <1>2, <2>2, <2>3, <2>5, LocalStep
<1> QED
  BY <1>4, <1>5

LEMMA RefuseFullStep == IInv /\ RefuseFull => IInv'
<1> SUFFICES ASSUME IInv, RefuseFull PROVE IInv'
  OBVIOUS
<1>1. Local /\ UNCHANGED registry /\ L.pc = "full"
  BY DEF RefuseFull, ListenerAt, At
<1>2. /\ TypeOK /\ UNCHANGED <<name, socket, client_count>> /\ responsive' \in [Slots -> BOOLEAN]
      /\ "listener" \in Threads /\ L \in Locals /\ ListenerShape /\ Searched
  BY <1>1, LocalFacts
<1>3. L.fd \in Fds /\ L.at = 0 /\ L.avail = -1 /\ L.own = -1 /\ L.arg \in Names
  BY <1>1, <1>2 DEF ListenerShape, Searched, Registering
<1>4. CASE Rests("listener")
  <2>1. /\ Moved("listener") /\ Settled("listener")' /\ RemovalKnown("listener")'
        /\ Shape("listener")' /\ ~Registering'
    BY <1>2, <1>4, RestsQuietly
  <2>2. SamePhase("listener") /\ SameRegistration
    BY <1>1, <2>1 DEF SamePhase, Settled, SameRegistration
  <2> QED
    BY <1>1, <1>2, <2>1, <2>2, LocalStep
<1>5. CASE Goes("listener", "scan")
  <2>1. /\ Moved("listener") /\ L'.pc = "scan" /\ L'.at = L.at /\ L'.arg = L.arg
        /\ L'.own = L.own /\ L'.fd = L.fd /\ L'.avail = L.avail
    BY <1>2, <1>5, GoesMoves DEF Pcs
  <2>2. SamePhase("listener") /\ SameRegistration /\ RemovalKnown("listener")'
    BY <1>1, <2>1 DEF SamePhase, Settled, SameRegistration, Registering, RemovalKnown
  <2>3. Shape("listener")'
    BY <1>3, <2>1, SlotFacts
       DEF Shape, ListenerShape, ListenerPcs, Filling, Searched, Registering
  <2> QED
    BY <1>1, <1>2, <2>1, <2>2, <2>3, LocalStep
<1> QED
  BY <1>4, <1>5 DEF RefuseFull

LEMMA ScansOnMoves ==
  ASSUME TypeOK, NEW i \in Nat, i <= MaxClients, NEW a \in Slots \cup {-1}, ScansOn(i, a)
  PROVE  /\ Moved("listener") /\ L'.arg = L.arg /\ L'.own = L.own /\ L'.fd = L.fd /\ L'.avail = a
         /\ \/ i < MaxClients /\ L'.pc = "scan" /\ L'.at = i
            \/ i = MaxClients /\ L'.pc = "set_name"
<1> DEFINE r == [L EXCEPT !.pc = IF i < MaxClients THEN "scan" ELSE "set_name",
                          !.at = IF i < MaxClients THEN i ELSE 0,
                          !.avail = a]
<1>1. L \in Locals /\ "listener" \in Threads
  BY ThreadTyped, ThreadNames
<1>2. i < MaxClients => i \in Slots
  BY SlotFacts DEF Slots
<1>3. /\ r \in Locals /\ r.arg = L.arg /\ r.own = L.own /\ r.fd = L.fd /\ r.avail = a
      /\ i < MaxClients => r.pc = "scan" /\ r.at = i
      /\ ~(i < MaxClients) => r.pc = "set_name"
  BY <1>1, <1>2, SlotFacts, ZenonT(40) DEF Locals, Pcs
<1>4. th' = [th EXCEPT !["listener"] = r]
  BY DEF ScansOn
<1> HIDE DEF r
<1>5. Moved("listener") /\ L' = r
  BY <1>1, <1>3, <1>4, SetsMoves
<1> QED
  BY <1>3, <1>5, SlotFacts

LEMMA ScanStep == IInv /\ Scan => IInv'
<1> SUFFICES ASSUME IInv, Scan PROVE IInv'
  OBVIOUS
<1>1. Local /\ UNCHANGED registry /\ L.pc = "scan"
  BY DEF Scan, ListenerAt, At
<1>2. /\ TypeOK /\ UNCHANGED <<name, socket, client_count>> /\ responsive' \in [Slots -> BOOLEAN]
      /\ "listener" \in Threads /\ L \in Locals /\ ListenerShape /\ Searched
  BY <1>1, LocalFacts
<1>3. /\ L.fd \in Fds /\ L.at \in Slots /\ L.own = -1 /\ L.arg \in Names
      /\ \A j \in Slots : j < L.at /\ j # L.avail => name[j] # L.arg
      /\ L.avail \in Slots => socket[L.avail] = 0
  BY <1>1, <1>2 DEF ListenerShape, Searched, Registering, Locals
<1>4. CASE L.avail = -1 /\ socket[L.at] = 0 /\ ScansOn(L.at + 1, L.at)
  <2>1. L.at + 1 \in Nat /\ L.at + 1 <= MaxClients
    BY <1>3, SlotFacts
  <2>2. /\ Moved("listener") /\ L'.arg = L.arg /\ L'.own = L.own /\ L'.fd = L.fd /\ L'.avail = L.at
        /\ \/ L.at + 1 < MaxClients /\ L'.pc = "scan" /\ L'.at = L.at + 1
           \/ L.at + 1 = MaxClients /\ L'.pc = "set_name"
    BY <1>2, <1>3, <1>4, <2>1, ScansOnMoves
  <2>3. SamePhase("listener") /\ SameRegistration /\ RemovalKnown("listener")'
    BY <1>1, <2>2 DEF SamePhase, Settled, SameRegistration, Registering, RemovalKnown
  <2>4. \A j \in Slots : j < L.at + 1 /\ j # L.at => name[j] # L.arg
    BY <1>3, <1>4, SlotFacts
  <2>5. Shape("listener")'
    BY <1>2, <1>3, <1>4, <2>2, <2>4, SlotFacts
       DEF Shape, ListenerShape, ListenerPcs, Filling, Searched, Registering
  <2> QED
    BY <1>1, <1>2, <2>2, <2>3, <2>5, LocalStep
<1>5. CASE Goes("listener", "compare")
  <2>1. /\ Moved("listener") /\ L'.pc = "compare" /\ L'.at = L.at /\ L'.arg = L.arg
        /\ L'.own = L.own /\ L'.fd = L.fd /\ L'.avail = L.avail
    BY <1>2, <1>5, GoesMoves DEF Pcs
  <2>2. SamePhase("listener") /\ SameRegistration /\ RemovalKnown("listener")'
    BY <1>1, <2>1 DEF SamePhase, Settled, SameRegistration, Registering, RemovalKnown
  <2>3. Shape("listener")'
    BY <1>2, <1>3, <2>1, SlotFacts
       DEF Shape, ListenerShape, ListenerPcs, Filling, Searched, Registering
  <2> QED
    BY <1>1, <1>2, <2>1, <2>2, <2>3, LocalStep
<1> QED
  BY <1>4, <1>5 DEF Scan

(* Compare, unless it ends the server.                                     *)
LEMMA CompareStep ==
  ASSUME IInv, Compare, ~(name[L.at] # L.arg /\ L.at + 1 = MaxClients /\ L.avail = -1)
  PROVE  IInv'
<1>1. /\ Local /\ UNCHANGED registry /\ L.pc = "compare"
      /\ IF name[L.at] = L.arg THEN Goes("listener", "refuse") ELSE ScansOn(L.at + 1, L.avail)
  BY DEF Compare, ListenerAt, At
<1>2. /\ TypeOK /\ UNCHANGED <<name, socket, client_count>> /\ responsive' \in [Slots -> BOOLEAN]
      /\ "listener" \in Threads /\ L \in Locals /\ ListenerShape /\ Searched
  BY <1>1, LocalFacts
<1>3. /\ L.fd \in Fds /\ L.at \in Slots /\ L.own = -1 /\ L.arg \in Names
      /\ L.avail \in Slots \cup {-1}
      /\ \A j \in Slots : j < L.at /\ j # L.avail => name[j] # L.arg
      /\ L.avail \in Slots => socket[L.avail] = 0
  BY <1>1, <1>2 DEF ListenerShape, Searched, Registering, Locals
<1>4. CASE name[L.at] = L.arg
  <2>1. /\ Moved("listener") /\ L'.pc = "refuse" /\ L'.fd = L.fd
    BY <1>1, <1>2, <1>4, GoesMoves DEF Pcs
  <2>2. SamePhase("listener") /\ SameRegistration /\ RemovalKnown("listener")'
    BY <1>1, <2>1 DEF SamePhase, Settled, SameRegistration, Registering, RemovalKnown
  <2>3. Shape("listener")'
    BY <1>3, <2>1 DEF Shape, ListenerShape, ListenerPcs, Filling, Searched, Registering
  <2> QED
    BY <1>1, <1>2, <2>1, <2>2, <2>3, LocalStep
<1>5. CASE name[L.at] # L.arg
  <2>1. L.at + 1 \in Nat /\ L.at + 1 <= MaxClients
    BY <1>3, SlotFacts
  <2>2. /\ Moved("listener") /\ L'.arg = L.arg /\ L'.own = L.own /\ L'.fd = L.fd
        /\ L'.avail = L.avail
        /\ \/ L.at + 1 < MaxClients /\ L'.pc = "scan" /\ L'.at = L.at + 1
           \/ L.at + 1 = MaxClients /\ L'.pc = "set_name"
    BY <1>1, <1>2, <1>3, <1>5, <2>1, ScansOnMoves
  <2>3. SamePhase("listener") /\ SameRegistration /\ RemovalKnown("listener")'
    BY <1>1, <2>2 DEF SamePhase, Settled, SameRegistration, Registering, RemovalKnown
  <2>4. \A j \in Slots : j < L.at + 1 /\ j # L.avail => name[j] # L.arg
    BY <1>3, <1>5, SlotFacts
  <2>5. L.at + 1 = MaxClients => L.avail \in Slots
    BY <1>3, <1>5
  <2>6. Shape("listener")'
    BY <1>2, <1>3, <2>2, <2>4, <2>5, SlotFacts
       DEF Shape, ListenerShape, ListenerPcs, Filling, Searched, Registering
  <2> QED
    BY <1>1, <1>2, <2>2, <2>3, <2>6, LocalStep
<1> QED
  BY <1>4, <1>5

LEMMA MatchPingStep == IInv /\ MatchPing => IInv'
<1> SUFFICES ASSUME IInv, MatchPing PROVE IInv'
  OBVIOUS
<1>1. Local /\ UNCHANGED registry /\ L.pc = "match_ping"
  BY DEF MatchPing, ListenerAt, At
<1>2. /\ TypeOK /\ UNCHANGED <<name, socket, client_count>> /\ responsive' \in [Slots -> BOOLEAN]
      /\ "listener" \in Threads
  BY <1>1, LocalFacts
<1>3. CASE Rests("listener")
  <2>1. /\ Moved("listener") /\ Settled("listener")' /\ RemovalKnown("listener")'
        /\ Shape("listener")' /\ ~Registering'
    BY <1>2, <1>3, RestsQuietly
  <2>2. SamePhase("listener") /\ SameRegistration
    BY <1>1, <2>1 DEF SamePhase, Settled, SameRegistration
  <2> QED
    BY <1>1, <1>2, <2>1, <2>2, LocalStep
<1>4. CASE Moved("listener") /\ L'.pc \in {"match_ping", "answered"}
  <2>1. SamePhase("listener") /\ SameRegistration /\ RemovalKnown("listener")'
    BY <1>1, <1>4 DEF SamePhase, Settled, SameRegistration, Registering, RemovalKnown
  <2>2. Shape("listener")'
    BY <1>4 DEF Shape, ListenerShape, ListenerPcs, Filling, Searched, Registering
  <2> QED
    BY <1>1, <1>2, <1>4, <2>1, <2>2, LocalStep
<1>5. Goes("listener", "answered") => Moved("listener") /\ L'.pc = "answered"
  BY <1>2, GoesMoves DEF Pcs
<1>6. SearchesOn("listener", Rests("listener")) =>
          Rests("listener") \/ (Moved("listener") /\ L'.pc = "match_ping")
  BY <1>1, <1>2, SearchMoves
<1> QED
  BY <1>3, <1>4, <1>5, <1>6 DEF MatchPing

LEMMA AnsweredStep == IInv /\ Answered => IInv'
<1> SUFFICES ASSUME IInv, Answered PROVE IInv'
  OBVIOUS
<1>1. /\ Local /\ UNCHANGED <<name, socket, client_count>> /\ L.pc = "answered"
      /\ TypeOK /\ "listener" \in Threads /\ Rests("listener")
      /\ responsive' \in [Slots -> BOOLEAN]
  BY ThreadNames DEF IInv, TypeOK, Answered, ListenerAt, At
<1>2. /\ Moved("listener") /\ Settled("listener")' /\ RemovalKnown("listener")'
      /\ Shape("listener")' /\ ~Registering'
  BY <1>1, RestsQuietly
<1>3. SamePhase("listener") /\ SameRegistration
  BY <1>1, <1>2 DEF SamePhase, Settled, SameRegistration
<1> QED
  BY <1>1, <1>2, <1>3, LocalStep

LEMMA SetResponsiveStep == IInv /\ SetResponsive => IInv'
<1> SUFFICES ASSUME IInv, SetResponsive PROVE IInv'
  OBVIOUS
<1>1. /\ Local /\ UNCHANGED <<name, socket, client_count>> /\ L.pc = "set_responsive"
      /\ TypeOK /\ "listener" \in Threads /\ Goes("listener", "inc")
      /\ responsive' \in [Slots -> BOOLEAN]
  BY ThreadNames DEF IInv, TypeOK, SetResponsive, ListenerAt, At
<1>2. L.fd \in Fds /\ L.avail \in Slots
  BY <1>1 DEF IInv, ThreadShape, ListenerShape, Filling
<1>3. Moved("listener") /\ L'.pc = "inc" /\ L'.fd = L.fd /\ L'.avail = L.avail
  BY <1>1, GoesMoves DEF Pcs
<1>4. SamePhase("listener") /\ SameRegistration /\ RemovalKnown("listener")'
  BY <1>1, <1>3 DEF SamePhase, Settled, SameRegistration, Registering, RemovalKnown
<1>5. Shape("listener")'
  BY <1>2, <1>3 DEF Shape, ListenerShape, ListenerPcs, Filling, Searched, Registering
<1> QED
  BY <1>1, <1>3, <1>4, <1>5, LocalStep

(* The load of ++client_count or --client_count.                           *)
LEMMA LoadCountStep ==
  ASSUME IInv, NEW t \in Changers, NEW from, NEW to, LoadCount(t, from, to),
         \/ t = "listener" /\ from = "inc" /\ to = "inc_store"
         \/ from = "dec" /\ to = "dec_store"
  PROVE  IInv'
<1>1. Local /\ UNCHANGED registry /\ th[t].pc = from
  BY DEF LoadCount, At
<1>2. /\ TypeOK /\ UNCHANGED <<name, socket, client_count>> /\ responsive' \in [Slots -> BOOLEAN]
      /\ t \in Threads /\ th[t] \in Locals /\ ListenerShape /\ MonitorShape
  BY <1>1, LocalFacts, ThreadNames
<1> DEFINE r == [th[t] EXCEPT !.pc = to, !.reg = client_count]
<1>3. /\ r \in Locals /\ r.pc = to /\ r.reg = client_count /\ r.fd = th[t].fd
      /\ r.avail = th[t].avail /\ r.own = th[t].own
  BY <1>2 DEF Locals, Pcs, TypeOK
<1>4. th' = [th EXCEPT ![t] = r]
  BY DEF LoadCount
<1> HIDE DEF r
<1>5. Moved(t) /\ th'[t] = r
  BY <1>2, <1>3, <1>4, SetsMoves
<1>6. /\ SamePhase(t) /\ RemovalKnown(t)'
      /\ t = "listener" => SameRegistration
  BY <1>1, <1>3, <1>5 DEF SamePhase, Settled, SameRegistration, Registering, RemovalKnown
<1>7. Shape(t)'
  BY <1>1, <1>2, <1>3, <1>5, ThreadNames
     DEF Shape, ListenerShape, ListenerPcs, Filling, Searched, Registering, MonitorShape, MonitorPcs
<1> QED
  BY <1>1, <1>2, <1>5, <1>6, <1>7, LocalStep

(* handle_unregister finds the entry: the name it looks for is a client's, *)
(* and nobody else is changing the registry.                               *)
LEMMA MatchFinds ==
  ASSUME IInv, ~overlapped, NEW t \in Changers, th[t].pc = "match", name[th[t].at] = Sought(t)
  PROVE  th[t].at \in Used
<1>1. /\ EntriesSound /\ RemovalKnown(t) /\ ThreadShape /\ Searched /\ ClientShape /\ TypeOK
      /\ t \in Threads /\ th[t] \in Locals
  BY ThreadTyped, ThreadNames DEF IInv, RemovalSound
<1>2. \A u \in Changers : u # t => th[u].pc \notin {"zero_socket", "zero_name", "set_name", "set_socket"}
  BY <1>1, ThreadNames
     DEF ThreadShape, MonitorShape, MonitorPcs, Overlap, Changing, Removing, Adding
<1>3. /\ \A i \in Slots : ~Stale(i)
      /\ \A i \in Slots : ~\E u \in Changers : th[u].pc = "zero_name" /\ Victim(u) = i
      /\ L.pc # "set_socket"
  BY <1>2, ThreadNames DEF Stale
<1>4. Sought(t) # NoName
  <2>1. CASE th[t].own \in Slots
    <3>1. th[t].own \in Used
      BY <1>1, <2>1 DEF RemovalKnown
    <3>2. Open(socket[th[t].own]) /\ name[th[t].own] = my_name[peer[socket[th[t].own]]]
      BY <1>1, <1>3, <3>1 DEF EntriesSound, Used
    <3>3. socket[th[t].own] \in Fds /\ peer[socket[th[t].own]] \in Clients
      BY <1>1, <2>1, <3>2 DEF Open, TypeOK
    <3> QED
      BY <1>1, <2>1, <3>2, <3>3, SlotFacts DEF ClientShape, Sought
  <2>2. CASE th[t].own \notin Slots
    <3>1. t = "listener"
      BY <1>1, <2>2, ThreadNames DEF ThreadShape, MonitorShape
    <3>2. L.own = -1
      BY <1>1, <2>2, <3>1 DEF Locals
    <3> QED
      BY <1>1, <2>2, <3>1, <3>2, SlotFacts DEF Searched, Sought
  <2> QED
    BY <2>1, <2>2
<1>5. th[t].at \in Slots
  BY <1>1 DEF Locals
<1> QED
  BY <1>1, <1>3, <1>4, <1>5 DEF EntriesSound

LEMMA MatchStep ==
  ASSUME IInv, NEW t \in Changers, Match(t)
  PROVE  IInv'
<1>1. Local /\ UNCHANGED registry /\ th[t].pc = "match"
  BY DEF Match, At
<1>2. /\ TypeOK /\ UNCHANGED <<name, socket, client_count>> /\ responsive' \in [Slots -> BOOLEAN]
      /\ t \in Threads /\ th[t] \in Locals /\ ListenerShape /\ MonitorShape /\ Searched
  BY <1>1, LocalFacts, ThreadNames
<1>3. ~overlapped' => ~overlapped
  BY <1>1 DEF Local, Noted, IInv, TypeOK
<1>4. CASE name[th[t].at] = Sought(t)
  <2>1. Moved(t) /\ th'[t].pc = "fetch_victim" /\ th'[t].at = th[t].at /\ th'[t].own = th[t].own
    BY <1>2, <1>4, GoesMoves DEF Match, Pcs
  <2>2. ~overlapped' => RemovalKnown(t)'
    BY <1>1, <1>2, <1>3, <1>4, <2>1, MatchFinds DEF RemovalKnown, Used
  <2>3. SamePhase(t) /\ (t = "listener" => SameRegistration)
    BY <1>1, <2>1 DEF SamePhase, Settled, SameRegistration, Registering
  <2>4. Shape(t)'
    BY <1>1, <1>2, <2>1, ThreadNames
       DEF Shape, ListenerShape, ListenerPcs, Filling, Searched, Registering, MonitorShape, MonitorPcs
  <2> QED
    BY <1>1, <1>2, <2>1, <2>2, <2>3, <2>4, LocalStep
<1>5. CASE Returns(t)
  <2>1. t = "monitor" => th[t].own \in Slots
    BY <1>1, <1>2 DEF MonitorShape
  <2>2. /\ Moved(t) /\ Settled(t)' /\ RemovalKnown(t)' /\ Shape(t)'
        /\ t = "listener" => ~Registering'
    BY <1>2, <1>5, <2>1, ReturnsQuietly
  <2>3. SamePhase(t) /\ (t = "listener" => SameRegistration)
    BY <1>1, <2>2 DEF SamePhase, Settled, SameRegistration
  <2> QED
    BY <1>1, <1>2, <2>2, <2>3, LocalStep
<1>6. CASE name[th[t].at] # Sought(t) /\ ~Returns(t)
  <2>1. /\ Moved(t) /\ th'[t].pc = "match" /\ th'[t].own = th[t].own /\ th'[t].arg = th[t].arg
    BY <1>1, <1>2, <1>6, SearchMoves DEF Match
  <2>2. ~overlapped' => RemovalKnown(t)'
    BY <1>1, <1>2, <1>3, <2>1, ThreadNames DEF IInv, RemovalSound, RemovalKnown, Used
  <2>3. SamePhase(t) /\ (t = "listener" => SameRegistration)
    BY <1>1, <2>1 DEF SamePhase, Settled, SameRegistration, Registering
  <2>4. Shape(t)'
    BY <1>1, <1>2, <2>1, ThreadNames
       DEF Shape, ListenerShape, ListenerPcs, Filling, Searched, Registering, MonitorShape, MonitorPcs
  <2> QED
    BY <1>1, <1>2, <2>1, <2>2, <2>3, <2>4, LocalStep
<1> QED
  BY <1>4, <1>5, <1>6

LEMMA FetchVictimStep ==
  ASSUME IInv, NEW t \in Changers, FetchVictim(t)
  PROVE  IInv'
<1>1. Local /\ UNCHANGED registry /\ th[t].pc = "fetch_victim"
  BY DEF FetchVictim, At
<1>2. /\ TypeOK /\ UNCHANGED <<name, socket, client_count>> /\ responsive' \in [Slots -> BOOLEAN]
      /\ t \in Threads /\ th[t] \in Locals /\ MonitorShape
  BY <1>1, LocalFacts, ThreadNames
<1>3. ~overlapped' => ~overlapped
  BY <1>1 DEF Local, Noted, IInv, TypeOK
<1> DEFINE r == [th[t] EXCEPT !.pc = "close", !.fd = socket[th[t].at]]
<1>4. socket[th[t].at] \in Fds \cup {0}
  BY <1>2 DEF TypeOK, Locals
<1>5. r \in Locals /\ r.pc = "close" /\ r.fd = socket[th[t].at] /\ r.at = th[t].at /\ r.own = th[t].own
  BY <1>2, <1>4 DEF Locals, Pcs
<1>6. th' = [th EXCEPT ![t] = r]
  BY DEF FetchVictim
<1> HIDE DEF r
<1>7. Moved(t) /\ th'[t] = r
  BY <1>2, <1>5, <1>6, SetsMoves
<1>8. ~overlapped' => RemovalKnown(t)'
  BY <1>1, <1>2, <1>3, <1>5, <1>7 DEF IInv, RemovalSound, RemovalKnown, Used
<1>9. SamePhase(t) /\ (t = "listener" => SameRegistration)
  BY <1>1, <1>5, <1>7 DEF SamePhase, Settled, SameRegistration, Registering
<1>10. Shape(t)'
  BY <1>1, <1>2, <1>5, <1>7, ThreadNames
     DEF Shape, ListenerShape, ListenerPcs, Filling, Searched, Registering, MonitorShape, MonitorPcs
<1> QED
  BY <1>1, <1>2, <1>7, <1>8, <1>9, <1>10, LocalStep

(* The steps of the monitor's own.                                         *)
LEMMA MonitorReturns ==
  ASSUME IInv, Local, UNCHANGED <<name, socket, client_count>>, responsive' \in [Slots -> BOOLEAN],
         M.pc # "rest", Settled("monitor"), Returns("monitor")
  PROVE  IInv'
<1>1. TypeOK /\ "monitor" \in Changers /\ "monitor" \in Threads /\ M.own \in Slots
  BY ThreadNames DEF IInv, ThreadShape, MonitorShape
<1>2. Moved("monitor") /\ Settled("monitor")' /\ RemovalKnown("monitor")' /\ Shape("monitor")'
  BY <1>1, ReturnsQuietly
<1>3. SamePhase("monitor")
  BY <1>2 DEF SamePhase
<1> QED
  BY <1>1, <1>2, <1>3, LocalStep

LEMMA MonitorGoes ==
  ASSUME IInv, Local, UNCHANGED registry, NEW p \in {"test", "fetch", "match"},
         Settled("monitor"), Moved("monitor"), M'.pc = p, M'.own = M.own, M.own \in Slots,
         ~overlapped => M.own \in Used
  PROVE  IInv'
<1>1. /\ TypeOK /\ UNCHANGED <<name, socket, client_count>> /\ responsive' \in [Slots -> BOOLEAN]
      /\ "monitor" \in Threads /\ "monitor" \in Changers
  BY LocalFacts, ThreadNames
<1>2. ~overlapped' => ~overlapped
  BY DEF Local, Noted, IInv, TypeOK
<1>3. ~overlapped' => RemovalKnown("monitor")'
  BY <1>1, <1>2 DEF RemovalKnown, Used
<1>4. SamePhase("monitor") /\ Shape("monitor")'
  BY DEF SamePhase, Settled, Shape, MonitorShape, MonitorPcs
<1> QED
  BY <1>1, <1>3, <1>4, LocalStep

LEMMA WakeStep == IInv /\ Wake => IInv'
<1> SUFFICES ASSUME IInv, Wake PROVE IInv'
  OBVIOUS
<1>1. Local /\ UNCHANGED registry /\ M.pc = "rest"
  BY DEF Wake, MonitorAt, At
<1>2. /\ TypeOK /\ UNCHANGED <<name, socket, client_count>> /\ responsive' \in [Slots -> BOOLEAN]
      /\ "monitor" \in Threads /\ M \in Locals
  BY <1>1, LocalFacts
<1> DEFINE r == [M EXCEPT !.pc = "check", !.own = 0]
<1>3. r \in Locals /\ r.pc = "check" /\ r.own = 0
  BY <1>2, SlotFacts DEF Locals, Pcs
<1>4. th' = [th EXCEPT !["monitor"] = r]
  BY DEF Wake
<1> HIDE DEF r
<1>5. Moved("monitor") /\ M' = r
  BY <1>2, <1>3, <1>4, SetsMoves
<1>6. SamePhase("monitor") /\ RemovalKnown("monitor")'
  BY <1>1, <1>3, <1>5 DEF SamePhase, Settled, RemovalKnown
<1>7. Shape("monitor")'
  BY <1>3, <1>5, SlotFacts DEF Shape, MonitorShape, MonitorPcs
<1> QED
  BY <1>1, <1>2, <1>5, <1>6, <1>7, LocalStep

LEMMA CheckStep == IInv /\ Check => IInv'
<1> SUFFICES ASSUME IInv, Check PROVE IInv'
  OBVIOUS
<1>1. Local /\ UNCHANGED registry /\ M.pc = "check"
  BY DEF Check, MonitorAt, At
<1>2. /\ TypeOK /\ UNCHANGED <<name, socket, client_count>> /\ responsive' \in [Slots -> BOOLEAN]
      /\ "monitor" \in Threads /\ M.own \in Slots /\ Settled("monitor")
  BY <1>1, LocalFacts DEF MonitorShape, Settled
<1>3. CASE Returns("monitor")
  BY <1>1, <1>2, <1>3, MonitorReturns
<1>4. CASE socket[M.own] # 0 /\ Goes("monitor", "test")
  <2>1. Moved("monitor") /\ M'.pc = "test" /\ M'.own = M.own
    BY <1>2, <1>4, GoesMoves DEF Pcs
  <2>2. M.own \in Used
    BY <1>2, <1>4 DEF Used
  <2> QED
    BY <1>1, <1>2, <2>1, <2>2, MonitorGoes
<1> QED
  BY <1>3, <1>4 DEF Check

LEMMA TestResponsiveStep == IInv /\ TestResponsive => IInv'
<1> SUFFICES ASSUME IInv, TestResponsive PROVE IInv'
  OBVIOUS
<1>1. Local /\ UNCHANGED registry /\ M.pc = "test"
  BY DEF TestResponsive, MonitorAt, At
<1>2. /\ TypeOK /\ "monitor" \in Threads /\ M.own \in Slots /\ Settled("monitor")
  BY <1>1, LocalFacts DEF MonitorShape, Settled
<1>3. PICK p \in {"fetch", "match"} : Goes("monitor", p)
  BY DEF TestResponsive
<1>4. Moved("monitor") /\ M'.pc = p /\ M'.own = M.own
  BY <1>2, <1>3, GoesMoves DEF Pcs
<1>5. ~overlapped => M.own \in Used
  BY <1>1, ThreadNames DEF IInv, RemovalSound, RemovalKnown
<1> QED
  BY <1>1, <1>2, <1>4, <1>5, MonitorGoes

LEMMA FetchSocketStep == IInv /\ FetchSocket => IInv'
<1> SUFFICES ASSUME IInv, FetchSocket PROVE IInv'
  OBVIOUS
<1>1. Local /\ UNCHANGED registry /\ M.pc = "fetch"
  BY DEF FetchSocket, MonitorAt, At
<1>2. /\ TypeOK /\ UNCHANGED <<name, socket, client_count>> /\ responsive' \in [Slots -> BOOLEAN]
      /\ "monitor" \in Threads /\ M \in Locals /\ M.own \in Slots
  BY <1>1, LocalFacts DEF MonitorShape
<1> DEFINE r == [M EXCEPT !.pc = "ping", !.fd = socket[M.own]]
<1>3. r \in Locals /\ r.pc = "ping" /\ r.own = M.own
  BY <1>2 DEF Locals, Pcs, TypeOK
<1>4. th' = [th EXCEPT !["monitor"] = r]
  BY DEF FetchSocket
<1> HIDE DEF r
<1>5. Moved("monitor") /\ M' = r
  BY <1>2, <1>3, <1>4, SetsMoves
<1>6. SamePhase("monitor") /\ RemovalKnown("monitor")'
  BY <1>1, <1>3, <1>5 DEF SamePhase, Settled, RemovalKnown
<1>7. Shape("monitor")'
  BY <1>2, <1>3, <1>5 DEF Shape, MonitorShape, MonitorPcs
<1> QED
  BY <1>1, <1>2, <1>5, <1>6, <1>7, LocalStep

LEMMA MarkUnresponsiveStep == IInv /\ MarkUnresponsive => IInv'
<1> SUFFICES ASSUME IInv, MarkUnresponsive PROVE IInv'
  OBVIOUS
<1>1. /\ Local /\ UNCHANGED <<name, socket, client_count>> /\ M.pc = "mark"
      /\ Returns("monitor") /\ responsive' \in [Slots -> BOOLEAN]
  BY DEF IInv, TypeOK, MarkUnresponsive, MonitorAt, At
<1>2. Settled("monitor")
  BY <1>1 DEF Settled
<1> QED
  BY <1>1, <1>2, MonitorReturns

(* The reader's.                                                           *)
LEMMA ReaderQuiet ==
  ASSUME IInv, Local, UNCHANGED registry, Moved("reader"),
         R'.pc \in {"rest", "pick", "fetch_socket", "send"}
  PROVE  IInv'
<1>1. Shape("reader")' /\ "reader" \notin Changers
  BY ThreadNames DEF Shape, ReaderShape
<1> QED
  BY <1>1, LocalFacts, LocalStep

LEMMA PickStep == IInv /\ Pick => IInv'
<1> SUFFICES ASSUME IInv, Pick PROVE IInv'
  OBVIOUS
<1>1. Local /\ UNCHANGED registry /\ R.pc = "pick"
  BY DEF Pick, At
<1>2. TypeOK /\ "reader" \in Threads /\ R \in Locals
  BY <1>1, LocalFacts
<1>3. CASE Goes("reader", "fetch_socket")
  BY <1>1, <1>2, <1>3, GoesMoves, ReaderQuiet DEF Pcs
<1>4. CASE th' = [th EXCEPT !["reader"].at = (@ + 1) % MaxClients]
  <2> DEFINE r == [R EXCEPT !.at = (R.at + 1) % MaxClients]
  <2>1. (R.at + 1) % MaxClients \in Slots
    <3>1. R.at + 1 \in Int /\ MaxClients \in Nat /\ MaxClients > 0
      BY <1>2, SlotFacts DEF Locals
    <3> DEFINE n == R.at + 1
    <3>2. n \in Int /\ MaxClients \in Nat /\ MaxClients > 0
      BY <3>1
    <3> HIDE DEF n
    <3>3. n % MaxClients \in 0..(MaxClients - 1)
      BY <3>2
    <3> QED
      BY <3>3 DEF n, Slots
  <2>2. r \in Locals /\ r.pc = "pick"
    BY <1>1, <1>2, <2>1 DEF Locals, Pcs
  <2>3. th' = [th EXCEPT !["reader"] = r]
    BY <1>4
  <2> HIDE DEF r
  <2> QED
    BY <1>1, <1>2, <2>2, <2>3, SetsMoves, ReaderQuiet
<1> QED
  BY <1>3, <1>4 DEF Pick

LEMMA FetchChosenStep == IInv /\ FetchChosen => IInv'
<1> SUFFICES ASSUME IInv, FetchChosen PROVE IInv'
  OBVIOUS
<1>1. Local /\ UNCHANGED registry
  BY DEF FetchChosen
<1>2. TypeOK /\ "reader" \in Threads /\ R \in Locals
  BY <1>1, LocalFacts
<1> DEFINE r == [R EXCEPT !.pc = "send", !.fd = socket[R.at]]
<1>3. r \in Locals /\ r.pc = "send"
  BY <1>2 DEF Locals, Pcs, TypeOK
<1>4. th' = [th EXCEPT !["reader"] = r]
  BY DEF FetchChosen
<1> HIDE DEF r
<1> QED
  BY <1>1, <1>2, <1>3, <1>4, SetsMoves, ReaderQuiet

(* The history variable and the steps that do not move a changer.          *)
LEMMA NotedAnyway ==
  ASSUME IInv, UNCHANGED overlapped, L' = L, M' = M
  PROVE  Noted
<1>1. Overlap' <=> Overlap
  BY DEF Overlap, Changing, Removing, Adding
<1>2. overlapped \in BOOLEAN /\ (Overlap => overlapped)
  BY DEF IInv, TypeOK, ThreadShape
<1>3. (overlapped \/ Overlap') <=> overlapped
  BY <1>1, <1>2
<1>4. (overlapped \/ Overlap') \in BOOLEAN
  OBVIOUS
<1>5. (overlapped \/ Overlap') = overlapped
  BY <1>2, <1>3, <1>4
<1> QED
  BY <1>5 DEF Noted

LEMMA ReadLineStep == IInv /\ ReadLine => IInv'
<1> SUFFICES ASSUME IInv, ReadLine PROVE IInv'
  OBVIOUS
<1>1. TypeOK /\ "reader" \in Threads /\ R \in Locals /\ R.pc = "rest" /\ "reader" \notin Changers
  BY ThreadTyped, ThreadNames DEF IInv, ReadLine, At
<1>2. /\ UNCHANGED <<name, socket, client_count, responsive, stdin_open, up, overlapped, peer,
                     backlog, to_server, to_client, cpc, my_name, signalled>>
      /\ op_id' \in 0..Requests
  BY <1>1, SocketAssumption DEF ReadLine, TypeOK, registry, network, clientVars
<1>3. Moved("reader") /\ R'.pc \in {"rest", "pick"}
  <2>1. CASE th' = th
    BY <1>1, <2>1, ThreadTyped DEF Moved
  <2>2. CASE \E i \in Slots : th' = [th EXCEPT !["reader"].pc = "pick", !["reader"].at = i]
    <3>1. PICK i \in Slots : th' = [th EXCEPT !["reader"].pc = "pick", !["reader"].at = i]
      BY <2>2
    <3> DEFINE r == [R EXCEPT !.pc = "pick", !.at = i]
    <3>2. r \in Locals /\ r.pc = "pick"
      BY <1>1 DEF Locals, Pcs
    <3>3. th' = [th EXCEPT !["reader"] = r]
      BY <3>1
    <3> HIDE DEF r
    <3> QED
      BY <1>1, <3>2, <3>3, SetsMoves
  <2> QED
    BY <2>1, <2>2 DEF ReadLine
<1>4. L' = L /\ M' = M
  BY <1>3, ThreadNames DEF Moved
<1>5. Noted /\ NoneNew
  BY <1>2, <1>4, NotedAnyway DEF NoneNew
<1>6. Shape("reader")' /\ ClientShape'
  BY <1>2, <1>3 DEF Shape, ReaderShape, IInv, ClientShape, Open
<1> QED
  BY <1>1, <1>2, <1>3, <1>5, <1>6, QuietStep DEF TypeOK

(* The end of the server.                                                  *)
LEMMA FailsStep == IInv /\ Fails => IInv'
<1> SUFFICES ASSUME IInv, Fails PROVE IInv'
  OBVIOUS
<1>1. /\ \A t \in Threads : th'[t] = Rest
      /\ \A i \in Slots : name'[i] = NoName /\ socket'[i] = 0
      /\ \A f \in Fds : peer'[f] = NoClient
      /\ \A c \in Clients : to_server'[c] = <<>>
      /\ client_count' = 0 /\ backlog' = {}
      /\ UNCHANGED <<overlapped, cpc, my_name, signalled>>
  BY DEF Fails, clientVars
<1>2. L' = Rest /\ M' = Rest /\ R' = Rest /\ Rest.pc = "rest"
  BY <1>1, ThreadNames DEF Rest
<1>3. TypeOK'
  <2>1. th' \in [Threads ->
           [pc: {"rest", "recv", "find", "anonymous", "full", "scan", "compare", "refuse",
                 "set_name", "set_socket", "set_responsive", "inc", "inc_store", "ack",
                 "match_ping", "answered", "match", "fetch_victim", "close", "zero_socket",
                 "zero_name", "dec", "dec_store", "check", "test", "fetch", "ping", "mark",
                 "pick", "fetch_socket", "send"},
            at: Slots, arg: Names \cup {NoName}, own: Slots \cup {-1},
            fd: Fds \cup {0}, avail: Slots \cup {-1}, reg: Int]]
    BY RestTyped DEF Fails, Locals, Pcs
  <2>2. /\ op_id' \in 0..Requests /\ client_count' \in Int
        /\ overlapped' \in BOOLEAN /\ stdin_open' \in BOOLEAN /\ up' \in BOOLEAN
    <3>1. op_id' \in 0..Requests /\ client_count' \in Int
      BY SocketAssumption DEF Fails
    <3>2. overlapped' \in BOOLEAN
      BY <1>1 DEF IInv, TypeOK
    <3>3. stdin_open' \in BOOLEAN /\ up' \in BOOLEAN
      BY ZenonT(30) DEF Fails
    <3> QED
      BY <3>1, <3>2, <3>3
  <2>3. /\ name' \in [Slots -> Names \cup {NoName}] /\ socket' \in [Slots -> Fds \cup {0}]
        /\ responsive' \in [Slots -> BOOLEAN] /\ peer' \in [Fds -> Clients \cup {NoClient}]
        /\ backlog' \subseteq Clients
    BY DEF Fails
  <2>4. /\ to_server' \in [Clients -> Seq({"REGISTER", "UNREGISTER", "PING", "RESULT"})]
        /\ to_client' \in [Clients -> Seq({"REGISTER_ACK", "NAME_TAKEN", "PING", "ARITH", "rest"})]
    <3>1. /\ <<>> \in Seq({"REGISTER", "UNREGISTER", "PING", "RESULT"})
          /\ <<>> \in Seq({"REGISTER_ACK", "NAME_TAKEN", "PING", "ARITH", "rest"})
      BY EmptySeq
    <3> QED
      BY <3>1 DEF Fails
  <2>5. /\ cpc' \in [Clients -> {"start", "register", "listen", "hung", "left"}]
        /\ my_name' \in [Clients -> Names \cup {NoName}] /\ signalled' \subseteq Interruptible
    BY <1>1 DEF IInv, TypeOK
  <2> QED
    BY <2>1, <2>2, <2>3, <2>4, <2>5 DEF TypeOK
<1>4. QuietAtRest'
  BY RestIsQuiet, PTL
<1>5. ListenerShape' /\ Searched' /\ MonitorShape' /\ ReaderShape' /\ ~Registering'
  BY <1>1, <1>4, ThreadNames DEF QuietAtRest, Shape
<1>6. ThreadShape'
  BY <1>2, <1>5 DEF ThreadShape, Overlap, Changing, Removing, Adding
<1>7. ClientShape' /\ NamesUnique'
  BY <1>1 DEF IInv, ClientShape, NamesUnique, Open
<1>8. ASSUME ~overlapped' PROVE EntriesSound' /\ CountSound' /\ RemovalSound' /\ RegistrationSound'
  <2>1. Used' = {}
    BY <1>1 DEF Used
  <2>2. EntriesSound'
    BY <1>1, <2>1 DEF EntriesSound
  <2>3. CountSound'
    <3>1. Cardinality({}) = 0
      BY FS_EmptySet
    <3>2. \A t \in Changers : th'[t].pc = "rest"
      BY <1>1, <1>2, ThreadNames
    <3>3. ~Uncounted' /\ ~Unlisted'
      BY <1>2, <3>2 DEF Uncounted, Unlisted
    <3> QED
      BY <1>1, <2>1, <3>1, <3>2, <3>3 DEF CountSound
  <2>4. RemovalSound'
    BY <1>1, <1>4, ThreadNames DEF RemovalSound, QuietAtRest
  <2>5. RegistrationSound'
    <3>1. \A c \in Clients : ~NewClient(c)'
      <4> SUFFICES ASSUME NEW c \in Clients, NEW k \in 1..Len(to_server'[c]) PROVE FALSE
        BY DEF NewClient
      <4>1. Len(to_server'[c]) = 0
        BY <1>1
      <4> QED
        BY <4>1
    <3> QED
      BY <1>5, <3>1 DEF RegistrationSound
  <2> QED
    BY <2>2, <2>3, <2>4, <2>5
<1> QED
  BY <1>3, <1>5, <1>6, <1>7, <1>8 DEF IInv

Units == {"REGISTER_ACK", "NAME_TAKEN", "PING", "ARITH", "rest"}

(* A message to a client: it may end the server.                           *)
LEMMA SendStep ==
  ASSUME IInv, NEW t \in Threads, NEW fd \in Fds \cup {0}, NEW units \in Seq(Units),
         NEW ACTION goesOn, SendTo(fd, units, goesOn),
         goesOn => /\ Moved(t) /\ Shape(t)'
                   /\ t \in Changers => SamePhase(t) /\ RemovalKnown(t)'
                   /\ t = "listener" => SameRegistration
  PROVE  IInv'
<1>1. CASE Fails
  BY <1>1, FailsStep
<1>2. CASE /\ Open(fd)
           /\ to_client' = IF cpc[peer[fd]] = "left" THEN to_client
                           ELSE [to_client EXCEPT ![peer[fd]] = @ \o units]
           /\ goesOn /\ Noted
           /\ UNCHANGED <<registry, inputVars, up, peer, backlog, to_server, clientVars>>
  <2>1. /\ UNCHANGED <<name, socket, client_count, responsive, op_id, stdin_open, up, peer,
                       backlog, to_server, cpc, my_name, signalled>>
        /\ TypeOK
    BY <1>2 DEF registry, inputVars, clientVars, IInv
  <2>2. to_client' \in [Clients -> Seq({"REGISTER_ACK", "NAME_TAKEN", "PING", "ARITH", "rest"})]
    <3>1. to_client \in [Clients -> Seq(Units)]
      BY <2>1 DEF TypeOK, Units
    <3>2. \A c \in Clients : to_client[c] \o units \in Seq(Units)
      BY <3>1, ConcatProperties
    <3>3. to_client' \in [Clients -> Seq(Units)]
      BY <1>2, <3>1, <3>2
    <3> QED
      BY <3>3 DEF Units
  <2>3. NoneNew /\ ClientShape'
    BY <2>1 DEF NoneNew, IInv, ClientShape, Open
  <2> QED
    BY <1>2, <2>1, <2>2, <2>3, QuietStep DEF TypeOK
<1> QED
  BY <1>1, <1>2 DEF SendTo

LEMMA UnitsSent == NameTaken \in Seq(Units) /\ Ack \in Seq(Units) /\ Ping \in Seq(Units) /\ Arith \in Seq(Units)
BY DEF NameTaken, Ack, Ping, Arith, Units

LEMMA ListenerAnswersStep == IInv /\ (Refuse \/ Acknowledge) => IInv'
<1> SUFFICES ASSUME IInv, Refuse \/ Acknowledge PROVE IInv'
  OBVIOUS
<1>1. /\ TypeOK /\ "listener" \in Threads /\ L \in Locals /\ L.fd \in Fds \cup {0}
      /\ L.pc \in {"refuse", "ack"}
  BY ThreadTyped, ThreadNames DEF IInv, Locals, Refuse, Acknowledge, ListenerAt, At
<1>2. Rests("listener") =>
          /\ Moved("listener") /\ Shape("listener")'
          /\ SamePhase("listener") /\ RemovalKnown("listener")' /\ SameRegistration
  BY <1>1, RestsQuietly DEF SamePhase, Settled, SameRegistration
<1>3. CASE Refuse
  <2>1. SendTo(L.fd, NameTaken, Rests("listener"))
    BY <1>3 DEF Refuse
  <2> QED
    BY <1>1, <1>2, <2>1, UnitsSent, SendStep
<1>4. CASE Acknowledge
  <2>1. SendTo(L.fd, Ack, Rests("listener"))
    BY <1>4 DEF Acknowledge
  <2> QED
    BY <1>1, <1>2, <2>1, UnitsSent, SendStep
<1> QED
  BY <1>3, <1>4

LEMMA SendPingStep == IInv /\ SendPing => IInv'
<1> SUFFICES ASSUME IInv, SendPing PROVE IInv'
  OBVIOUS
<1>1. /\ TypeOK /\ "monitor" \in Threads /\ M \in Locals /\ M.fd \in Fds \cup {0}
      /\ M.pc = "ping" /\ M.own \in Slots
  BY ThreadTyped, ThreadNames
     DEF IInv, ThreadShape, MonitorShape, Locals, SendPing, MonitorAt, At
<1>2. Goes("monitor", "mark") => Moved("monitor") /\ M'.pc = "mark" /\ M'.own = M.own
  BY <1>1, GoesMoves DEF Pcs
<1>3. Goes("monitor", "mark") =>
          /\ Moved("monitor") /\ Shape("monitor")'
          /\ SamePhase("monitor") /\ RemovalKnown("monitor")'
  BY <1>1, <1>2 DEF SamePhase, Settled, RemovalKnown, Shape, MonitorShape, MonitorPcs
<1>4. SendTo(M.fd, Ping, Goes("monitor", "mark"))
  BY DEF SendPing
<1> QED
  BY <1>1, <1>3, <1>4, UnitsSent, SendStep

LEMMA SendRequestStep == IInv /\ SendRequest => IInv'
<1> SUFFICES ASSUME IInv, SendRequest PROVE IInv'
  OBVIOUS
<1>1. /\ TypeOK /\ "reader" \in Threads /\ R \in Locals /\ R.fd \in Fds \cup {0}
      /\ "reader" \notin Changers
  BY ThreadTyped, ThreadNames DEF IInv, Locals
<1>2. Rests("reader") => Moved("reader") /\ Shape("reader")'
  BY <1>1, RestsQuietly
<1>3. SendTo(R.fd, Arith, Rests("reader"))
  BY DEF SendRequest
<1> QED
  BY <1>1, <1>2, <1>3, UnitsSent, SendStep

(* A client's step that neither connects it nor sends REGISTER.            *)
LEMMA ClientQuiet ==
  ASSUME IInv,
         UNCHANGED <<name, socket, client_count, responsive, th, op_id, stdin_open, overlapped,
                     peer, my_name, backlog>>,
         up' \in BOOLEAN, signalled' \subseteq Interruptible,
         to_server' \in [Clients -> Seq({"REGISTER", "UNREGISTER", "PING", "RESULT"})],
         to_client' \in [Clients -> Seq({"REGISTER_ACK", "NAME_TAKEN", "PING", "ARITH", "rest"})],
         cpc' \in [Clients -> {"start", "register", "listen", "hung", "left"}],
         \A c \in Clients : cpc'[c] # "start" <=> cpc[c] # "start",
         \A c \in Clients : to_server'[c] # <<>> => to_server[c] # <<>> \/ cpc[c] # "start",
         NoneNew
  PROVE  IInv'
<1>1. TypeOK /\ "reader" \in Threads /\ "reader" \notin Changers /\ "reader" # "listener"
  BY ThreadNames DEF IInv
<1>2. Moved("reader") /\ L' = L /\ M' = M /\ R' = R
  BY <1>1, ThreadTyped DEF Moved
<1>3. Noted
  BY <1>2, NotedAnyway
<1>4. Shape("reader")'
  BY <1>2 DEF IInv, ThreadShape, ReaderShape, Shape
<1>5. ClientShape'
  <2>1. \A f \in Fds : Open(f) => peer[f] \in Clients
    BY <1>1 DEF Open, TypeOK
  <2>2. \A f \in Fds : Open(f)' <=> Open(f)
    BY DEF Open
  <2> QED
    BY <2>1, <2>2 DEF IInv, ClientShape
<1> QED
  BY <1>1, <1>2, <1>3, <1>4, <1>5, QuietStep DEF TypeOK

LEMMA ReceivesTyped ==
  ASSUME IInv, NEW c \in Clients, NEW n \in Nat, Receives(c, n)
  PROVE  to_client' \in [Clients -> Seq({"REGISTER_ACK", "NAME_TAKEN", "PING", "ARITH", "rest"})]
<1>1. to_client \in [Clients -> Seq(Units)]
  BY DEF IInv, TypeOK, Units
<1>2. PICK k \in Nat : to_client' = [to_client EXCEPT ![c] = SubSeq(@, k + 1, Len(@))]
  <2> DEFINE k == IF Len(to_client[c]) < n THEN Len(to_client[c]) ELSE n
  <2>1. k \in Nat
    BY <1>1, LenProperties
  <2>2. to_client' = [to_client EXCEPT ![c] = SubSeq(@, k + 1, Len(@))]
    BY DEF Receives
  <2> HIDE DEF k
  <2> QED
    BY <2>1, <2>2
<1>3. SubSeq(to_client[c], k + 1, Len(to_client[c])) \in Seq(Units)
  <2>1. /\ to_client[c] \in Seq(Units)
        /\ \A i \in (k + 1)..Len(to_client[c]) : to_client[c][i] \in Units
    <3>1. to_client[c] \in Seq(Units)
      BY <1>1
    <3>2. \A i \in 1..Len(to_client[c]) : to_client[c][i] \in Units
      BY <3>1, ElementOfSeq
    <3> QED
      BY <3>1, <3>2
  <2> QED
    BY <2>1
<1> QED
  BY <1>1, <1>2, <1>3 DEF Units

LEMMA SendsTyped ==
  ASSUME IInv, NEW c \in Clients, NEW m \in {"UNREGISTER", "PING", "RESULT"},
         to_server' = [to_server EXCEPT ![c] = Append(@, m)]
  PROVE  /\ to_server' \in [Clients -> Seq({"REGISTER", "UNREGISTER", "PING", "RESULT"})]
         /\ NoneNew
         /\ \A d \in Clients : to_server'[d] # <<>> => to_server[d] # <<>> \/ d = c
<1> DEFINE S == {"REGISTER", "UNREGISTER", "PING", "RESULT"}
<1>1. to_server \in [Clients -> Seq(S)] /\ m \in S /\ m # "REGISTER"
  BY DEF IInv, TypeOK
<1>2. /\ Append(to_server[c], m) \in Seq(S)
      /\ Len(Append(to_server[c], m)) = Len(to_server[c]) + 1
      /\ \A i \in 1..Len(to_server[c]) : Append(to_server[c], m)[i] = to_server[c][i]
      /\ Append(to_server[c], m)[Len(to_server[c]) + 1] = m
      /\ Len(to_server[c]) \in Nat
  BY <1>1, AppendProperties, LenProperties
<1> HIDE DEF S
<1>3. to_server' \in [Clients -> Seq(S)]
  BY <1>1, <1>2
<1>4. NoneNew
  <2> SUFFICES ASSUME NEW d \in Clients, NEW k \in 1..Len(to_server'[d]),
                      to_server'[d][k] = "REGISTER"
               PROVE  k \in 1..Len(to_server[d]) /\ to_server[d][k] = "REGISTER"
    BY DEF NoneNew
  <2>1. CASE d # c
    BY <1>1, <2>1
  <2>2. CASE d = c
    <3>1. to_server'[d] = Append(to_server[c], m)
      BY <1>1, <2>2
    <3>2. k \in 1..(Len(to_server[c]) + 1) /\ k # Len(to_server[c]) + 1
      BY <1>1, <1>2, <3>1
    <3>3. k \in 1..Len(to_server[c])
      BY <1>2, <3>2
    <3> QED
      BY <1>2, <2>2, <3>1, <3>3
  <2> QED
    BY <2>1, <2>2
<1> QED
  BY <1>1, <1>3, <1>4 DEF S

LEMMA ClientMoves ==
  ASSUME IInv, NEW c \in Clients, NEW from \in {"register", "listen"},
         NEW to \in {"register", "listen", "hung", "left"}, ClientAt(c, from, to)
  PROVE  /\ cpc[c] = from /\ cpc' \in [Clients -> {"start", "register", "listen", "hung", "left"}]
         /\ \A d \in Clients : cpc'[d] # "start" <=> cpc[d] # "start"
         /\ cpc'[c] = to
BY DEF IInv, TypeOK, ClientAt

LEMMA ClientStep ==
  ASSUME IInv, NEW c \in Clients,
         ReceiveResult(c) \/ Listen(c) \/ ServerClosed(c) \/ Interrupt(c) \/ Killed(c) \/ Hang(c)
  PROVE  IInv'
<1>0. TypeOK /\ 2 \in Nat /\ 3 \in Nat
  BY DEF IInv
<1>1. UNCHANGED to_server => NoneNew /\ \A d \in Clients : to_server'[d] = to_server[d]
  BY DEF NoneNew
<1>2. ASSUME NEW from \in {"register", "listen"},
             NEW to \in {"register", "listen", "hung", "left"}, ClientAt(c, from, to),
             UNCHANGED <<registry, th, inputVars, up, overlapped, peer, backlog, my_name,
                         signalled, to_server>>,
             to_client' \in [Clients -> Seq({"REGISTER_ACK", "NAME_TAKEN", "PING", "ARITH", "rest"})]
      PROVE  IInv'
  <2>1. UNCHANGED <<name, socket, client_count, responsive, th, op_id, stdin_open, up, overlapped,
                    peer, my_name, backlog, signalled, to_server>>
    BY <1>2 DEF registry, inputVars
  <2> QED
    BY <1>0, <1>1, <1>2, <2>1, ClientMoves, ClientQuiet DEF TypeOK
<1>3. CASE ReceiveResult(c)
  <2>1. PICK to \in {"left", "listen"} : ClientAt(c, "register", to)
    BY <1>3 DEF ReceiveResult
  <2>2. to_client' \in [Clients -> Seq({"REGISTER_ACK", "NAME_TAKEN", "PING", "ARITH", "rest"})]
    BY <1>0, <1>3, ReceivesTyped DEF ReceiveResult
  <2> QED
    BY <1>2, <1>3, <2>1, <2>2 DEF ReceiveResult
<1>4. CASE Listen(c)
  <2>1. to_client' \in [Clients -> Seq({"REGISTER_ACK", "NAME_TAKEN", "PING", "ARITH", "rest"})]
    BY <1>0, <1>4, ReceivesTyped DEF Listen
  <2>2. CASE UNCHANGED to_server
    <3>1. PICK to \in {"left", "listen"} : ClientAt(c, "listen", to)
      BY <1>4 DEF Listen
    <3> QED
      BY <1>2, <1>4, <2>1, <2>2, <3>1 DEF Listen
  <2>3. ASSUME NEW a \in {"PING", "RESULT"}, to_server' = [to_server EXCEPT ![c] = Append(@, a)],
               ClientAt(c, "listen", "listen")
        PROVE  IInv'
    <3>1. UNCHANGED <<name, socket, client_count, responsive, th, op_id, stdin_open, up,
                      overlapped, peer, my_name, backlog, signalled>>
      BY <1>4 DEF Listen, registry, inputVars
    <3>2. a \in {"UNREGISTER", "PING", "RESULT"}
      OBVIOUS
    <3>3. /\ to_server' \in [Clients -> Seq({"REGISTER", "UNREGISTER", "PING", "RESULT"})]
          /\ NoneNew
          /\ \A d \in Clients : to_server'[d] # <<>> => to_server[d] # <<>> \/ d = c
      BY <2>3, <3>2, SendsTyped
    <3>4. /\ cpc' \in [Clients -> {"start", "register", "listen", "hung", "left"}]
          /\ \A d \in Clients : cpc'[d] # "start" <=> cpc[d] # "start"
          /\ cpc[c] # "start"
      BY <2>3, ClientMoves
    <3> QED
      BY <1>0, <2>1, <3>1, <3>3, <3>4, ClientQuiet DEF TypeOK
  <2>4. \/ UNCHANGED to_server
        \/ \E a \in {"PING", "RESULT"} : /\ to_server' = [to_server EXCEPT ![c] = Append(@, a)]
                                         /\ ClientAt(c, "listen", "listen")
    BY <1>4 DEF Listen
  <2> QED
    BY <2>2, <2>3, <2>4
<1>5. CASE ServerClosed(c) \/ Killed(c) \/ Hang(c)
  <2>1. PICK from \in {"register", "listen"}, to \in {"hung", "left"} : ClientAt(c, from, to)
    BY <1>5 DEF ServerClosed, Killed, Hang
  <2>2. UNCHANGED <<registry, th, inputVars, up, overlapped, peer, backlog, my_name,
                    signalled, to_server, to_client>>
    BY <1>5 DEF ServerClosed, Killed, Hang, network
  <2> QED
    BY <1>0, <1>2, <2>1, <2>2 DEF TypeOK
<1>6. CASE Interrupt(c)
  <2>1. UNCHANGED <<name, socket, client_count, responsive, th, op_id, stdin_open, up,
                    overlapped, peer, my_name, backlog, to_client, cpc>>
    BY <1>6 DEF Interrupt, registry, inputVars
  <2>2. /\ to_server' \in [Clients -> Seq({"REGISTER", "UNREGISTER", "PING", "RESULT"})]
        /\ NoneNew
        /\ \A d \in Clients : to_server'[d] # <<>> => to_server[d] # <<>> \/ d = c
    BY <1>6, SendsTyped DEF Interrupt, Unregister
  <2>3. signalled' \subseteq Interruptible /\ cpc[c] # "start"
    BY <1>0, <1>6 DEF Interrupt, TypeOK
  <2> QED
    BY <1>0, <2>1, <2>2, <2>3, ClientQuiet DEF TypeOK
<1> QED
  BY <1>3, <1>4, <1>5, <1>6

(* Steps that leave the threads and the entries alone: connections come.   *)
LEMMA IdleFacts ==
  ASSUME IInv, UNCHANGED <<name, socket, client_count, th, overlapped>>
  PROVE  /\ ThreadShape' /\ Searched' /\ NamesUnique'
         /\ Used' = Used /\ \A i \in Slots : Stale(i)' <=> Stale(i)
         /\ ~overlapped' => /\ ~overlapped
                            /\ EntriesSound /\ CountSound' /\ RemovalSound' /\ RegistrationSound
<1>1. ThreadShape' /\ Searched' /\ NamesUnique'
  BY DEF IInv, ThreadShape, ListenerShape, MonitorShape, ReaderShape, Filling, Overlap, Changing,
         Removing, Adding, Searched, Registering, NamesUnique
<1>2. Used' = Used /\ \A i \in Slots : Stale(i)' <=> Stale(i)
  BY DEF Used, Stale
<1>3. CountSound => CountSound'
  <2>1. (Uncounted' <=> Uncounted) /\ (Unlisted' <=> Unlisted)
    BY DEF Uncounted, Unlisted
  <2>2. client_count' = client_count /\ th' = th
    OBVIOUS
  <2> QED
    BY <1>2, <2>1, <2>2 DEF CountSound
<1>4. RemovalSound => RemovalSound'
  BY <1>2 DEF RemovalSound, RemovalKnown
<1>5. overlapped' = overlapped
  OBVIOUS
<1> QED
  BY <1>1, <1>2, <1>3, <1>4, <1>5 DEF IInv

LEMMA AcceptStep == IInv /\ Accept => IInv'
<1> SUFFICES ASSUME IInv, Accept PROVE IInv'
  OBVIOUS
<1>1. PICK c \in backlog, f \in Fds :
         peer[f] = NoClient /\ peer' = [peer EXCEPT ![f] = c] /\ backlog' = backlog \ {c}
  BY DEF Accept
<1>2. /\ UNCHANGED <<name, socket, responsive, client_count, th, op_id, stdin_open, up, overlapped,
                     to_server, to_client, cpc, my_name, signalled>>
      /\ TypeOK /\ c \in Clients /\ L.pc = "rest"
  BY <1>1 DEF Accept, registry, inputVars, clientVars, IInv, TypeOK, ListenerAt, At
<1>3. TypeOK'
  BY <1>1, <1>2 DEF TypeOK
<1>4. \A g \in Fds : peer'[g] = IF g = f THEN c ELSE peer[g]
  BY <1>1, <1>2 DEF TypeOK
<1>5. ClientShape'
  BY <1>1, <1>2, <1>4 DEF IInv, ClientShape, Open
<1>6. ASSUME ~overlapped' PROVE EntriesSound' /\ CountSound' /\ RemovalSound' /\ RegistrationSound'
  <2>1. /\ EntriesSound /\ RegistrationSound /\ CountSound' /\ RemovalSound'
        /\ Used' = Used /\ \A i \in Slots : Stale(i)' <=> Stale(i)
    BY <1>2, <1>6, IdleFacts
  <2>2. \A i \in Used : i \in Slots /\ socket[i] \in Fds
    BY <1>2 DEF Used, TypeOK
  <2>3. \A i \in Used : ~Stale(i) => socket[i] # f
    BY <1>1, <2>1 DEF EntriesSound, Open
  <2>4. EntriesSound'
    <3>1. \A i \in Used : Stale(i)' \/ (Open(socket[i])' /\ name[i] = my_name[peer'[socket[i]]])
      BY <1>2, <1>4, <2>1, <2>2, <2>3 DEF EntriesSound, Open
    <3>2. \A i \in Slots \ Used :
             \/ name[i] = NoName
             \/ \E t \in Changers : th[t].pc = "zero_name" /\ th[t].at = i
             \/ L.pc = "set_socket" /\ L.avail = i
      BY <2>1 DEF EntriesSound
    <3> QED
      BY <1>2, <2>1, <3>1, <3>2 DEF EntriesSound, Open
  <2>5. RegistrationSound'
    <3>1. ~Registering'
      BY <1>2 DEF Registering
    <3>2. \A d \in Clients : NewClient(d)' <=> NewClient(d)
      BY <1>2 DEF NewClient
    <3>3. ASSUME NEW d \in Clients, NewClient(d)'
          PROVE  /\ \A k \in 1..Len(to_server[d]) : to_server[d][k] = "REGISTER" => k = 1
                 /\ \A i \in Used : Stale(i)' \/ peer'[socket[i]] # d
      BY <1>4, <2>1, <2>2, <2>3, <3>2, <3>3 DEF RegistrationSound
    <3> QED
      BY <1>2, <2>1, <3>1, <3>3 DEF RegistrationSound
  <2> QED
    BY <2>1, <2>4, <2>5
<1> QED
  BY <1>2, <1>3, <1>5, <1>6, IdleFacts DEF IInv

LEMMA ConnectStep ==
  ASSUME IInv, NEW c \in Clients, Connect(c)
  PROVE  IInv'
<1>1. /\ UNCHANGED <<name, socket, responsive, client_count, th, op_id, stdin_open, up, overlapped,
                     peer, to_client, signalled>>
      /\ TypeOK /\ cpc[c] = "start" /\ cpc' = [cpc EXCEPT ![c] = "register"]
      /\ backlog' = backlog \cup {c} /\ to_server' = [to_server EXCEPT ![c] = <<"REGISTER">>]
  BY DEF Connect, ClientAt, Register, registry, inputVars, IInv
<1>2. PICK n \in Names : my_name' = [my_name EXCEPT ![c] = n]
  BY DEF Connect
<1>3. TypeOK'
  <2>1. <<"REGISTER">> \in Seq({"REGISTER", "UNREGISTER", "PING", "RESULT"})
    OBVIOUS
  <2>2. to_server' \in [Clients -> Seq({"REGISTER", "UNREGISTER", "PING", "RESULT"})]
    BY <1>1, <2>1 DEF TypeOK
  <2>3. /\ my_name' \in [Clients -> Names \cup {NoName}]
        /\ cpc' \in [Clients -> {"start", "register", "listen", "hung", "left"}]
        /\ backlog' \subseteq Clients
    BY <1>1, <1>2 DEF TypeOK
  <2> QED
    BY <1>1, <2>2, <2>3 DEF TypeOK
<1>4. \A d \in Clients : d # c => /\ my_name'[d] = my_name[d] /\ cpc'[d] = cpc[d]
                                  /\ to_server'[d] = to_server[d]
  BY <1>1, <1>2 DEF TypeOK
<1>5. my_name'[c] = n /\ cpc'[c] = "register" /\ to_server'[c] = <<"REGISTER">>
  BY <1>1, <1>2 DEF TypeOK
<1>6. \A f \in Fds : Open(f) => peer[f] \in Clients /\ peer[f] # c
  BY <1>1 DEF IInv, ClientShape, Open, TypeOK
<1>7. ClientShape'
  <2>1. \A d \in Clients :
           /\ cpc'[d] # "start" => my_name'[d] \in Names
           /\ d \in backlog' \/ to_server'[d] # <<>> => cpc'[d] # "start"
    BY <1>1, <1>4, <1>5 DEF IInv, ClientShape
  <2>2. \A f \in Fds : Open(f)' => cpc'[peer'[f]] # "start"
    BY <1>1, <1>4, <1>6 DEF IInv, ClientShape, Open
  <2> QED
    BY <2>1, <2>2 DEF ClientShape
<1>8. ASSUME ~overlapped' PROVE EntriesSound' /\ CountSound' /\ RemovalSound' /\ RegistrationSound'
  <2>1. /\ EntriesSound /\ RegistrationSound /\ CountSound' /\ RemovalSound'
        /\ Used' = Used /\ \A i \in Slots : Stale(i)' <=> Stale(i)
    BY <1>1, <1>8, IdleFacts
  <2>2. \A i \in Used : i \in Slots /\ socket[i] \in Fds
    BY <1>1 DEF Used, TypeOK
  <2>3. EntriesSound'
    <3>1. \A i \in Used : Stale(i)' \/ (Open(socket[i])' /\ name[i] = my_name'[peer[socket[i]]])
      BY <1>1, <1>4, <1>6, <2>1, <2>2 DEF EntriesSound, Open
    <3>2. \A i \in Slots \ Used :
             \/ name[i] = NoName
             \/ \E t \in Changers : th[t].pc = "zero_name" /\ th[t].at = i
             \/ L.pc = "set_socket" /\ L.avail = i
      BY <2>1 DEF EntriesSound
    <3> QED
      BY <1>1, <2>1, <3>1, <3>2 DEF EntriesSound, Open
  <2>4. RegistrationSound'
    <3>1. \A d \in Clients : d # c => (NewClient(d)' <=> NewClient(d))
      BY <1>4 DEF NewClient
    <3>2. RegistrationKnown'
      <4>1. Registering => L.fd \in Fds
        BY DEF IInv, ThreadShape, ListenerShape, Registering
      <4>2. Registering' <=> Registering
        BY <1>1 DEF Registering
      <4>3. Registering => /\ Open(L.fd)' /\ L.arg = my_name'[peer[L.fd]]
                           /\ ~NewClient(peer[L.fd])'
                           /\ \A i \in Slots : socket[i] = L.fd => Stale(i)'
                           /\ L.pc = "set_socket" => name[L.avail] = L.arg
        <5> SUFFICES ASSUME Registering
                     PROVE  /\ Open(L.fd)' /\ L.arg = my_name'[peer[L.fd]]
                            /\ ~NewClient(peer[L.fd])'
                            /\ \A i \in Slots : socket[i] = L.fd => Stale(i)'
                            /\ L.pc = "set_socket" => name[L.avail] = L.arg
          OBVIOUS
        <5>1. /\ Open(L.fd) /\ L.arg = my_name[peer[L.fd]] /\ ~NewClient(peer[L.fd])
              /\ \A i \in Slots : socket[i] = L.fd => Stale(i)
              /\ L.pc = "set_socket" => name[L.avail] = L.arg
          BY <2>1 DEF RegistrationSound
        <5>2. peer[L.fd] \in Clients /\ peer[L.fd] # c
          BY <1>6, <4>1, <5>1
        <5>3. L' = L /\ peer' = peer
          BY <1>1
        <5>4. ~NewClient(peer[L.fd])'
          BY <1>4, <5>1, <5>2, <5>3 DEF NewClient
        <5> QED
          BY <1>1, <1>4, <2>1, <5>1, <5>2, <5>3, <5>4 DEF Open
      <4> QED
        BY <1>1, <4>2, <4>3 DEF RegistrationKnown
    <3>3. ASSUME NEW d \in Clients, NewClient(d)'
          PROVE  /\ \A k \in 1..Len(to_server'[d]) : to_server'[d][k] = "REGISTER" => k = 1
                 /\ \A i \in Used : Stale(i)' \/ peer[socket[i]] # d
      <4>1. CASE d # c
        <5>1. NewClient(d) /\ to_server'[d] = to_server[d]
          BY <1>4, <3>1, <3>3, <4>1
        <5>2. /\ \A k \in 1..Len(to_server[d]) : to_server[d][k] = "REGISTER" => k = 1
              /\ \A i \in Used : Stale(i) \/ peer[socket[i]] # d
          BY <2>1, <5>1 DEF RegistrationSound
        <5>3. \A k \in 1..Len(to_server'[d]) : to_server'[d][k] = "REGISTER" => k = 1
          BY <5>1, <5>2
        <5> QED
          BY <2>1, <2>2, <5>2, <5>3
      <4>2. CASE d = c
        <5>1. \A i \in Used : peer[socket[i]] # c
          BY <1>1, <1>6, <2>2, SocketAssumption, SlotFacts DEF Open
        <5>2. Len(to_server'[d]) = 1
          BY <1>5, <4>2
        <5>3. \A k \in 1..Len(to_server'[d]) : k = 1
          BY <5>2
        <5> QED
          BY <4>2, <5>1, <5>3
      <4> QED
        BY <4>1, <4>2
    <3> QED
      BY <1>1, <2>1, <3>2, <3>3 DEF RegistrationSound, RegistrationKnown
  <2> QED
    BY <2>1, <2>3, <2>4
<1> QED
  BY <1>1, <1>3, <1>7, <1>8, IdleFacts DEF IInv

LEMMA ReadMessageStep == IInv /\ ReadMessage => IInv'
<1> SUFFICES ASSUME IInv, ReadMessage PROVE IInv'
  OBVIOUS
<1> DEFINE S == {"REGISTER", "UNREGISTER", "PING", "RESULT"}
<1>1. /\ UNCHANGED <<name, socket, client_count, responsive, op_id, stdin_open, up, peer, backlog,
                     to_client, cpc, my_name, signalled>>
      /\ L.pc = "recv" /\ Noted /\ TypeOK /\ Open(L.fd)
  BY DEF ReadMessage, ListenerAt, At, registry, inputVars, clientVars, IInv
<1>2. /\ "listener" \in Threads /\ "listener" \in Changers /\ L \in Locals
      /\ L.fd \in Fds /\ L.at = 0 /\ L.avail = -1 /\ L.own = -1
  BY <1>1, ThreadTyped, ThreadNames DEF IInv, ThreadShape, ListenerShape
<1>3. PICK c \in Clients : c = peer[L.fd]
  BY <1>1, <1>2 DEF Open, TypeOK
<1>4. my_name[c] \in Names
  BY <1>1, <1>2, <1>3 DEF IInv, ClientShape
<1>5. to_server[c] # <<>> /\ to_server' = [to_server EXCEPT ![c] = Tail(@)]
  BY <1>3 DEF ReadMessage
<1>6. /\ to_server[c] \in Seq(S) /\ Tail(to_server[c]) \in Seq(S)
      /\ Len(Tail(to_server[c])) = Len(to_server[c]) - 1 /\ Len(to_server[c]) \in Nat \ {0}
      /\ \A k \in 1..Len(Tail(to_server[c])) : Tail(to_server[c])[k] = to_server[c][k + 1]
      /\ Head(to_server[c]) = to_server[c][1]
  <2>1. to_server[c] \in Seq(S)
    BY <1>1 DEF TypeOK
  <2>2. Len(to_server[c]) \in Nat \ {0}
    BY <1>5, <2>1, LenProperties, EmptySeq
  <2> HIDE DEF S
  <2> QED
    BY <1>5, <2>1, <2>2, HeadTailProperties
<1>7. to_server' \in [Clients -> Seq({"REGISTER", "UNREGISTER", "PING", "RESULT"})]
  BY <1>1, <1>5, <1>6 DEF TypeOK
<1>8. ~overlapped' => ~overlapped
  BY <1>1 DEF Noted, IInv, TypeOK
<1>9. ~overlapped => NoneNew /\ ~NewClient(c)'
  <2> SUFFICES ASSUME ~overlapped PROVE NoneNew /\ ~NewClient(c)'
    OBVIOUS
  <2>1. ASSUME NEW k \in 1..Len(to_server'[c]), to_server'[c][k] = "REGISTER" PROVE FALSE
    <3>1. to_server'[c] = Tail(to_server[c])
      BY <1>1, <1>5 DEF TypeOK
    <3>2. k \in Nat /\ k # 0 /\ k + 1 \in 1..Len(to_server[c]) /\ to_server[c][k + 1] = "REGISTER"
      BY <1>6, <2>1, <3>1
    <3>3. NewClient(c)
      BY <3>2 DEF NewClient
    <3>4. k + 1 = 1
      BY <3>2, <3>3 DEF IInv, RegistrationSound
    <3> QED
      BY <3>2, <3>4
  <2>2. \A d \in Clients : d # c => to_server'[d] = to_server[d]
    BY <1>1, <1>5 DEF TypeOK
  <2> QED
    BY <2>1, <2>2 DEF NoneNew, NewClient
<1>10. ClientShape'
  <2>1. \A d \in Clients : to_server'[d] # <<>> => to_server[d] # <<>>
    BY <1>1, <1>5 DEF TypeOK
  <2>2. \A f \in Fds : Open(f)' <=> Open(f)
    BY <1>1 DEF Open
  <2> QED
    BY <1>1, <2>1, <2>2 DEF IInv, ClientShape
<1>11. CASE Rests("listener")
  <2>1. /\ Moved("listener") /\ Settled("listener")' /\ RemovalKnown("listener")'
        /\ Shape("listener")' /\ ~Registering'
    BY <1>1, <1>2, <1>11, RestsQuietly
  <2>2. SamePhase("listener") /\ SameRegistration
    BY <1>1, <2>1 DEF SamePhase, Settled, SameRegistration
  <2> QED
    BY <1>1, <1>2, <1>7, <1>8, <1>9, <1>10, <2>1, <2>2, QuietStep DEF TypeOK
<1>12. CASE Goes("listener", "match_ping")
  <2>1. Moved("listener") /\ L'.pc = "match_ping"
    BY <1>1, <1>2, <1>12, GoesMoves DEF Pcs
  <2>2. SamePhase("listener") /\ SameRegistration /\ RemovalKnown("listener")'
    BY <1>1, <2>1 DEF SamePhase, Settled, SameRegistration, Registering, RemovalKnown
  <2>3. Shape("listener")'
    BY <2>1 DEF Shape, ListenerShape, ListenerPcs, Filling, Searched, Registering
  <2> QED
    BY <1>1, <1>2, <1>7, <1>8, <1>9, <1>10, <2>1, <2>2, <2>3, QuietStep DEF TypeOK
<1>13. ASSUME NEW p \in {"full", "match"}, p = "full" => Head(to_server[c]) = "REGISTER",
              th' = [th EXCEPT !["listener"].pc = p, !["listener"].arg = my_name[c]]
       PROVE  IInv'
  <2> DEFINE r == [L EXCEPT !.pc = p, !.arg = my_name[c]]
  <2>1. /\ r \in Locals /\ r.pc = p /\ r.arg = my_name[c] /\ r.fd = L.fd /\ r.at = 0
        /\ r.avail = -1 /\ r.own = -1
    BY <1>2, <1>4 DEF Locals, Pcs
  <2>2. th' = [th EXCEPT !["listener"] = r]
    BY <1>13
  <2> HIDE DEF r
  <2>3. Moved("listener") /\ L' = r
    BY <1>1, <1>2, <2>1, <2>2, SetsMoves
  <2>4. SamePhase("listener") /\ RemovalKnown("listener")'
    BY <1>1, <2>1, <2>3, SlotFacts DEF SamePhase, Settled, RemovalKnown
  <2>5. Shape("listener")'
    BY <1>2, <1>4, <2>1, <2>3, SlotFacts
       DEF Shape, ListenerShape, ListenerPcs, Filling, Searched, Registering
  <2>6. ~overlapped => SameRegistration \/ RegistrationKnown'
    <3>1. CASE p = "match"
      BY <2>1, <2>3, <3>1 DEF SameRegistration, Registering
    <3>2. ASSUME p = "full", ~overlapped PROVE RegistrationKnown'
      <4>1. 1 \in 1..Len(to_server[c]) /\ to_server[c][1] = "REGISTER"
        BY <1>6, <1>13, <3>2
      <4>2. NewClient(c) /\ RegistrationSound
        BY <3>2, <4>1 DEF NewClient, IInv
      <4>3. \A i \in Used : Stale(i) \/ peer[socket[i]] # c
        BY <4>2 DEF RegistrationSound
      <4>4. \A i \in Slots : socket[i] = L.fd => Stale(i)
        BY <1>2, <1>3, <4>3, SlotFacts DEF Used
      <4>5. \A i \in Slots : Stale(i) => Stale(i)'
        BY <1>1, <2>3, ThreadNames DEF Stale, Moved
      <4>6. ~NewClient(c)'
        BY <1>9, <3>2
      <4>7. L'.fd = L.fd /\ L'.arg = my_name[c] /\ L'.pc = "full"
        BY <2>1, <2>3, <3>2
      <4>8. PICK d \in Clients : d = peer'[L'.fd]
        BY <1>1, <1>3, <4>7
      <4>9. d = c
        BY <1>1, <1>3, <4>7, <4>8
      <4> QED
        BY <1>1, <1>3, <4>4, <4>5, <4>6, <4>7, <4>8, <4>9 DEF RegistrationKnown, Open
    <3> QED
      BY <3>1, <3>2
  <2> QED
    BY <1>1, <1>2, <1>7, <1>8, <1>9, <1>10, <2>3, <2>4, <2>5, <2>6, QuietStep DEF TypeOK
<1>14. \/ /\ Head(to_server[c]) = "REGISTER"
          /\ th' = [th EXCEPT !["listener"].pc = "full", !["listener"].arg = my_name[c]]
       \/ th' = [th EXCEPT !["listener"].pc = "match", !["listener"].arg = my_name[c]]
       \/ Goes("listener", "match_ping") \/ Rests("listener")
  BY <1>3 DEF ReadMessage
<1> QED
  BY <1>11, <1>12, <1>13, <1>14

(* The steps that change an entry, the count or a connection.              *)
AddingPcs == {"set_name", "set_socket", "set_responsive", "inc", "inc_store"}
RemovingPcs == {"match", "fetch_victim", "close", "zero_socket", "zero_name", "dec", "dec_store"}

(* As long as they have not overlapped, who changes the registry is alone. *)
LEMMA Alone ==
  ASSUME IInv, ~overlapped, NEW t \in Changers,
         \/ th[t].pc \in RemovingPcs
         \/ t = "listener" /\ L.pc \in AddingPcs
  PROVE  \A u \in Changers : u # t => th[u].pc \notin RemovingPcs \cup AddingPcs \cup {"test"}
<1>1. ~Overlap /\ L.pc \in ListenerPcs /\ M.pc \in MonitorPcs
  BY DEF IInv, ThreadShape, ListenerShape, MonitorShape
<1> QED
  BY <1>1, ThreadNames
     DEF Overlap, Changing, Removing, Adding, ListenerPcs, MonitorPcs, RemovingPcs, AddingPcs

LEMMA Frame ==
  ASSUME IInv, NEW t \in Changers, Moved(t), Noted,
         t = "listener" => ListenerShape', t = "monitor" => MonitorShape'
  PROVE  /\ ThreadShape'
         /\ overlapped' \in BOOLEAN /\ (~overlapped' => ~overlapped)
         /\ th' \in [Threads ->
              [pc: {"rest", "recv", "find", "anonymous", "full", "scan", "compare", "refuse",
                    "set_name", "set_socket", "set_responsive", "inc", "inc_store", "ack",
                    "match_ping", "answered", "match", "fetch_victim", "close", "zero_socket",
                    "zero_name", "dec", "dec_store", "check", "test", "fetch", "ping", "mark",
                    "pick", "fetch_socket", "send"},
               at: Slots, arg: Names \cup {NoName}, own: Slots \cup {-1},
               fd: Fds \cup {0}, avail: Slots \cup {-1}, reg: Int]]
         /\ \A u \in Changers : u # t => th'[u] = th[u]
<1>1. t \in Threads /\ t # "reader" /\ \A u \in Threads : u # t => th'[u] = th[u]
  BY ThreadNames DEF Moved
<1>2. ListenerShape'
  BY <1>1, ThreadNames DEF IInv, ThreadShape, ListenerShape, Filling
<1>3. MonitorShape' /\ ReaderShape'
  BY <1>1, ThreadNames DEF IInv, ThreadShape, MonitorShape, ReaderShape
<1>4. (Overlap => overlapped)'
  BY DEF Noted
<1>5. overlapped' \in BOOLEAN /\ (~overlapped' => ~overlapped)
  BY DEF Noted, IInv, TypeOK
<1>6. th' \in [Threads -> Locals]
  BY DEF Moved
<1> QED
  BY <1>1, <1>2, <1>3, <1>4, <1>5, <1>6, ThreadNames DEF ThreadShape, Locals, Pcs

LEMMA UsedFinite ==
    /\ IsFiniteSet(Used) /\ Cardinality(Used) \in Nat
    /\ \A i \in Slots : i \notin Used => /\ IsFiniteSet(Used \cup {i})
                                       /\ Cardinality(Used \cup {i}) = Cardinality(Used) + 1
    /\ \A i \in Used : Cardinality(Used \ {i}) = Cardinality(Used) - 1
<1>1. IsFiniteSet(Slots)
  BY SlotFacts, FS_Interval DEF Slots
<1>2. Used \subseteq Slots
  BY DEF Used
<1>3. IsFiniteSet(Used)
  BY <1>1, <1>2, FS_Subset
<1> QED
  BY <1>3, FS_CardinalityType, FS_AddElement, FS_RemoveElement

(* What handle_unregister's later steps find.                              *)
LEMMA RemovalAlone ==
  ASSUME IInv, ~overlapped, NEW t \in Changers,
         th[t].pc \in {"close", "zero_socket", "zero_name", "dec", "dec_store"}
  PROVE  /\ EntriesSound /\ CountSound /\ RegistrationSound /\ RemovalKnown(t)
         /\ \A u \in Changers : u # t => th[u].pc \notin RemovingPcs \cup AddingPcs \cup {"test"}
         /\ \A i \in Slots : Stale(i) <=> th[t].pc = "zero_socket" /\ i = th[t].at
         /\ \A i \in Slots \ Used : name[i] = NoName \/ (th[t].pc = "zero_name" /\ i = th[t].at)
         /\ ~Unlisted /\ (Uncounted <=> th[t].pc \in {"zero_name", "dec", "dec_store"})
         /\ L.pc \notin AddingPcs
<1>1. EntriesSound /\ CountSound /\ RegistrationSound /\ RemovalKnown(t)
  BY DEF IInv, RemovalSound
<1>2. \A u \in Changers : u # t => th[u].pc \notin RemovingPcs \cup AddingPcs \cup {"test"}
  BY Alone DEF RemovingPcs
<1>3. L.pc \notin AddingPcs
  BY <1>2, ThreadNames DEF AddingPcs
<1>4. \A i \in Slots : Stale(i) <=> th[t].pc = "zero_socket" /\ i = th[t].at
  BY <1>2, ThreadNames DEF Stale, RemovingPcs
<1>5. \A i \in Slots \ Used : name[i] = NoName \/ (th[t].pc = "zero_name" /\ i = th[t].at)
  BY <1>1, <1>2, <1>3, ThreadNames DEF EntriesSound, RemovingPcs, AddingPcs
<1>6. ~Unlisted /\ (Uncounted <=> th[t].pc \in {"zero_name", "dec", "dec_store"})
  BY <1>2, <1>3, ThreadNames DEF Unlisted, Uncounted, RemovingPcs, AddingPcs
<1> QED
  BY <1>1, <1>2, <1>3, <1>4, <1>5, <1>6

LEMMA CloseFacts ==
  ASSUME IInv, NEW fd \in Fds \cup {0}, Close(fd)
  PROVE  /\ UNCHANGED <<name, socket, responsive, client_count, op_id, up, backlog, to_client,
                        cpc, my_name, signalled>>
         /\ Noted
         /\ peer' \in [Fds -> Clients \cup {NoClient}] /\ stdin_open' \in BOOLEAN
         /\ to_server' \in [Clients -> Seq({"REGISTER", "UNREGISTER", "PING", "RESULT"})]
         /\ \A f \in Fds : f # fd => peer'[f] = peer[f]
         /\ \A d \in Clients : NewClient(d)' => NewClient(d) /\ to_server'[d] = to_server[d]
         /\ ClientShape'
<1>1. /\ UNCHANGED <<name, socket, responsive, client_count, op_id, up, backlog, to_client,
                     cpc, my_name, signalled>>
      /\ Noted /\ TypeOK
  BY DEF Close, registry, clientVars, IInv
<1>2. /\ \A f \in Fds : peer'[f] = IF f = fd THEN NoClient ELSE peer[f]
      /\ peer' \in [Fds -> Clients \cup {NoClient}]
  BY <1>1 DEF Close, TypeOK
<1>3. stdin_open' \in BOOLEAN
  <2>1. stdin_open' = (stdin_open /\ fd # 0)
    BY DEF Close
  <2> QED
    BY <2>1
<1>4. <<>> \in Seq({"REGISTER", "UNREGISTER", "PING", "RESULT"})
  BY EmptySeq
<1>5. /\ to_server' \in [Clients -> Seq({"REGISTER", "UNREGISTER", "PING", "RESULT"})]
      /\ \A d \in Clients : to_server'[d] = to_server[d] \/ to_server'[d] = <<>>
  BY <1>1, <1>4 DEF Close, TypeOK
<1>6. \A d \in Clients : NewClient(d)' => NewClient(d) /\ to_server'[d] = to_server[d]
  <2> SUFFICES ASSUME NEW d \in Clients, NewClient(d)' PROVE NewClient(d) /\ to_server'[d] = to_server[d]
    OBVIOUS
  <2>1. CASE to_server'[d] = <<>>
    <3>1. Len(to_server'[d]) = 0
      BY <2>1
    <3>2. \A k \in 1..Len(to_server'[d]) : FALSE
      BY <3>1
    <3> QED
      BY <3>2 DEF NewClient
  <2>2. CASE to_server'[d] = to_server[d]
    BY <2>2 DEF NewClient
  <2> QED
    BY <1>5, <2>1, <2>2
<1>7. ClientShape'
  <2>1. \A f \in Fds : Open(f)' => Open(f) /\ peer'[f] = peer[f]
    BY <1>2 DEF Open
  <2>2. \A d \in Clients : to_server'[d] # <<>> => to_server[d] # <<>>
    BY <1>5
  <2> QED
    BY <1>1, <2>1, <2>2 DEF IInv, ClientShape
<1> QED
  BY <1>1, <1>2, <1>3, <1>5, <1>6, <1>7

LEMMA CloseVictimStep ==
  ASSUME IInv, NEW t \in Changers, CloseVictim(t)
  PROVE  IInv'
<1>1. TypeOK /\ t \in Threads /\ th[t] \in Locals /\ th[t].pc = "close" /\ th[t].fd \in Fds \cup {0}
  BY ThreadTyped, ThreadNames DEF IInv, CloseVictim, At, Locals
<1>2. /\ UNCHANGED <<name, socket, responsive, client_count, op_id, up, backlog, to_client,
                     cpc, my_name, signalled>>
      /\ Noted
      /\ peer' \in [Fds -> Clients \cup {NoClient}] /\ stdin_open' \in BOOLEAN
      /\ to_server' \in [Clients -> Seq({"REGISTER", "UNREGISTER", "PING", "RESULT"})]
      /\ \A f \in Fds : f # th[t].fd => peer'[f] = peer[f]
      /\ \A d \in Clients : NewClient(d)' => NewClient(d) /\ to_server'[d] = to_server[d]
      /\ ClientShape'
  <2>1. Close(th[t].fd)
    BY DEF CloseVictim
  <2> QED
    BY <1>1, <2>1, CloseFacts
<1>3. /\ Moved(t) /\ th'[t].pc = "zero_socket" /\ th'[t].at = th[t].at /\ th'[t].own = th[t].own
  BY <1>1, GoesMoves DEF CloseVictim, Pcs
<1>4. /\ t = "listener" => ListenerShape'
      /\ t = "monitor" => MonitorShape'
  BY <1>1, <1>3 DEF IInv, ThreadShape, ListenerShape, ListenerPcs, Filling, MonitorShape, MonitorPcs
<1>5. /\ ThreadShape' /\ TypeOK' /\ (~overlapped' => ~overlapped)
      /\ \A u \in Changers : u # t => th'[u] = th[u]
  BY <1>1, <1>2, <1>3, <1>4, Frame DEF TypeOK
<1>6. Searched' /\ NamesUnique'
  <2>1. t = "listener" => Searched'
    BY <1>3 DEF Searched, Registering
  <2>2. t = "monitor" => L' = L
    BY <1>5, ThreadNames
  <2>3. t = "monitor" => Searched'
    BY <1>2, <2>2 DEF IInv, Searched, Registering
  <2> QED
    BY <1>2, <2>1, <2>3, ThreadNames DEF IInv, NamesUnique
<1>7. ASSUME ~overlapped' PROVE EntriesSound' /\ CountSound' /\ RemovalSound' /\ RegistrationSound'
  <2>0. PICK v \in Slots : v = th[t].at
    BY <1>1 DEF Locals
  <2>1. /\ EntriesSound /\ CountSound /\ RegistrationSound /\ RemovalKnown(t)
        /\ \A u \in Changers : u # t => th[u].pc \notin RemovingPcs \cup AddingPcs \cup {"test"}
        /\ \A i \in Slots : ~Stale(i)
        /\ \A i \in Slots \ Used : name[i] = NoName
        /\ ~Unlisted /\ ~Uncounted /\ L.pc \notin AddingPcs
    BY <1>1, <1>5, <1>7, RemovalAlone
  <2>2. Used' = Used /\ v \in Used /\ th[t].fd = socket[v] /\ v \in Slots
    BY <1>1, <1>2, <2>0, <2>1 DEF Used, RemovalKnown, Victim
  <2>3. Stale(v)'
    BY <1>3, <2>0 DEF Stale
  <2>4. \A i \in Used : i \in Slots /\ socket[i] \in Fds
    BY <1>1 DEF Used, TypeOK
  <2>5. \A i \in Used : i # v => Open(socket[i])' /\ peer'[socket[i]] = peer[socket[i]]
    BY <1>2, <2>1, <2>2, <2>4 DEF EntriesSound, Open
  <2>6. EntriesSound'
    <3>1. \A i \in Used : Stale(i)' \/ (Open(socket[i])' /\ name[i] = my_name[peer'[socket[i]]])
      BY <2>1, <2>3, <2>4, <2>5 DEF EntriesSound
    <3>2. \A i, j \in Used : socket[i] = socket[j] => i = j
      BY <2>1 DEF EntriesSound
    <3> QED
      BY <1>2, <2>1, <2>2, <3>1, <3>2 DEF EntriesSound, Open
  <2>7. CountSound'
    <3>1. ~Uncounted' /\ ~Unlisted'
      BY <1>3, <1>5, <2>1, ThreadNames
         DEF Uncounted, Unlisted, RemovingPcs, AddingPcs
    <3>2. \A u \in Changers : th'[u].pc \notin {"dec_store", "inc_store"}
      BY <1>3, <1>5, <2>1 DEF RemovingPcs, AddingPcs
    <3>3. client_count' = Cardinality(Used)
      BY <1>2, <2>1, UsedFinite DEF CountSound
    <3> QED
      BY <2>2, <3>1, <3>2, <3>3, UsedFinite DEF CountSound
  <2>8. RemovalSound'
    <3>1. RemovalKnown(t)'
      BY <1>3, <2>0, <2>2 DEF RemovalKnown
    <3>2. \A u \in Changers : u # t => RemovalKnown(u)'
      BY <1>5, <2>1 DEF RemovalKnown, RemovingPcs
    <3> QED
      BY <3>1, <3>2 DEF RemovalSound
  <2>9. RegistrationSound'
    <3>1. RegistrationKnown'
      <4> SUFFICES ASSUME Registering' PROVE RegistrationKnown'
        BY DEF RegistrationKnown
      <4>1. L' = L /\ Registering
        <5>1. t # "listener"
          BY <1>3 DEF Registering
        <5>2. L' = L
          BY <1>5, <5>1, ThreadNames
        <5> QED
          BY <5>2 DEF Registering
      <4>2. L.fd \in Fds /\ L.pc # "set_socket"
        BY <2>1, <4>1 DEF IInv, ThreadShape, ListenerShape, Registering, AddingPcs
      <4>3. /\ Open(L.fd) /\ L.arg = my_name[peer[L.fd]] /\ ~NewClient(peer[L.fd])
            /\ \A i \in Slots : socket[i] # L.fd
        BY <2>1, <4>1 DEF RegistrationSound
      <4>4. peer'[L.fd] = peer[L.fd] /\ peer[L.fd] \in Clients
        BY <1>1, <1>2, <2>2, <4>2, <4>3 DEF Open, TypeOK
      <4>5. PICK d \in Clients : d = peer[L.fd]
        BY <4>4
      <4>6. ~NewClient(d)'
        BY <1>2, <4>3, <4>5
      <4>7. d = peer'[L'.fd]
        BY <4>1, <4>4, <4>5
      <4>8. ~NewClient(peer[L.fd])'
        BY <4>6, <4>7 DEF NewClient
      <4> QED
        BY <1>2, <4>1, <4>2, <4>3, <4>4, <4>8 DEF RegistrationKnown, Open
    <3>2. ASSUME NEW d \in Clients, NewClient(d)'
          PROVE  /\ \A k \in 1..Len(to_server'[d]) : to_server'[d][k] = "REGISTER" => k = 1
                 /\ \A i \in Used : Stale(i)' \/ peer'[socket[i]] # d
      <4>1. NewClient(d) /\ to_server'[d] = to_server[d]
        BY <1>2, <3>2
      <4>2. /\ \A k \in 1..Len(to_server[d]) : to_server[d][k] = "REGISTER" => k = 1
            /\ \A i \in Used : Stale(i) \/ peer[socket[i]] # d
        BY <2>1, <4>1 DEF RegistrationSound
      <4>3. \A k \in 1..Len(to_server'[d]) : to_server'[d][k] = "REGISTER" => k = 1
        BY <4>1, <4>2
      <4> QED
        BY <2>1, <2>2, <2>3, <2>4, <2>5, <4>2, <4>3
    <3> QED
      BY <1>2, <2>2, <3>1, <3>2 DEF RegistrationSound, RegistrationKnown
  <2> QED
    BY <2>6, <2>7, <2>8, <2>9
<1> QED
  BY <1>2, <1>5, <1>6, <1>7 DEF IInv

LEMMA CloseAnonymousStep == IInv /\ CloseAnonymous => IInv'
<1> SUFFICES ASSUME IInv, CloseAnonymous PROVE IInv'
  OBVIOUS
<1>1. /\ TypeOK /\ "listener" \in Threads /\ "listener" \in Changers /\ L.pc = "anonymous"
      /\ L.fd \in Fds /\ \A i \in Slots : socket[i] # L.fd
  BY ThreadNames
     DEF IInv, CloseAnonymous, ListenerAt, At, ThreadShape, ListenerShape, Searched
<1>2. /\ UNCHANGED <<name, socket, responsive, client_count, op_id, up, backlog, to_client,
                     cpc, my_name, signalled>>
      /\ Noted
      /\ peer' \in [Fds -> Clients \cup {NoClient}] /\ stdin_open' \in BOOLEAN
      /\ to_server' \in [Clients -> Seq({"REGISTER", "UNREGISTER", "PING", "RESULT"})]
      /\ \A f \in Fds : f # L.fd => peer'[f] = peer[f]
      /\ \A d \in Clients : NewClient(d)' => NewClient(d) /\ to_server'[d] = to_server[d]
      /\ ClientShape'
  <2>1. Close(L.fd)
    BY DEF CloseAnonymous
  <2> QED
    BY <1>1, <2>1, CloseFacts
<1>3. /\ Moved("listener") /\ Settled("listener")' /\ RemovalKnown("listener")'
      /\ Shape("listener")' /\ ~Registering' /\ L'.pc = "rest"
  BY <1>1, RestsQuietly, RestsMoves DEF CloseAnonymous, Rest
<1>4. ListenerShape' /\ Searched'
  BY <1>3 DEF Shape
<1>5. /\ ThreadShape' /\ TypeOK' /\ (~overlapped' => ~overlapped)
      /\ \A u \in Changers : u # "listener" => th'[u] = th[u]
  BY <1>1, <1>2, <1>3, <1>4, Frame DEF TypeOK
<1>6. ASSUME ~overlapped' PROVE EntriesSound' /\ CountSound' /\ RemovalSound' /\ RegistrationSound'
  <2>1. EntriesSound /\ CountSound /\ RemovalSound /\ RegistrationSound
    BY <1>5, <1>6 DEF IInv
  <2>2. Used' = Used /\ \A i \in Slots : Stale(i)' <=> Stale(i)
    BY <1>1, <1>2, <1>3, <1>5, ThreadNames DEF Used, Stale
  <2>3. \A i \in Used : i \in Slots /\ socket[i] \in Fds /\ socket[i] # L.fd
    BY <1>1 DEF Used, TypeOK
  <2>4. \A i \in Used : peer'[socket[i]] = peer[socket[i]] /\ (Open(socket[i])' <=> Open(socket[i]))
    BY <1>2, <2>3 DEF Open
  <2>5. EntriesSound'
    <3>1. \A i \in Used : Stale(i)' \/ (Open(socket[i])' /\ name[i] = my_name[peer'[socket[i]]])
      BY <2>1, <2>2, <2>3, <2>4 DEF EntriesSound
    <3>2. \A i, j \in Used : socket[i] = socket[j] => i = j
      BY <2>1 DEF EntriesSound
    <3>3. \A i \in Slots \ Used :
             \/ name[i] = NoName
             \/ \E u \in Changers : th'[u].pc = "zero_name" /\ th'[u].at = i
      BY <1>1, <1>3, <1>5, <2>1 DEF EntriesSound
    <3> QED
      BY <1>2, <2>2, <3>1, <3>2, <3>3 DEF EntriesSound, Open
  <2>6. CountSound'
    <3>1. (Uncounted' <=> Uncounted) /\ (Unlisted' <=> Unlisted)
      BY <1>1, <1>3, <1>5, ThreadNames DEF Uncounted, Unlisted
    <3>2. \A u \in Changers : th'[u].pc \in {"dec_store", "inc_store"} => th'[u].reg = client_count
      BY <1>3, <1>5, <2>1 DEF CountSound
    <3>3. client_count' = Cardinality(Used) + (IF Uncounted THEN 1 ELSE 0) - (IF Unlisted THEN 1 ELSE 0)
      BY <1>2, <2>1 DEF CountSound
    <3> QED
      BY <1>2, <2>2, <3>1, <3>2, <3>3 DEF CountSound
  <2>7. RemovalSound'
    <3>1. \A u \in Changers : u # "listener" => RemovalKnown(u)'
      BY <1>2, <1>5, <2>1, <2>2 DEF RemovalSound, RemovalKnown
    <3> QED
      BY <1>3, <3>1 DEF RemovalSound
  <2>8. RegistrationSound'
    <3>1. ASSUME NEW d \in Clients, NewClient(d)'
          PROVE  /\ \A k \in 1..Len(to_server'[d]) : to_server'[d][k] = "REGISTER" => k = 1
                 /\ \A i \in Used : Stale(i)' \/ peer'[socket[i]] # d
      <4>1. NewClient(d) /\ to_server'[d] = to_server[d]
        BY <1>2, <3>1
      <4>2. /\ \A k \in 1..Len(to_server[d]) : to_server[d][k] = "REGISTER" => k = 1
            /\ \A i \in Used : Stale(i) \/ peer[socket[i]] # d
        BY <2>1, <4>1 DEF RegistrationSound
      <4>3. \A k \in 1..Len(to_server'[d]) : to_server'[d][k] = "REGISTER" => k = 1
        BY <4>1, <4>2
      <4> QED
        BY <2>2, <2>3, <2>4, <4>2, <4>3
    <3> QED
      BY <1>2, <1>3, <2>2, <3>1 DEF RegistrationSound
  <2> QED
    BY <2>5, <2>6, <2>7, <2>8
<1> QED
  BY <1>2, <1>4, <1>5, <1>6 DEF IInv, NamesUnique

(* The frame of a step that leaves the connections alone.                  *)
LEMMA LocalFrame ==
  ASSUME IInv, NEW t \in Changers, Moved(t), Local,
         t = "listener" => ListenerShape', t = "monitor" => MonitorShape',
         name' \in [Slots -> Names \cup {NoName}], socket' \in [Slots -> Fds \cup {0}],
         responsive' \in [Slots -> BOOLEAN], client_count' \in Int
  PROVE  /\ TypeOK' /\ ThreadShape' /\ ClientShape' /\ (~overlapped' => ~overlapped)
         /\ \A u \in Changers : u # t => th'[u] = th[u]
         /\ UNCHANGED <<peer, to_server, my_name>>
         /\ \A c \in Clients : NewClient(c)' <=> NewClient(c)
<1>1. /\ UNCHANGED <<op_id, stdin_open, up, peer, backlog, to_server, to_client, cpc, my_name,
                     signalled>>
      /\ Noted
  BY DEF Local, inputVars, network, clientVars
<1>2. /\ ThreadShape' /\ (~overlapped' => ~overlapped)
      /\ \A u \in Changers : u # t => th'[u] = th[u]
  BY <1>1, Frame
<1>3. TypeOK'
  BY <1>1, Frame DEF IInv, TypeOK
<1>4. ClientShape'
  BY <1>1 DEF IInv, ClientShape, Open
<1> QED
  BY <1>1, <1>2, <1>3, <1>4 DEF NewClient

(* The entry is emptied.                                                   *)
LEMMA ZeroSocketStep ==
  ASSUME IInv, NEW t \in Changers, ZeroSocket(t)
  PROVE  IInv'
<1>1. /\ TypeOK /\ t \in Threads /\ th[t] \in Locals /\ th[t].pc = "zero_socket" /\ Local
      /\ UNCHANGED <<name, responsive, client_count>>
  BY ThreadTyped, ThreadNames DEF IInv, ZeroSocket, At
<1>2. PICK v \in Slots : v = th[t].at
  BY <1>1 DEF Locals
<1>3. /\ socket' = [socket EXCEPT ![v] = 0] /\ socket' \in [Slots -> Fds \cup {0}]
      /\ \A i \in Slots : socket'[i] = IF i = v THEN 0 ELSE socket[i]
  BY <1>1, <1>2 DEF ZeroSocket, TypeOK
<1>4. /\ Moved(t) /\ th'[t].pc = "zero_name" /\ th'[t].at = v /\ th'[t].own = th[t].own
  BY <1>1, <1>2, GoesMoves DEF ZeroSocket, Pcs
<1>5. /\ t = "listener" => ListenerShape'
      /\ t = "monitor" => MonitorShape'
  BY <1>1, <1>4 DEF IInv, ThreadShape, ListenerShape, ListenerPcs, Filling, MonitorShape, MonitorPcs
<1>6. /\ TypeOK' /\ ThreadShape' /\ ClientShape' /\ (~overlapped' => ~overlapped)
      /\ \A u \in Changers : u # t => th'[u] = th[u]
      /\ UNCHANGED <<peer, to_server, my_name>>
      /\ \A c \in Clients : NewClient(c)' <=> NewClient(c)
  BY <1>1, <1>3, <1>4, <1>5, LocalFrame DEF TypeOK
<1>7. Searched' /\ NamesUnique'
  <2>1. t = "listener" => Searched'
    BY <1>4 DEF Searched, Registering
  <2>2. t = "monitor" => L' = L
    BY <1>6, ThreadNames
  <2>3. L.pc \in {"find", "anonymous"} => L.fd # 0
    BY SlotFacts DEF IInv, ThreadShape, ListenerShape
  <2>4. t = "monitor" => Searched'
    BY <1>1, <1>3, <2>2, <2>3 DEF IInv, Searched, Registering
  <2> QED
    BY <1>1, <2>1, <2>4, ThreadNames DEF IInv, NamesUnique
<1>8. ASSUME ~overlapped' PROVE EntriesSound' /\ CountSound' /\ RemovalSound' /\ RegistrationSound'
  <2>1. /\ EntriesSound /\ CountSound /\ RegistrationSound /\ RemovalKnown(t)
        /\ \A u \in Changers : u # t => th[u].pc \notin RemovingPcs \cup AddingPcs \cup {"test"}
        /\ \A i \in Slots : Stale(i) <=> i = v
        /\ \A i \in Slots \ Used : name[i] = NoName
        /\ ~Unlisted /\ ~Uncounted /\ L.pc \notin AddingPcs
    BY <1>1, <1>2, <1>6, <1>8, RemovalAlone
  <2>2. v \in Used /\ Used' = Used \ {v}
    BY <1>1, <1>2, <1>3, <2>1 DEF Used, RemovalKnown, Victim
  <2>3. \A i \in Slots : ~Stale(i)'
    BY <1>4, <1>6, <2>1 DEF Stale, RemovingPcs
  <2>4. \A i \in Used' : i \in Used /\ i \in Slots /\ i # v /\ socket'[i] = socket[i]
    BY <1>3, <2>2 DEF Used
  <2>5. EntriesSound'
    <3>1. \A i \in Used' : Open(socket[i]) /\ name[i] = my_name[peer[socket[i]]]
      BY <2>1, <2>4 DEF EntriesSound
    <3>2. \A i \in Used' : Open(socket[i])'
      BY <1>6, <2>4, <3>1 DEF Open
    <3>3. \A i, j \in Used' : socket'[i] = socket'[j] => i = j
      BY <2>1, <2>4 DEF EntriesSound
    <3>4. \A i \in Slots \ Used' : name[i] = NoName \/ (th'[t].pc = "zero_name" /\ th'[t].at = i)
      BY <1>4, <2>1, <2>2
    <3>5. \A i \in Used' : name'[i] = my_name'[peer'[socket'[i]]]
      BY <1>1, <1>6, <2>4, <3>1
    <3> QED
      BY <1>1, <3>2, <3>3, <3>4, <3>5 DEF EntriesSound, Open
  <2>6. CountSound'
    <3>1. Uncounted' /\ ~Unlisted'
      BY <1>4, <1>6, <2>1, ThreadNames
         DEF Uncounted, Unlisted, RemovingPcs, AddingPcs
    <3>2. \A u \in Changers : th'[u].pc \notin {"dec_store", "inc_store"}
      BY <1>4, <1>6, <2>1 DEF RemovingPcs, AddingPcs
    <3>3. client_count' = Cardinality(Used)
      BY <1>1, <2>1, UsedFinite DEF CountSound
    <3>4. Cardinality(Used') = Cardinality(Used) - 1
      BY <2>2, UsedFinite
    <3> QED
      BY <3>1, <3>2, <3>3, <3>4, UsedFinite DEF CountSound
  <2>7. RemovalSound'
    <3>1. RemovalKnown(t)'
      BY <1>4, <2>2 DEF RemovalKnown
    <3>2. \A u \in Changers : u # t => RemovalKnown(u)'
      BY <1>6, <2>1 DEF RemovalKnown, RemovingPcs
    <3> QED
      BY <3>1, <3>2 DEF RemovalSound
  <2>8. RegistrationSound'
    <3>1. RegistrationKnown'
      <4> SUFFICES ASSUME Registering' PROVE RegistrationKnown'
        BY DEF RegistrationKnown
      <4>1. L' = L /\ Registering
        <5>1. t # "listener"
          BY <1>4 DEF Registering
        <5>2. L' = L
          BY <1>6, <5>1, ThreadNames
        <5> QED
          BY <5>2 DEF Registering
      <4>2. L.fd \in Fds /\ L.fd # 0 /\ L.pc # "set_socket"
        BY <2>1, <4>1, SlotFacts DEF IInv, ThreadShape, ListenerShape, Registering, AddingPcs
      <4>3. /\ Open(L.fd) /\ L.arg = my_name[peer[L.fd]] /\ ~NewClient(peer[L.fd])
            /\ \A i \in Slots : socket[i] = L.fd => i = v
        BY <2>1, <4>1 DEF RegistrationSound
      <4>4. \A i \in Slots : socket'[i] # L.fd
        BY <1>3, <4>2, <4>3
      <4>5. ~NewClient(peer[L.fd])'
        BY <1>6, <4>1, <4>3 DEF NewClient
      <4> QED
        BY <1>6, <4>1, <4>2, <4>3, <4>4, <4>5 DEF RegistrationKnown, Open
    <3>2. ASSUME NEW d \in Clients, NewClient(d)
          PROVE  /\ \A k \in 1..Len(to_server[d]) : to_server[d][k] = "REGISTER" => k = 1
                 /\ \A i \in Used' : peer[socket'[i]] # d
      <4>1. /\ \A k \in 1..Len(to_server[d]) : to_server[d][k] = "REGISTER" => k = 1
            /\ \A i \in Used : Stale(i) \/ peer[socket[i]] # d
        BY <2>1, <3>2 DEF RegistrationSound
      <4> QED
        BY <2>1, <2>4, <4>1
    <3> QED
      BY <1>6, <3>1, <3>2 DEF RegistrationSound, RegistrationKnown
  <2> QED
    BY <2>5, <2>6, <2>7, <2>8
<1> QED
  BY <1>6, <1>7, <1>8 DEF IInv

LEMMA ZeroNameStep ==
  ASSUME IInv, NEW t \in Changers, ZeroName(t)
  PROVE  IInv'
<1>1. /\ TypeOK /\ t \in Threads /\ th[t] \in Locals /\ th[t].pc = "zero_name" /\ Local
      /\ UNCHANGED <<socket, responsive, client_count>>
  BY ThreadTyped, ThreadNames DEF IInv, ZeroName, At
<1>2. PICK v \in Slots : v = th[t].at
  BY <1>1 DEF Locals
<1>3. /\ name' \in [Slots -> Names \cup {NoName}]
      /\ \A i \in Slots : name'[i] = IF i = v THEN NoName ELSE name[i]
  BY <1>1, <1>2 DEF ZeroName, TypeOK
<1>4. /\ Moved(t) /\ th'[t].pc = "dec" /\ th'[t].own = th[t].own
  BY <1>1, GoesMoves DEF ZeroName, Pcs
<1>5. /\ t = "listener" => ListenerShape'
      /\ t = "monitor" => MonitorShape'
  BY <1>1, <1>4 DEF IInv, ThreadShape, ListenerShape, ListenerPcs, Filling, MonitorShape, MonitorPcs
<1>6. /\ TypeOK' /\ ThreadShape' /\ ClientShape' /\ (~overlapped' => ~overlapped)
      /\ \A u \in Changers : u # t => th'[u] = th[u]
      /\ UNCHANGED <<peer, to_server, my_name>>
      /\ \A c \in Clients : NewClient(c)' <=> NewClient(c)
  BY <1>1, <1>3, <1>4, <1>5, LocalFrame DEF TypeOK
<1>7. Searched' /\ NamesUnique'
  <2>1. t = "listener" => Searched'
    BY <1>4 DEF Searched, Registering
  <2>2. t = "monitor" => L' = L
    BY <1>6, ThreadNames
  <2>3. Registering => L.arg # NoName
    BY SlotFacts DEF IInv, Searched
  <2>4. t = "monitor" => Searched'
    BY <1>1, <1>3, <2>2, <2>3 DEF IInv, Searched, Registering
  <2> QED
    BY <1>1, <1>3, <2>1, <2>4, ThreadNames DEF IInv, NamesUnique
<1>8. ASSUME ~overlapped' PROVE EntriesSound' /\ CountSound' /\ RemovalSound' /\ RegistrationSound'
  <2>1. /\ EntriesSound /\ CountSound /\ RegistrationSound /\ RemovalKnown(t)
        /\ \A u \in Changers : u # t => th[u].pc \notin RemovingPcs \cup AddingPcs \cup {"test"}
        /\ \A i \in Slots : ~Stale(i)
        /\ \A i \in Slots \ Used : name[i] = NoName \/ i = v
        /\ ~Unlisted /\ Uncounted /\ L.pc \notin AddingPcs
    BY <1>1, <1>2, <1>6, <1>8, RemovalAlone
  <2>2. v \notin Used /\ Used' = Used
    BY <1>1, <1>2, <2>1 DEF Used, RemovalKnown, Victim
  <2>3. \A i \in Slots : ~Stale(i)'
    BY <1>4, <1>6, <2>1 DEF Stale, RemovingPcs
  <2>4. \A i \in Used : i \in Slots /\ i # v /\ name'[i] = name[i]
    BY <1>3, <2>2 DEF Used
  <2>5. EntriesSound'
    <3>1. \A i \in Used : Open(socket[i]) /\ name[i] = my_name[peer[socket[i]]]
      BY <2>1, <2>4 DEF EntriesSound
    <3>2. \A i \in Used : Open(socket[i])'
      BY <1>1, <1>6, <3>1 DEF Open
    <3>3. \A i, j \in Used : socket[i] = socket[j] => i = j
      BY <2>1 DEF EntriesSound
    <3>4. \A i \in Slots \ Used : name'[i] = NoName
      BY <1>3, <2>1
    <3> QED
      BY <1>1, <1>6, <2>2, <2>4, <3>1, <3>2, <3>3, <3>4 DEF EntriesSound
  <2>6. CountSound'
    <3>1. Uncounted' /\ ~Unlisted'
      BY <1>4, <1>6, <2>1, ThreadNames
         DEF Uncounted, Unlisted, RemovingPcs, AddingPcs
    <3>2. \A u \in Changers : th'[u].pc \notin {"dec_store", "inc_store"}
      BY <1>4, <1>6, <2>1 DEF RemovingPcs, AddingPcs
    <3>3. client_count' = Cardinality(Used) + 1
      BY <1>1, <2>1, UsedFinite DEF CountSound
    <3> QED
      BY <2>2, <3>1, <3>2, <3>3, UsedFinite DEF CountSound
  <2>7. RemovalSound'
    <3>1. RemovalKnown(t)'
      BY <1>4 DEF RemovalKnown
    <3>2. \A u \in Changers : u # t => RemovalKnown(u)'
      BY <1>6, <2>1 DEF RemovalKnown, RemovingPcs
    <3> QED
      BY <3>1, <3>2 DEF RemovalSound
  <2>8. RegistrationSound'
    <3>1. RegistrationKnown'
      <4> SUFFICES ASSUME Registering' PROVE RegistrationKnown'
        BY DEF RegistrationKnown
      <4>1. L' = L /\ Registering
        <5>1. t # "listener"
          BY <1>4 DEF Registering
        <5>2. L' = L
          BY <1>6, <5>1, ThreadNames
        <5> QED
          BY <5>2 DEF Registering
      <4>2. L.pc # "set_socket"
        BY <2>1 DEF AddingPcs
      <4>3. /\ Open(L.fd) /\ L.arg = my_name[peer[L.fd]] /\ ~NewClient(peer[L.fd])
            /\ \A i \in Slots : socket[i] # L.fd
        BY <2>1, <4>1 DEF RegistrationSound
      <4>4. ~NewClient(peer[L.fd])'
        BY <1>6, <4>1, <4>3 DEF NewClient
      <4> QED
        BY <1>1, <1>6, <4>1, <4>2, <4>3, <4>4 DEF RegistrationKnown, Open
    <3>2. ASSUME NEW d \in Clients, NewClient(d)
          PROVE  /\ \A k \in 1..Len(to_server[d]) : to_server[d][k] = "REGISTER" => k = 1
                 /\ \A i \in Used : peer[socket[i]] # d
      <4>1. /\ \A k \in 1..Len(to_server[d]) : to_server[d][k] = "REGISTER" => k = 1
            /\ \A i \in Used : Stale(i) \/ peer[socket[i]] # d
        BY <2>1, <3>2 DEF RegistrationSound
      <4> QED
        BY <2>1, <2>4, <4>1
    <3> QED
      BY <1>1, <1>6, <2>2, <3>1, <3>2 DEF RegistrationSound, RegistrationKnown
  <2> QED
    BY <2>5, <2>6, <2>7, <2>8
<1> QED
  BY <1>6, <1>7, <1>8 DEF IInv

LEMMA StoreDecrementStep ==
  ASSUME IInv, NEW t \in Changers, StoreDecrement(t)
  PROVE  IInv'
<1>1. /\ TypeOK /\ t \in Threads /\ th[t] \in Locals /\ th[t].pc = "dec_store" /\ Local
      /\ UNCHANGED <<name, socket, responsive>> /\ Returns(t) /\ client_count' = th[t].reg - 1
  BY ThreadTyped, ThreadNames DEF IInv, StoreDecrement, At
<1>2. t = "monitor" => th[t].own \in Slots
  BY <1>1 DEF IInv, ThreadShape, MonitorShape
<1>3. /\ Moved(t) /\ Settled(t)' /\ RemovalKnown(t)' /\ Shape(t)' /\ (t = "listener" => ~Registering')
      /\ th'[t].pc \in {"rest", "check"}
  BY <1>1, <1>2, ReturnsQuietly, ReturnsMoves DEF Rest
<1>4. /\ t = "listener" => ListenerShape'
      /\ t = "monitor" => MonitorShape'
      /\ client_count' \in Int
  BY <1>1, <1>3 DEF Shape, Locals
<1>5. /\ TypeOK' /\ ThreadShape' /\ ClientShape' /\ (~overlapped' => ~overlapped)
      /\ \A u \in Changers : u # t => th'[u] = th[u]
      /\ UNCHANGED <<peer, to_server, my_name>>
      /\ \A c \in Clients : NewClient(c)' <=> NewClient(c)
  BY <1>1, <1>3, <1>4, LocalFrame DEF TypeOK
<1>6. Searched' /\ NamesUnique'
  <2>1. t = "listener" => Searched'
    BY <1>3 DEF Shape
  <2>2. t = "monitor" => L' = L
    BY <1>5, ThreadNames
  <2>3. t = "monitor" => Searched'
    BY <1>1, <2>2 DEF IInv, Searched, Registering
  <2> QED
    BY <1>1, <2>1, <2>3, ThreadNames DEF IInv, NamesUnique
<1>7. ASSUME ~overlapped' PROVE EntriesSound' /\ CountSound' /\ RemovalSound' /\ RegistrationSound'
  <2>1. /\ EntriesSound /\ CountSound /\ RegistrationSound /\ RemovalKnown(t)
        /\ \A u \in Changers : u # t => th[u].pc \notin RemovingPcs \cup AddingPcs \cup {"test"}
        /\ \A i \in Slots : ~Stale(i)
        /\ \A i \in Slots \ Used : name[i] = NoName
        /\ ~Unlisted /\ Uncounted /\ L.pc \notin AddingPcs
    BY <1>1, <1>5, <1>7, RemovalAlone
  <2>2. Used' = Used
    BY <1>1 DEF Used
  <2>3. \A i \in Slots : ~Stale(i)'
    BY <1>3, <1>5, <2>1 DEF Stale, RemovingPcs
  <2>4. \A i \in Used : i \in Slots
    BY DEF Used
  <2>5. EntriesSound'
    <3>1. \A i \in Used : Open(socket[i]) /\ name[i] = my_name[peer[socket[i]]]
      BY <2>1, <2>4 DEF EntriesSound
    <3>2. \A i \in Used : Open(socket[i])'
      BY <1>1, <1>5, <3>1 DEF Open
    <3>3. \A i, j \in Used : socket[i] = socket[j] => i = j
      BY <2>1 DEF EntriesSound
    <3> QED
      BY <1>1, <1>5, <2>1, <2>2, <3>1, <3>2, <3>3 DEF EntriesSound
  <2>6. CountSound'
    <3>1. ~Uncounted' /\ ~Unlisted'
      BY <1>3, <1>5, <2>1, ThreadNames
         DEF Uncounted, Unlisted, RemovingPcs, AddingPcs
    <3>2. \A u \in Changers : th'[u].pc \notin {"dec_store", "inc_store"}
      BY <1>3, <1>5, <2>1 DEF RemovingPcs, AddingPcs
    <3>3. client_count = Cardinality(Used) + 1 /\ th[t].reg = client_count
      BY <1>1, <2>1, UsedFinite DEF CountSound
    <3>4. client_count' = Cardinality(Used)
      BY <1>1, <3>3, UsedFinite
    <3> QED
      BY <2>2, <3>1, <3>2, <3>4, UsedFinite DEF CountSound
  <2>7. RemovalSound'
    <3>1. \A u \in Changers : u # t => RemovalKnown(u)'
      BY <1>5, <2>1 DEF RemovalKnown, RemovingPcs
    <3> QED
      BY <1>3, <3>1 DEF RemovalSound
  <2>8. RegistrationSound'
    <3>1. RegistrationKnown'
      <4> SUFFICES ASSUME Registering' PROVE RegistrationKnown'
        BY DEF RegistrationKnown
      <4>1. L' = L /\ Registering
        <5>1. t # "listener"
          BY <1>3
        <5>2. L' = L
          BY <1>5, <5>1, ThreadNames
        <5> QED
          BY <5>2 DEF Registering
      <4>2. L.pc # "set_socket"
        BY <2>1 DEF AddingPcs
      <4>3. /\ Open(L.fd) /\ L.arg = my_name[peer[L.fd]] /\ ~NewClient(peer[L.fd])
            /\ \A i \in Slots : socket[i] # L.fd
        BY <2>1, <4>1 DEF RegistrationSound
      <4>4. ~NewClient(peer[L.fd])'
        BY <1>5, <4>1, <4>3 DEF NewClient
      <4> QED
        BY <1>1, <1>5, <4>1, <4>2, <4>3, <4>4 DEF RegistrationKnown, Open
    <3>2. ASSUME NEW d \in Clients, NewClient(d)
          PROVE  /\ \A k \in 1..Len(to_server[d]) : to_server[d][k] = "REGISTER" => k = 1
                 /\ \A i \in Used : peer[socket[i]] # d
      <4>1. /\ \A k \in 1..Len(to_server[d]) : to_server[d][k] = "REGISTER" => k = 1
            /\ \A i \in Used : Stale(i) \/ peer[socket[i]] # d
        BY <2>1, <3>2 DEF RegistrationSound
      <4> QED
        BY <2>1, <2>4, <4>1
    <3> QED
      BY <1>1, <1>5, <2>2, <3>1, <3>2 DEF RegistrationSound, RegistrationKnown
  <2> QED
    BY <2>5, <2>6, <2>7, <2>8
<1> QED
  BY <1>5, <1>6, <1>7 DEF IInv

(* What handle_register's later steps find.                                *)
LEMMA AddingAlone ==
  ASSUME IInv, ~overlapped, L.pc \in AddingPcs
  PROVE  /\ EntriesSound /\ CountSound /\ RegistrationSound
         /\ M.pc \notin RemovingPcs \cup AddingPcs \cup {"test"}
         /\ \A i \in Slots : ~Stale(i)
         /\ \A i \in Slots \ Used : name[i] = NoName \/ (L.pc = "set_socket" /\ i = L.avail)
         /\ ~Uncounted /\ (Unlisted <=> L.pc \in {"set_responsive", "inc", "inc_store"})
<1>1. EntriesSound /\ CountSound /\ RegistrationSound
  BY DEF IInv
<1>2. M.pc \notin RemovingPcs \cup AddingPcs \cup {"test"}
  BY Alone, ThreadNames
<1>3. \A t \in Changers : th[t].pc \notin {"zero_socket", "zero_name", "dec", "dec_store"}
  BY <1>2, ThreadNames DEF RemovingPcs, AddingPcs
<1>4. \A i \in Slots : ~Stale(i)
  BY <1>3 DEF Stale
<1>5. \A i \in Slots \ Used : name[i] = NoName \/ (L.pc = "set_socket" /\ i = L.avail)
  BY <1>1, <1>3 DEF EntriesSound
<1>6. ~Uncounted /\ (Unlisted <=> L.pc \in {"set_responsive", "inc", "inc_store"})
  BY <1>3 DEF Uncounted, Unlisted
<1> QED
  BY <1>1, <1>2, <1>4, <1>5, <1>6

(* After such a step nobody is removing, so there is nothing to know.      *)
LEMMA NoRemoval ==
  ASSUME M'.pc \notin RemovingPcs \cup AddingPcs \cup {"test"}, L'.pc \in AddingPcs \cup {"ack"}
  PROVE  /\ RemovalSound' /\ \A i \in Slots : ~Stale(i)'
         /\ ~Uncounted' /\ M'.pc \notin {"dec_store", "inc_store"}
BY ThreadNames DEF RemovalSound, RemovalKnown, Stale, Uncounted, RemovingPcs, AddingPcs

LEMMA SetNameStep == IInv /\ SetName => IInv'
<1> SUFFICES ASSUME IInv, SetName PROVE IInv'
  OBVIOUS
<1>1. /\ TypeOK /\ "listener" \in Threads /\ "listener" \in Changers /\ L \in Locals
      /\ L.pc = "set_name" /\ Local /\ UNCHANGED <<socket, responsive, client_count>>
  BY ThreadTyped, ThreadNames DEF IInv, SetName, ListenerAt, At
<1>2. /\ L.fd \in Fds /\ L.avail \in Slots /\ L.arg \in Names /\ socket[L.avail] = 0
      /\ \A j \in Slots : j # L.avail => name[j] # L.arg
  BY <1>1 DEF IInv, ThreadShape, ListenerShape, Filling, Searched, Registering
<1>3. PICK v \in Slots : v = L.avail
  BY <1>2
<1>4. /\ name' \in [Slots -> Names \cup {NoName}]
      /\ \A i \in Slots : name'[i] = IF i = v THEN L.arg ELSE name[i]
  BY <1>1, <1>2, <1>3 DEF SetName, TypeOK
<1>5. /\ Moved("listener") /\ L'.pc = "set_socket" /\ L'.arg = L.arg /\ L'.fd = L.fd /\ L'.avail = v
  BY <1>1, <1>3, GoesMoves DEF SetName, Pcs
<1>6. ListenerShape'
  BY <1>2, <1>5 DEF ListenerShape, ListenerPcs, Filling
<1>7. /\ TypeOK' /\ ThreadShape' /\ ClientShape' /\ (~overlapped' => ~overlapped)
      /\ \A u \in Changers : u # "listener" => th'[u] = th[u]
      /\ UNCHANGED <<peer, to_server, my_name>>
      /\ \A c \in Clients : NewClient(c)' <=> NewClient(c)
  BY <1>1, <1>4, <1>5, <1>6, LocalFrame DEF TypeOK
<1>8. Searched'
  BY <1>1, <1>2, <1>3, <1>5 DEF Searched, Registering
<1>9. NamesUnique'
  BY <1>2, <1>3, <1>4 DEF IInv, NamesUnique
<1>10. ASSUME ~overlapped' PROVE EntriesSound' /\ CountSound' /\ RemovalSound' /\ RegistrationSound'
  <2>1. /\ EntriesSound /\ CountSound /\ RegistrationSound
        /\ M.pc \notin RemovingPcs \cup AddingPcs \cup {"test"}
        /\ \A i \in Slots : ~Stale(i)
        /\ \A i \in Slots \ Used : name[i] = NoName
        /\ ~Uncounted /\ ~Unlisted
    BY <1>1, <1>7, <1>10, AddingAlone DEF AddingPcs
  <2>2. v \notin Used /\ Used' = Used
    BY <1>1, <1>2, <1>3 DEF Used
  <2>3. M' = M
    BY <1>7, ThreadNames
  <2>4. /\ RemovalSound' /\ \A i \in Slots : ~Stale(i)'
        /\ ~Uncounted' /\ M'.pc \notin {"dec_store", "inc_store"}
    <3>1. M'.pc \notin RemovingPcs \cup AddingPcs \cup {"test"} /\ L'.pc \in AddingPcs \cup {"ack"}
      BY <1>5, <2>1, <2>3 DEF AddingPcs
    <3> QED
      BY <3>1, NoRemoval
  <2>5. \A i \in Used : i \in Slots /\ i # v /\ name'[i] = name[i]
    BY <1>4, <2>2 DEF Used
  <2>6. EntriesSound'
    <3>1. \A i \in Used : Open(socket[i]) /\ name[i] = my_name[peer[socket[i]]]
      BY <2>1, <2>5 DEF EntriesSound
    <3>2. \A i \in Used : Open(socket[i])'
      BY <1>1, <1>7, <3>1 DEF Open
    <3>3. \A i, j \in Used : socket[i] = socket[j] => i = j
      BY <2>1 DEF EntriesSound
    <3>4. \A i \in Slots \ Used : name'[i] = NoName \/ (L'.pc = "set_socket" /\ L'.avail = i)
      BY <1>4, <1>5, <2>1
    <3> QED
      BY <1>1, <1>7, <2>2, <2>5, <3>1, <3>2, <3>3, <3>4 DEF EntriesSound
  <2>7. CountSound'
    <3>1. ~Unlisted'
      BY <1>5 DEF Unlisted
    <3>2. \A u \in Changers : th'[u].pc \notin {"dec_store", "inc_store"}
      BY <1>5, <2>4, ThreadNames
    <3>3. client_count' = Cardinality(Used)
      BY <1>1, <2>1, UsedFinite DEF CountSound
    <3> QED
      BY <2>2, <2>4, <3>1, <3>2, <3>3, UsedFinite DEF CountSound
  <2>8. RegistrationSound'
    <3>1. RegistrationKnown'
      <4>1. /\ Open(L.fd) /\ L.arg = my_name[peer[L.fd]] /\ ~NewClient(peer[L.fd])
            /\ \A i \in Slots : socket[i] # L.fd
        BY <1>1, <2>1 DEF RegistrationSound, Registering
      <4>2. peer[L.fd] \in Clients
        BY <1>1, <1>2, <4>1 DEF Open, TypeOK
      <4>3. PICK d \in Clients : d = peer[L.fd]
        BY <4>2
      <4>4. d = peer'[L'.fd] /\ ~NewClient(d)'
        BY <1>5, <1>7, <4>1, <4>3
      <4>5. ~NewClient(peer[L.fd])'
        BY <4>4 DEF NewClient
      <4>6. name'[L'.avail] = L'.arg
        BY <1>4, <1>5
      <4> QED
        BY <1>1, <1>5, <1>7, <4>1, <4>5, <4>6 DEF RegistrationKnown, Open
    <3>2. ASSUME NEW d \in Clients, NewClient(d)
          PROVE  /\ \A k \in 1..Len(to_server[d]) : to_server[d][k] = "REGISTER" => k = 1
                 /\ \A i \in Used : peer[socket[i]] # d
      <4>1. /\ \A k \in 1..Len(to_server[d]) : to_server[d][k] = "REGISTER" => k = 1
            /\ \A i \in Used : Stale(i) \/ peer[socket[i]] # d
        BY <2>1, <3>2 DEF RegistrationSound
      <4> QED
        BY <2>1, <2>5, <4>1
    <3> QED
      BY <1>1, <1>7, <2>2, <3>1, <3>2 DEF RegistrationSound, RegistrationKnown
  <2> QED
    BY <2>4, <2>6, <2>7, <2>8
<1> QED
  BY <1>7, <1>8, <1>9, <1>10 DEF IInv

LEMMA SetSocketStep == IInv /\ SetSocket => IInv'
<1> SUFFICES ASSUME IInv, SetSocket PROVE IInv'
  OBVIOUS
<1>1. /\ TypeOK /\ "listener" \in Threads /\ "listener" \in Changers /\ L \in Locals
      /\ L.pc = "set_socket" /\ Local /\ UNCHANGED <<name, responsive, client_count>>
  BY ThreadTyped, ThreadNames DEF IInv, SetSocket, ListenerAt, At
<1>2. L.fd \in Fds /\ L.avail \in Slots /\ L.arg \in Names /\ socket[L.avail] = 0
  BY <1>1 DEF IInv, ThreadShape, ListenerShape, Filling, Searched, Registering
<1>3. PICK v \in Slots : v = L.avail
  BY <1>2
<1>4. PICK f \in Fds : f = L.fd
  BY <1>2
<1>5. /\ socket' \in [Slots -> Fds \cup {0}]
      /\ \A i \in Slots : socket'[i] = IF i = v THEN f ELSE socket[i]
  BY <1>1, <1>2, <1>3, <1>4 DEF SetSocket, TypeOK
<1>6. /\ Moved("listener") /\ L'.pc = "set_responsive" /\ L'.fd = f /\ L'.avail = v
  BY <1>1, <1>3, <1>4, GoesMoves DEF SetSocket, Pcs
<1>7. ListenerShape'
  BY <1>6 DEF ListenerShape, ListenerPcs, Filling
<1>8. /\ TypeOK' /\ ThreadShape' /\ ClientShape' /\ (~overlapped' => ~overlapped)
      /\ \A u \in Changers : u # "listener" => th'[u] = th[u]
      /\ UNCHANGED <<peer, to_server, my_name>>
      /\ \A c \in Clients : NewClient(c)' <=> NewClient(c)
  BY <1>1, <1>5, <1>6, <1>7, LocalFrame DEF TypeOK
<1>9. Searched' /\ ~Registering'
  BY <1>6 DEF Searched, Registering
<1>10. NamesUnique'
  BY <1>1 DEF IInv, NamesUnique
<1>11. ASSUME ~overlapped' PROVE EntriesSound' /\ CountSound' /\ RemovalSound' /\ RegistrationSound'
  <2>1. /\ EntriesSound /\ CountSound /\ RegistrationSound
        /\ M.pc \notin RemovingPcs \cup AddingPcs \cup {"test"}
        /\ \A i \in Slots : ~Stale(i)
        /\ \A i \in Slots \ Used : name[i] = NoName \/ i = v
        /\ ~Uncounted /\ ~Unlisted
    BY <1>1, <1>3, <1>8, <1>11, AddingAlone DEF AddingPcs
  <2>2. /\ Open(f) /\ name[v] = my_name[peer[f]] /\ ~NewClient(peer[f])
        /\ \A i \in Slots : socket[i] # f
    BY <1>1, <1>3, <1>4, <2>1 DEF RegistrationSound, Registering
  <2>3. v \notin Used /\ Used' = Used \cup {v}
    BY <1>2, <1>3, <1>5, SlotFacts DEF Used
  <2>4. M' = M
    BY <1>8, ThreadNames
  <2>5. /\ RemovalSound' /\ \A i \in Slots : ~Stale(i)'
        /\ ~Uncounted' /\ M'.pc \notin {"dec_store", "inc_store"}
    <3>1. M'.pc \notin RemovingPcs \cup AddingPcs \cup {"test"} /\ L'.pc \in AddingPcs \cup {"ack"}
      BY <1>6, <2>1, <2>4 DEF AddingPcs
    <3> QED
      BY <3>1, NoRemoval
  <2>6. /\ \A i \in Used : i \in Slots /\ socket'[i] = socket[i] /\ socket[i] # f
        /\ socket'[v] = f
    BY <1>5, <2>2, <2>3 DEF Used
  <2>7. EntriesSound'
    <3>1. \A i \in Used : Open(socket[i]) /\ name[i] = my_name[peer[socket[i]]]
      BY <2>1, <2>6 DEF EntriesSound
    <3>2. \A i \in Used' : Open(socket[i])'
      BY <1>8, <2>2, <2>3, <2>6, <3>1 DEF Open
    <3>3. \A i \in Used' : name'[i] = my_name'[peer'[socket'[i]]]
      BY <1>1, <1>8, <2>2, <2>3, <2>6, <3>1
    <3>4. \A i, j \in Used' : socket'[i] = socket'[j] => i = j
      BY <2>1, <2>3, <2>6 DEF EntriesSound
    <3>5. \A i \in Slots \ Used' : name'[i] = NoName
      BY <1>1, <2>1, <2>3
    <3> QED
      BY <3>2, <3>3, <3>4, <3>5 DEF EntriesSound
  <2>8. CountSound'
    <3>1. Unlisted'
      BY <1>6 DEF Unlisted
    <3>2. \A u \in Changers : th'[u].pc \notin {"dec_store", "inc_store"}
      BY <1>6, <2>5, ThreadNames
    <3>3. client_count' = Cardinality(Used)
      BY <1>1, <2>1, UsedFinite DEF CountSound
    <3>4. Cardinality(Used') = Cardinality(Used) + 1
      BY <2>3, UsedFinite
    <3> QED
      BY <2>5, <3>1, <3>2, <3>3, <3>4, UsedFinite DEF CountSound
  <2>9. RegistrationSound'
    <3>1. ASSUME NEW d \in Clients, NewClient(d)
          PROVE  /\ \A k \in 1..Len(to_server[d]) : to_server[d][k] = "REGISTER" => k = 1
                 /\ \A i \in Used' : peer[socket'[i]] # d
      <4>1. /\ \A k \in 1..Len(to_server[d]) : to_server[d][k] = "REGISTER" => k = 1
            /\ \A i \in Used : Stale(i) \/ peer[socket[i]] # d
        BY <2>1, <3>1 DEF RegistrationSound
      <4>2. \A i \in Used' : peer[socket'[i]] # d
        BY <2>1, <2>2, <2>3, <2>6, <3>1, <4>1
      <4> QED
        BY <4>1, <4>2
    <3> QED
      BY <1>8, <1>9, <3>1 DEF RegistrationSound
  <2> QED
    BY <2>5, <2>7, <2>8, <2>9
<1> QED
  BY <1>8, <1>9, <1>10, <1>11 DEF IInv

LEMMA StoreIncrementStep == IInv /\ StoreIncrement => IInv'
<1> SUFFICES ASSUME IInv, StoreIncrement PROVE IInv'
  OBVIOUS
<1>1. /\ TypeOK /\ "listener" \in Threads /\ "listener" \in Changers /\ L \in Locals
      /\ L.pc = "inc_store" /\ Local /\ UNCHANGED <<name, socket, responsive>>
      /\ client_count' = L.reg + 1 /\ client_count' \in Int
  BY ThreadTyped, ThreadNames DEF IInv, StoreIncrement, ListenerAt, At, Locals
<1>2. L.fd \in Fds
  BY <1>1 DEF IInv, ThreadShape, ListenerShape
<1>3. Moved("listener") /\ L'.pc = "ack" /\ L'.fd = L.fd
  BY <1>1, GoesMoves DEF StoreIncrement, Pcs
<1>4. ListenerShape'
  BY <1>2, <1>3 DEF ListenerShape, ListenerPcs, Filling
<1>5. /\ TypeOK' /\ ThreadShape' /\ ClientShape' /\ (~overlapped' => ~overlapped)
      /\ \A u \in Changers : u # "listener" => th'[u] = th[u]
      /\ UNCHANGED <<peer, to_server, my_name>>
      /\ \A c \in Clients : NewClient(c)' <=> NewClient(c)
  BY <1>1, <1>3, <1>4, LocalFrame DEF TypeOK
<1>6. Searched' /\ ~Registering' /\ NamesUnique'
  BY <1>1, <1>3 DEF Searched, Registering, IInv, NamesUnique
<1>7. ASSUME ~overlapped' PROVE EntriesSound' /\ CountSound' /\ RemovalSound' /\ RegistrationSound'
  <2>1. /\ EntriesSound /\ CountSound /\ RegistrationSound
        /\ M.pc \notin RemovingPcs \cup AddingPcs \cup {"test"}
        /\ \A i \in Slots : ~Stale(i)
        /\ \A i \in Slots \ Used : name[i] = NoName
        /\ ~Uncounted /\ Unlisted
    BY <1>1, <1>5, <1>7, AddingAlone DEF AddingPcs
  <2>2. Used' = Used /\ M' = M
    BY <1>1, <1>5, ThreadNames DEF Used
  <2>3. /\ RemovalSound' /\ \A i \in Slots : ~Stale(i)'
        /\ ~Uncounted' /\ M'.pc \notin {"dec_store", "inc_store"}
    <3>1. M'.pc \notin RemovingPcs \cup AddingPcs \cup {"test"} /\ L'.pc \in AddingPcs \cup {"ack"}
      BY <1>3, <2>1, <2>2
    <3> QED
      BY <3>1, NoRemoval
  <2>4. EntriesSound'
    <3>1. \A i \in Used : i \in Slots /\ Open(socket[i]) /\ name[i] = my_name[peer[socket[i]]]
      BY <2>1 DEF EntriesSound, Used
    <3>2. \A i \in Used : Open(socket[i])'
      BY <1>1, <1>5, <3>1 DEF Open
    <3>3. \A i, j \in Used : socket[i] = socket[j] => i = j
      BY <2>1 DEF EntriesSound
    <3> QED
      BY <1>1, <1>5, <2>1, <2>2, <3>1, <3>2, <3>3 DEF EntriesSound
  <2>5. CountSound'
    <3>1. ~Unlisted'
      BY <1>3 DEF Unlisted
    <3>2. \A u \in Changers : th'[u].pc \notin {"dec_store", "inc_store"}
      BY <1>3, <2>3, ThreadNames
    <3>3. client_count = Cardinality(Used) - 1 /\ L.reg = client_count
      BY <1>1, <2>1, UsedFinite DEF CountSound
    <3>4. client_count' = Cardinality(Used)
      BY <1>1, <3>3, UsedFinite
    <3> QED
      BY <2>2, <2>3, <3>1, <3>2, <3>4, UsedFinite DEF CountSound
  <2>6. RegistrationSound'
    <3>1. ASSUME NEW d \in Clients, NewClient(d)
          PROVE  /\ \A k \in 1..Len(to_server[d]) : to_server[d][k] = "REGISTER" => k = 1
                 /\ \A i \in Used : peer[socket[i]] # d
      <4>1. /\ \A k \in 1..Len(to_server[d]) : to_server[d][k] = "REGISTER" => k = 1
            /\ \A i \in Used : Stale(i) \/ peer[socket[i]] # d
        BY <2>1, <3>1 DEF RegistrationSound
      <4>2. \A i \in Used : i \in Slots
        BY DEF Used
      <4> QED
        BY <2>1, <4>1, <4>2
    <3> QED
      BY <1>1, <1>5, <1>6, <2>2, <3>1 DEF RegistrationSound
  <2> QED
    BY <2>3, <2>4, <2>5, <2>6
<1> QED
  BY <1>5, <1>6, <1>7 DEF IInv
-----------------------------------------------------------------------------
LEMMA InitIInv == Init => IInv
<1> SUFFICES ASSUME Init PROVE IInv
  OBVIOUS
<1>1. /\ \A t \in Threads : th[t] = Rest
      /\ \A i \in Slots : name[i] = NoName /\ socket[i] = 0
      /\ \A f \in Fds : peer[f] = NoClient
      /\ \A c \in Clients : to_server[c] = <<>> /\ cpc[c] = "start"
      /\ client_count = 0 /\ backlog = {} /\ overlapped = FALSE
  BY DEF Init
<1>2. L = Rest /\ M = Rest /\ R = Rest /\ Rest.pc = "rest"
  BY <1>1, ThreadNames DEF Rest
<1>3. TypeOK
  <2>1. th \in [Threads ->
           [pc: {"rest", "recv", "find", "anonymous", "full", "scan", "compare", "refuse",
                 "set_name", "set_socket", "set_responsive", "inc", "inc_store", "ack",
                 "match_ping", "answered", "match", "fetch_victim", "close", "zero_socket",
                 "zero_name", "dec", "dec_store", "check", "test", "fetch", "ping", "mark",
                 "pick", "fetch_socket", "send"},
            at: Slots, arg: Names \cup {NoName}, own: Slots \cup {-1},
            fd: Fds \cup {0}, avail: Slots \cup {-1}, reg: Int]]
    BY RestTyped DEF Init, Locals, Pcs
  <2>2. op_id \in 0..Requests /\ client_count \in Int
    BY SocketAssumption DEF Init
  <2>3. stdin_open \in BOOLEAN /\ up \in BOOLEAN /\ overlapped \in BOOLEAN
    BY ZenonT(30) DEF Init
  <2>4. /\ name \in [Slots -> Names \cup {NoName}] /\ socket \in [Slots -> Fds \cup {0}]
        /\ responsive \in [Slots -> BOOLEAN] /\ peer \in [Fds -> Clients \cup {NoClient}]
        /\ backlog \subseteq Clients
    BY DEF Init
  <2>5. /\ to_server \in [Clients -> Seq({"REGISTER", "UNREGISTER", "PING", "RESULT"})]
        /\ to_client \in [Clients -> Seq({"REGISTER_ACK", "NAME_TAKEN", "PING", "ARITH", "rest"})]
    <3>1. /\ <<>> \in Seq({"REGISTER", "UNREGISTER", "PING", "RESULT"})
          /\ <<>> \in Seq({"REGISTER_ACK", "NAME_TAKEN", "PING", "ARITH", "rest"})
      BY EmptySeq
    <3> QED
      BY <3>1 DEF Init
  <2>6. /\ cpc \in [Clients -> {"start", "register", "listen", "hung", "left"}]
        /\ my_name \in [Clients -> Names \cup {NoName}] /\ signalled \subseteq Interruptible
    BY DEF Init
  <2> QED
    BY <2>1, <2>2, <2>3, <2>4, <2>5, <2>6 DEF TypeOK
<1>4. ListenerShape /\ Searched /\ MonitorShape /\ ReaderShape /\ ~Registering
  BY <1>1, RestIsQuiet, ThreadNames DEF QuietAtRest, Shape
<1>5. ThreadShape
  BY <1>2, <1>4 DEF ThreadShape, Overlap, Changing, Removing, Adding
<1>6. ClientShape /\ NamesUnique
  BY <1>1 DEF ClientShape, NamesUnique, Open
<1>7. EntriesSound /\ CountSound /\ RemovalSound /\ RegistrationSound
  <2>1. Used = {}
    BY <1>1 DEF Used
  <2>2. EntriesSound
    BY <1>1, <2>1 DEF EntriesSound
  <2>3. CountSound
    <3>1. Cardinality({}) = 0
      BY FS_EmptySet
    <3>2. \A t \in Changers : th[t].pc = "rest"
      BY <1>1, <1>2, ThreadNames
    <3>3. ~Uncounted /\ ~Unlisted
      BY <1>2, <3>2 DEF Uncounted, Unlisted
    <3> QED
      BY <1>1, <2>1, <3>1, <3>2, <3>3 DEF CountSound
  <2>4. RemovalSound
    BY <1>1, RestIsQuiet, ThreadNames DEF RemovalSound, QuietAtRest
  <2>5. \A c \in Clients : ~NewClient(c)
    <3> SUFFICES ASSUME NEW c \in Clients, NEW k \in 1..Len(to_server[c]) PROVE FALSE
      BY DEF NewClient
    <3>1. Len(to_server[c]) = 0
      BY <1>1
    <3> QED
      BY <3>1
  <2> QED
    BY <1>4, <2>2, <2>3, <2>4, <2>5 DEF RegistrationSound
<1> QED
  BY <1>3, <1>4, <1>5, <1>6, <1>7 DEF IInv

LEMMA RemovalStep ==
  ASSUME IInv, NEW t \in Changers, handle_unregister(t)
  PROVE  IInv'
BY MatchStep, FetchVictimStep, CloseVictimStep, ZeroSocketStep, ZeroNameStep, LoadCountStep,
   StoreDecrementStep DEF handle_unregister

LEMMA ListenerStep == IInv /\ listener => IInv'
<1> SUFFICES ASSUME IInv, listener PROVE IInv'
  OBVIOUS
<1>1. CASE ReadEnd
  BY <1>1, FailsStep, ReadEndOfFileStep DEF ReadEnd
<1>2. CASE Compare
  <2>1. CASE name[L.at] # L.arg /\ L.at + 1 = MaxClients /\ L.avail = -1
    BY <1>2, <2>1, FailsStep DEF Compare
  <2> QED
    BY <1>2, <2>1, CompareStep
<1>3. CASE LoadCount("listener", "inc", "inc_store")
  BY <1>3, LoadCountStep, ThreadNames
<1>4. CASE handle_unregister("listener")
  BY <1>4, RemovalStep, ThreadNames
<1>5. CASE RefuseFull \/ Scan \/ Refuse \/ SetName \/ SetSocket \/ SetResponsive \/ StoreIncrement \/ Acknowledge
  BY <1>5, RefuseFullStep, ScanStep, ListenerAnswersStep, SetNameStep, SetSocketStep,
     SetResponsiveStep, StoreIncrementStep
<1>6. CASE Accept \/ EpollWait \/ ReadMessage \/ Find \/ CloseAnonymous \/ MatchPing \/ Answered
  BY <1>6, AcceptStep, EpollWaitStep, ReadMessageStep, FindStep, CloseAnonymousStep,
     MatchPingStep, AnsweredStep
<1> QED
  BY <1>1, <1>2, <1>3, <1>4, <1>5, <1>6 DEF listener, handle_register

LEMMA MonitorStep == IInv /\ monitor => IInv'
<1> SUFFICES ASSUME IInv, monitor PROVE IInv'
  OBVIOUS
<1>1. CASE handle_unregister("monitor")
  BY <1>1, RemovalStep, ThreadNames
<1> QED
  BY <1>1, WakeStep, CheckStep, TestResponsiveStep, FetchSocketStep, SendPingStep,
     MarkUnresponsiveStep DEF monitor

LEMMA ReaderStep == IInv /\ reader => IInv'
<1>1. InputGone => Fails
  BY DEF InputGone
<1> QED
  BY <1>1, ReadLineStep, FailsStep, PickStep, FetchChosenStep, SendRequestStep DEF reader

(* A step of nobody.                                                       *)
LEMMA StutterStep == IInv /\ UNCHANGED vars => IInv'
<1> SUFFICES ASSUME IInv, UNCHANGED vars PROVE IInv'
  OBVIOUS
<1>1. UNCHANGED <<name, socket, responsive, client_count, th, op_id, stdin_open, up, overlapped,
                  peer, backlog, to_server, to_client, cpc, my_name, signalled>>
  BY DEF vars, registry, inputVars, network, clientVars
<1>2. TypeOK
  BY DEF IInv
<1>3. NoneNew
  BY <1>1 DEF NoneNew
<1>4. up' \in BOOLEAN
  BY <1>1, <1>2 DEF TypeOK
<1> QED
  BY <1>1, <1>2, <1>3, <1>4, ClientQuiet DEF TypeOK

LEMMA IInvPreserved == IInv /\ [Next]_vars => IInv'
<1> SUFFICES ASSUME IInv, [Next]_vars PROVE IInv'
  OBVIOUS
<1>1. CASE \E c \in Clients : client(c)
  BY <1>1, ConnectStep, ClientStep DEF client
<1>2. CASE Halted
  BY <1>2, StutterStep DEF Halted
<1> QED
  BY <1>1, <1>2, ListenerStep, MonitorStep, ReaderStep, StutterStep DEF Next

(* The state of the server is what its declarations say: every thread's    *)
(* index is in the array, every descriptor is one of a connection.         *)
THEOREM SocketTypeCorrect == Spec => []TypeOK
<1>1. IInv => TypeOK
  BY DEF IInv
<1> QED
  BY <1>1, InitIInv, IInvPreserved, PTL DEF Spec

(* However the monitor and the listener interleave, no two entries have    *)
(* one name; and as long as the two have not changed the registry at a     *)
(* time, between their changes client_count counts the entries and every   *)
(* entry is the connection of a client of its name.                        *)
THEOREM SocketRegistrySound == Spec => []RegistrySound
<1>1. IInv => RegistrySound
  <2> SUFFICES ASSUME IInv PROVE RegistrySound
    OBVIOUS
  <2>1. NamesUnique
    BY DEF IInv
  <2>2. ASSUME ~overlapped, ~Changing, ~Removing("monitor")
        PROVE  /\ client_count = Cardinality(Used)
               /\ \A i \in Used : Open(socket[i]) /\ name[i] = my_name[peer[socket[i]]]
               /\ \A i, j \in Used : socket[i] = socket[j] => i = j
               /\ \A i \in Slots \ Used : name[i] = NoName
    <3>1. /\ \A t \in Changers : th[t].pc \notin {"zero_socket", "zero_name", "dec", "dec_store"}
          /\ L.pc \notin AddingPcs
      BY <2>2, ThreadNames DEF Changing, Removing, Adding, AddingPcs
    <3>2. EntriesSound /\ CountSound
      BY <2>2 DEF IInv
    <3>3. (\A i \in Slots : ~Stale(i)) /\ ~Uncounted /\ ~Unlisted
      BY <3>1 DEF Stale, Uncounted, Unlisted, AddingPcs
    <3>4. \A i \in Used : i \in Slots
      BY DEF Used
    <3>5. client_count = Cardinality(Used)
      BY <3>2, <3>3, UsedFinite DEF CountSound
    <3>6. \A i \in Slots \ Used : name[i] = NoName
      BY <3>1, <3>2 DEF EntriesSound, AddingPcs
    <3> QED
      BY <3>2, <3>3, <3>4, <3>5, <3>6 DEF EntriesSound
  <2> QED
    BY <2>1, <2>2 DEF RegistrySound
<1> QED
  BY <1>1, InitIInv, IInvPreserved, PTL DEF Spec
=============================================================================

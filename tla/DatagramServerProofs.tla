------------------------ MODULE DatagramServerProofs ------------------------
(***************************************************************************)
(* Proofs about DatagramServer, for any number of clients, names and       *)
(* slots.  There are two invariants.                                       *)
(*                                                                         *)
(* RegistryInv is about the registry alone.  What the listener's search    *)
(* has passed can only lose its name, so names stay unique, and every      *)
(* entry has the address of a client of its name, whatever overlaps; only  *)
(* the count, what is being removed, and the room that the listener has    *)
(* been promised need that listener and monitor do not overlap.            *)
(*                                                                         *)
(* MessageInv is about what is on its way: the server only hears from and  *)
(* writes to clients whose names it knows, or has reason to have           *)
(* forgotten, and a client asks once to be registered.                     *)
(***************************************************************************)
EXTENDS DatagramServer, FiniteSetTheorems, SequenceTheorems, TLAPS

ListenerPcs ==
    {"rest", "full", "scan", "compare", "refuse", "inc", "inc_store", "set_name", "set_addr",
     "set_responsive", "ack", "match_ping", "answered", "match", "zero_name", "dec", "dec_store"}

MonitorPcs ==
    {"rest", "check", "test", "ping", "mark", "match", "zero_name", "dec", "dec_store"}

Filling == L.pc \in {"inc", "inc_store", "set_name", "set_addr", "set_responsive"}

ListenerShape ==
    /\ L.pc \in ListenerPcs /\ L.own = -1
    /\ L.pc \in {"rest", "full"} => L.at = 0 /\ L.avail = -1
    /\ L.pc # "rest" => L.from \in Clients /\ L.arg = my_name[L.from]
    /\ Filling => L.avail \in Slots

MonitorShape ==
    /\ M.pc \in MonitorPcs
    /\ M.pc # "rest" => M.own \in Slots

ReaderShape == R.pc \in {"rest", "pick", "send"}

ThreadShape == ListenerShape /\ MonitorShape /\ ReaderShape

(* What the listener's search for a slot has passed.                       *)
Searched ==
    /\ L.pc \in {"scan", "compare"} => \A j \in Slots : j < L.at /\ j # L.avail => name[j] # L.arg
    /\ L.pc \in {"inc", "inc_store", "set_name"} => \A j \in Slots : j # L.avail => name[j] # L.arg
    /\ L.pc \in {"scan", "compare", "inc", "inc_store", "set_name"} /\ L.avail \in Slots =>
           name[L.avail] = NoName
    /\ L.pc = "set_addr" => name[L.avail] \in {L.arg, NoName}

(* The address of an entry is there, or about to be.                       *)
Addressed(i) == addr[i] \in Clients \/ (L.pc = "set_addr" /\ L.avail = i)

EntriesSound ==
    /\ \A i \in Used : \/ L.pc = "set_addr" /\ L.avail = i
                       \/ addr[i] \in Clients /\ name[i] = my_name[addr[i]]
    /\ M.pc \in {"test", "ping"} => Addressed(M.own)
    /\ R.pc = "send" => Addressed(R.at)

Changers == {"listener", "monitor"}

(* The count is ahead of the entries.                                      *)
Ahead == L.pc = "set_name" \/ \E t \in Changers : th[t].pc \in {"dec", "dec_store"}

CountSound ==
    /\ client_count = Cardinality(Used) + (IF Ahead THEN 1 ELSE 0)
    /\ \A t \in Changers : th[t].pc \in {"dec_store", "inc_store"} => th[t].reg = client_count

(* What a thread must know of the entry it removes.                        *)
RemovalKnown(t) ==
    /\ th[t].pc = "zero_name" => th[t].at \in Used
    /\ th[t].pc = "match" /\ th[t].own \in Slots => th[t].own \in Used
    /\ t = "monitor" /\ th[t].pc = "test" => th[t].own \in Used

RemovalSound == \A t \in Changers : RemovalKnown(t)

(* A search that has found no slot will find one.                          *)
RoomAhead ==
    /\ L.pc = "scan" /\ L.avail = -1 => \E j \in Slots : j >= L.at /\ name[j] = NoName
    /\ L.pc = "compare" /\ L.avail = -1 => \E j \in Slots : j > L.at /\ name[j] = NoName

Clean == ~overlapped /\ ~Overlap

RegistryInv ==
    /\ TypeOK /\ ThreadShape /\ NamesUnique /\ Searched /\ EntriesSound
    /\ Clean => CountSound /\ RemovalSound /\ RoomAhead
-----------------------------------------------------------------------------
(* The names that were given up.                                           *)
GivenUp == evicted \cup {my_name[c] : c \in {d \in Clients : cpc[d] = "interrupted"}}

Known(n) == n \in GivenUp \/ \E j \in Slots : name[j] = n

Message(type, c) == [type |-> type, from |-> c]
Sent(type, c) == \E f \in Families : \E k \in 1..Len(to_server[f]) : to_server[f][k] = Message(type, c)
Due(type, c) == \E k \in 1..Len(to_client[c]) : to_client[c][k] = type

(* What the names in use, and the messages in flight, are evidence of.     *)
NamesKnown ==
    /\ \A i \in Slots : addr[i] \in Clients => Known(my_name[addr[i]])
    /\ \A c \in Clients : Due("PING", c) \/ Sent("PING", c) => Known(my_name[c])
    /\ \A c \in Clients : Sent("UNREGISTER", c) => cpc[c] = "interrupted"

(* What the listener has found out, which the monitor can only confirm.    *)
ListenerKnows ==
    /\ L.pc = "match_ping" => Known(L.arg) /\ \A j \in Slots : j < L.at => name[j] # L.arg
    /\ L.pc = "set_addr" => name[L.avail] = L.arg \/ L.arg \in evicted
    /\ L.pc \in {"match", "zero_name"} => cpc[L.from] = "interrupted"
    /\ L.pc = "zero_name" => name[L.at] \in {L.arg, NoName}

Serving == {"full", "scan", "compare", "refuse", "inc", "inc_store", "set_name", "set_addr"}
Listing == {"set_responsive", "ack"}

Served(c) == L.from = c /\ L.pc \in Serving

(* It has got an address in the registry, or had when it was served.       *)
Listed(c) == (L.from = c /\ L.pc \in Listing) \/ \E i \in Slots : addr[i] = c

TurnedAway(c) == Due("NAME_TAKEN", c) \/ cpc[c] = "turned_away"

(* A client asks once, and is either listed or turned away.                *)
AsksOnce(c) ==
    /\ Sent("REGISTER", c) => ~Served(c) /\ ~Listed(c) /\ ~TurnedAway(c)
    /\ Served(c) => ~Listed(c) /\ ~TurnedAway(c)
    /\ Listed(c) => ~TurnedAway(c)
    /\ Sent("REGISTER", c) \/ Served(c) \/ Listed(c) \/ TurnedAway(c) => cpc[c] # "start"

(* Every client writes to its own socket, and REGISTER only once.          *)
SocketsSound ==
    \A f \in Families : \A k \in 1..Len(to_server[f]) :
        /\ f = Family(to_server[f][k].from)
        /\ to_server[f][k].type = "REGISTER" =>
               \A l \in 1..Len(to_server[f]) : to_server[f][l] = to_server[f][k] => l = k

MessageInv ==
    /\ NamesKnown /\ ListenerKnows /\ SocketsSound
    /\ \A c \in Clients : AsksOnce(c)
-----------------------------------------------------------------------------
USE DEF L, M, R

Pcs == {"rest", "full", "scan", "compare", "refuse", "inc", "inc_store", "set_name", "set_addr",
        "set_responsive", "ack", "match_ping", "answered", "match", "zero_name", "dec",
        "dec_store", "check", "test", "ping", "mark", "pick", "send"}

Locals ==
    [pc: Pcs, at: Slots, arg: Names \cup {NoName}, own: Slots \cup {-1},
     from: Clients \cup {NoClient}, avail: Slots \cup {-1}, reg: Int]

Causes == {"none", "late", "refused", "unaddressed", "full"}
Messages == [type: {"REGISTER", "UNREGISTER", "PING", "RESULT"}, from: Clients]
Answers == {"REGISTER_ACK", "NAME_TAKEN", "PING", "ARITH"}
ClientPcs == {"start", "register", "listen", "hung"} \cup Gone

(* The types of all but the registry's variables and the threads'.         *)
OthersTyped ==
    /\ responsive \in [Slots -> BOOLEAN] /\ op_id \in 0..Requests
    /\ fate \in Causes /\ evicted \subseteq Names \cup {NoName}
    /\ to_server \in [Families -> Seq(Messages)]
    /\ to_client \in [Clients -> Seq(Answers)]
    /\ cpc \in [Clients -> ClientPcs]

(* Only thread t has moved.                                                *)
Moved(t) ==
    /\ th' \in [Threads -> Locals] /\ th'[t] \in Locals
    /\ \A u \in Threads : u # t => th'[u] = th[u]

LEMMA SlotFacts ==
    /\ MaxClients \in Nat /\ MaxClients >= 1 /\ 0 \in Slots /\ -1 \notin Slots
    /\ \A i \in Slots : i \in Nat /\ i < MaxClients
    /\ \A i \in Slots : i + 1 # MaxClients => i + 1 \in Slots
    /\ NoName \notin Names /\ NoClient \notin Clients
<1>1. MaxClients \in Nat /\ MaxClients >= 1
  BY DatagramAssumption
<1> QED
  BY <1>1, DatagramAssumption DEF Slots

LEMMA ThreadNames ==
    /\ Threads = {"listener", "monitor", "reader"} /\ Changers = {"listener", "monitor"}
    /\ "listener" \in Threads /\ "monitor" \in Threads /\ "reader" \in Threads
BY DEF Threads, Changers

LEMMA RestTyped == Rest \in Locals /\ Rest.pc = "rest" /\ Rest.at = 0 /\ Rest.avail = -1 /\ Rest.own = -1
BY SlotFacts DEF Rest, Locals, Pcs

PartsTyped ==
    /\ name \in [Slots -> Names \cup {NoName}] /\ addr \in [Slots -> Clients \cup {NoClient}]
    /\ client_count \in Int /\ overlapped \in BOOLEAN
    /\ th \in [Threads -> Locals] /\ my_name \in [Clients -> Names]
    /\ OthersTyped

LEMMA TypedByParts == TypeOK <=> PartsTyped
<1>1. th \in [Threads -> Locals] <=> th \in [Threads ->
           [pc: {"rest", "full", "scan", "compare", "refuse", "inc", "inc_store", "set_name",
                 "set_addr", "set_responsive", "ack", "match_ping", "answered", "match",
                 "zero_name", "dec", "dec_store", "check", "test", "ping", "mark", "pick", "send"},
            at: Slots, arg: Names \cup {NoName}, own: Slots \cup {-1},
            from: Clients \cup {NoClient}, avail: Slots \cup {-1}, reg: Int]]
  BY DEF Locals, Pcs
<1> QED
  BY <1>1 DEF TypeOK, PartsTyped, OthersTyped, Causes, Messages, Answers, ClientPcs

LEMMA Typed == TypeOK => PartsTyped /\ \A t \in Threads : th[t] \in Locals
BY TypedByParts DEF PartsTyped

LEMMA MakeTyped ==
  ASSUME PartsTyped'
  PROVE  TypeOK'
BY TypedByParts, PTL

(* What the steps do to the variables of a thread.                         *)
LEMMA SetsMoves ==
  ASSUME TypeOK, NEW t \in Threads, NEW r \in Locals, th' = [th EXCEPT ![t] = r]
  PROVE  Moved(t) /\ th'[t] = r
BY Typed DEF PartsTyped, Moved

LEMMA GoesMoves ==
  ASSUME TypeOK, NEW t \in Threads, NEW p \in Pcs, Goes(t, p)
  PROVE  /\ Moved(t) /\ th'[t].pc = p /\ th'[t].at = th[t].at /\ th'[t].arg = th[t].arg
         /\ th'[t].own = th[t].own /\ th'[t].from = th[t].from /\ th'[t].avail = th[t].avail
         /\ th'[t].reg = th[t].reg
<1>1. th[t] \in Locals
  BY Typed
<1> DEFINE r == [th[t] EXCEPT !.pc = p]
<1>2. /\ r \in Locals /\ r.pc = p /\ r.at = th[t].at /\ r.arg = th[t].arg /\ r.own = th[t].own
      /\ r.from = th[t].from /\ r.avail = th[t].avail /\ r.reg = th[t].reg
  BY <1>1 DEF Locals
<1>3. th' = [th EXCEPT ![t] = r]
  BY DEF Goes
<1> HIDE DEF r
<1> QED
  BY <1>2, <1>3, SetsMoves

LEMMA RestsMoves ==
  ASSUME TypeOK, NEW t \in Threads, Rests(t)
  PROVE  Moved(t) /\ th'[t] = Rest
BY RestTyped, SetsMoves DEF Rests

(* Back to the loop: at rest, or at the next slot.                         *)
LEMMA ReturnsMoves ==
  ASSUME TypeOK, NEW t \in Threads, t = "monitor" => th[t].own \in Slots, Returns(t)
  PROVE  /\ Moved(t)
         /\ \/ th'[t] = Rest
            \/ t = "monitor" /\ th'[t].pc = "check" /\ th'[t].own \in Slots
<1>1. CASE Rests(t)
  BY <1>1, RestsMoves
<1>2. CASE /\ t = "monitor" /\ th[t].own + 1 < MaxClients
           /\ th' = [th EXCEPT ![t] = [Rest EXCEPT !.pc = "check", !.own = th[t].own + 1]]
  <2> DEFINE r == [Rest EXCEPT !.pc = "check", !.own = th[t].own + 1]
  <2>1. th[t].own + 1 \in Slots
    BY <1>2, SlotFacts
  <2>2. r \in Locals /\ r.pc = "check" /\ r.own \in Slots
    BY <2>1, RestTyped DEF Rest, Locals, Pcs
  <2>3. th' = [th EXCEPT ![t] = r]
    BY <1>2
  <2> HIDE DEF r
  <2> QED
    BY <1>2, <2>2, <2>3, SetsMoves
<1> QED
  BY <1>1, <1>2 DEF Returns

LEMMA SearchMoves ==
  ASSUME TypeOK, NEW t \in Threads, NEW ACTION otherwise, SearchesOn(t, otherwise)
  PROVE  \/ th[t].at + 1 = MaxClients /\ otherwise
         \/ /\ Moved(t) /\ th'[t].at = th[t].at + 1
            /\ th'[t].pc = th[t].pc /\ th'[t].arg = th[t].arg /\ th'[t].own = th[t].own
            /\ th'[t].from = th[t].from /\ th'[t].avail = th[t].avail /\ th'[t].reg = th[t].reg
<1>1. th[t] \in Locals
  BY Typed
<1>2. CASE th[t].at + 1 = MaxClients
  BY <1>2 DEF SearchesOn
<1>3. CASE th[t].at + 1 # MaxClients
  <2> DEFINE r == [th[t] EXCEPT !.at = @ + 1]
  <2>1. th[t].at + 1 \in Slots
    BY <1>1, <1>3, SlotFacts DEF Locals
  <2>2. /\ r \in Locals /\ r.at = th[t].at + 1
        /\ r.pc = th[t].pc /\ r.arg = th[t].arg /\ r.own = th[t].own
        /\ r.from = th[t].from /\ r.avail = th[t].avail /\ r.reg = th[t].reg
    BY <1>1, <2>1 DEF Locals
  <2>3. th' = [th EXCEPT ![t] = r]
    BY <1>3 DEF SearchesOn
  <2> HIDE DEF r
  <2> QED
    BY <2>2, <2>3, SetsMoves
<1> QED
  BY <1>2, <1>3

(* Shape of what a thread holds, with what it knows of the registry        *)
(* whatever overlaps; and what more it knows as long as nothing has.       *)
Shape(t) ==
    /\ t = "listener" => ListenerShape /\ Searched
    /\ t = "monitor" => MonitorShape /\ (M.pc \in {"test", "ping"} => Addressed(M.own))
    /\ t = "reader" => ReaderShape /\ (R.pc = "send" => Addressed(R.at))

Knows(t) ==
    /\ t \in Changers => RemovalKnown(t)
    /\ t = "listener" => RoomAhead

(* A step that does not take a thread from one phase of a change to        *)
(* another.                                                                *)
Settled(t) == th[t].pc \notin {"inc_store", "set_name", "set_addr", "dec", "dec_store"}

SamePhase(t) ==
    \/ Settled(t) /\ Settled(t)'
    \/ th[t].pc = "inc" /\ th'[t].pc = "inc_store" /\ th'[t].reg = client_count
    \/ th[t].pc = "dec" /\ th'[t].pc = "dec_store" /\ th'[t].reg = client_count

(* A step that leaves the entries and the count as they are.               *)
LEMMA QuietStep ==
  ASSUME RegistryInv, NEW t \in Threads, Moved(t), UNCHANGED <<name, addr, client_count, my_name>>,
         OthersTyped', overlapped' \in BOOLEAN, Clean' => Clean,
         t \in Changers => SamePhase(t), Shape(t)', Clean' => Knows(t)'
  PROVE  RegistryInv'
<1>1. TypeOK'
  <2>1. /\ name \in [Slots -> Names \cup {NoName}] /\ addr \in [Slots -> Clients \cup {NoClient}]
        /\ client_count \in Int /\ my_name \in [Clients -> Names]
    BY Typed DEF RegistryInv, PartsTyped
  <2>2. /\ name' \in [Slots -> Names \cup {NoName}] /\ addr' \in [Slots -> Clients \cup {NoClient}]
        /\ client_count' \in Int /\ my_name' \in [Clients -> Names] /\ th' \in [Threads -> Locals]
    BY <2>1 DEF Moved
  <2> QED
    BY <2>2, MakeTyped DEF PartsTyped
<1>2. \A u \in Threads : u # t => th'[u] = th[u]
  BY DEF Moved
<1>3. t # "listener" => L' = L
  BY <1>2, ThreadNames
<1>4. (L'.pc = "set_addr" <=> L.pc = "set_addr") /\ (L.pc = "set_addr" => L'.avail = L.avail)
  BY <1>3, ThreadNames DEF SamePhase, Settled
<1>5. ThreadShape' /\ Searched'
  <2>1. ListenerShape' /\ Searched'
    BY <1>3 DEF RegistryInv, ThreadShape, ListenerShape, Searched, Shape, Filling
  <2>2. MonitorShape' /\ ReaderShape'
    BY <1>2, ThreadNames DEF RegistryInv, ThreadShape, MonitorShape, ReaderShape, Shape
  <2> QED
    BY <2>1, <2>2 DEF ThreadShape
<1>6. NamesUnique' /\ Used' = Used
  BY DEF RegistryInv, NamesUnique, Used
<1>7. EntriesSound'
  <2>1. \A i \in Slots : Addressed(i)' <=> Addressed(i)
    BY <1>4 DEF Addressed
  <2>2. M.pc \in {"test", "ping"} => M.own \in Slots
    BY DEF RegistryInv, ThreadShape, MonitorShape
  <2>3. R \in Locals
    BY ThreadNames, Typed DEF RegistryInv
  <2>4. (M.pc \in {"test", "ping"} => Addressed(M.own))'
    BY <1>2, <2>1, <2>2, ThreadNames DEF Shape, RegistryInv, EntriesSound
  <2>5. (R.pc = "send" => Addressed(R.at))'
    BY <1>2, <2>1, <2>3, ThreadNames DEF Shape, RegistryInv, EntriesSound, Locals
  <2>6. \A i \in Used' : \/ L'.pc = "set_addr" /\ L'.avail = i
                         \/ addr'[i] \in Clients /\ name'[i] = my_name'[addr'[i]]
    BY <1>4, <1>6 DEF RegistryInv, EntriesSound
  <2> QED
    BY <2>4, <2>5, <2>6 DEF EntriesSound
<1>8. ASSUME Clean' PROVE CountSound' /\ RemovalSound' /\ RoomAhead'
  <2>1. CountSound /\ RemovalSound /\ RoomAhead
    BY <1>8 DEF RegistryInv
  <2>2. \A u \in Changers : u # t => th'[u] = th[u]
    BY <1>2, ThreadNames
  <2>3. Ahead' <=> Ahead
    BY <2>2, ThreadNames DEF Ahead, SamePhase, Settled
  <2>4. \A u \in Changers : th'[u].pc \in {"dec_store", "inc_store"} => th'[u].reg = client_count
    BY <2>1, <2>2 DEF CountSound, SamePhase, Settled
  <2>5. CountSound'
    BY <1>6, <2>1, <2>3, <2>4 DEF CountSound
  <2>6. RemovalSound'
    <3>1. \A u \in Changers : u # t => RemovalKnown(u)'
      BY <1>6, <2>1, <2>2 DEF RemovalSound, RemovalKnown
    <3> QED
      BY <1>8, <3>1 DEF RemovalSound, Knows
  <2>7. RoomAhead'
    BY <1>3, <1>8, <2>1 DEF Knows, RoomAhead
  <2> QED
    BY <2>5, <2>6, <2>7
<1> QED
  BY <1>1, <1>5, <1>6, <1>7, <1>8 DEF RegistryInv

LEMMA NotedClean == RegistryInv /\ Noted => overlapped' \in BOOLEAN /\ (Clean' => Clean)
<1> SUFFICES ASSUME RegistryInv, Noted PROVE overlapped' \in BOOLEAN /\ (Clean' => Clean)
  OBVIOUS
<1>1. overlapped \in BOOLEAN
  BY Typed DEF RegistryInv, PartsTyped
<1> QED
  BY <1>1 DEF Noted, Clean

(* What every quiet step has in common.                                    *)
LEMMA QuietFacts ==
  ASSUME RegistryInv, Quiet, UNCHANGED registry
  PROVE  /\ TypeOK /\ UNCHANGED <<name, addr, client_count>> /\ responsive' \in [Slots -> BOOLEAN]
         /\ "listener" \in Threads /\ "monitor" \in Threads /\ "reader" \in Threads
         /\ \A t \in Threads : th[t] \in Locals
         /\ ListenerShape /\ MonitorShape /\ ReaderShape /\ Searched
         /\ (Clean' => Clean)
<1>1. Noted
  BY DEF Quiet
<1> QED
  BY <1>1, NotedClean, Typed, ThreadNames DEF RegistryInv, PartsTyped, OthersTyped, registry, ThreadShape

LEMMA LocalStep ==
  ASSUME RegistryInv, NEW t \in Threads, Moved(t), Quiet, UNCHANGED <<name, addr, client_count>>,
         responsive' \in [Slots -> BOOLEAN],
         t \in Changers => SamePhase(t), Shape(t)', Clean' => Knows(t)'
  PROVE  RegistryInv'
<1>1. Noted /\ UNCHANGED <<op_id, fate, evicted, to_server, to_client, cpc, my_name>>
  BY DEF Quiet, network, clientVars
<1>2. OthersTyped'
  BY <1>1, Typed DEF RegistryInv, PartsTyped, OthersTyped
<1>3. overlapped' \in BOOLEAN /\ (Clean' => Clean)
  BY <1>1, NotedClean
<1> QED
  BY <1>1, <1>2, <1>3, QuietStep

(* A thread at rest has nothing to know.                                   *)
QuietAtRest == \A t \in Threads : th[t] = Rest => Settled(t) /\ Shape(t) /\ Knows(t)

LEMMA RestIsQuiet == QuietAtRest
<1> SUFFICES ASSUME NEW t \in Threads, th[t] = Rest PROVE Settled(t) /\ Shape(t) /\ Knows(t)
  BY DEF QuietAtRest
<1>1. th[t].pc = "rest" /\ th[t].at = 0 /\ th[t].avail = -1 /\ th[t].own = -1
  BY RestTyped
<1> QED
  BY <1>1, ThreadNames, SlotFacts
     DEF Settled, RemovalKnown, Shape, Knows, RoomAhead, ListenerShape, ListenerPcs, Filling,
         Searched, MonitorShape, MonitorPcs, ReaderShape

LEMMA RestsQuietly ==
  ASSUME TypeOK, NEW t \in Threads, Rests(t)
  PROVE  /\ Moved(t) /\ Settled(t)' /\ Shape(t)' /\ Knows(t)' /\ th'[t].pc = "rest"
<1>1. Moved(t) /\ th'[t] = Rest
  BY RestsMoves
<1>2. QuietAtRest'
  BY RestIsQuiet, PTL
<1> QED
  BY <1>1, <1>2, RestTyped DEF QuietAtRest

LEMMA ReturnsQuietly ==
  ASSUME TypeOK, NEW t \in Changers, t = "monitor" => th[t].own \in Slots, Returns(t)
  PROVE  /\ Moved(t) /\ Settled(t)' /\ Shape(t)' /\ Knows(t)' /\ th'[t].pc \in {"rest", "check"}
         /\ t = "listener" => th'[t].pc = "rest"
<1>1. t \in Threads
  BY ThreadNames
<1>2. /\ Moved(t)
      /\ \/ th'[t] = Rest
         \/ t = "monitor" /\ th'[t].pc = "check" /\ th'[t].own \in Slots
  BY <1>1, ReturnsMoves
<1>3. CASE th'[t] = Rest
  <2>1. QuietAtRest'
    BY RestIsQuiet, PTL
  <2> QED
    BY <1>1, <1>2, <1>3, <2>1, RestTyped DEF QuietAtRest
<1>4. CASE t = "monitor" /\ th'[t].pc = "check" /\ th'[t].own \in Slots
  BY <1>2, <1>4 DEF Settled, Knows, RemovalKnown, Shape, MonitorShape, MonitorPcs
<1> QED
  BY <1>2, <1>3, <1>4

LEMMA ScansOnMoves ==
  ASSUME TypeOK, NEW i \in Nat, i <= MaxClients, NEW a \in Slots \cup {-1}, ScansOn(i, a)
  PROVE  /\ Moved("listener") /\ L'.arg = L.arg /\ L'.own = L.own /\ L'.from = L.from /\ L'.avail = a
         /\ \/ i < MaxClients /\ L'.pc = "scan" /\ L'.at = i
            \/ i = MaxClients /\ L'.pc = "inc"
<1> DEFINE r == [L EXCEPT !.pc = IF i < MaxClients THEN "scan" ELSE "inc",
                          !.at = IF i < MaxClients THEN i ELSE 0,
                          !.avail = a]
<1>1. L \in Locals /\ "listener" \in Threads
  BY Typed, ThreadNames
<1>2. i < MaxClients => i \in Slots
  BY SlotFacts DEF Slots
<1>3. /\ r \in Locals /\ r.arg = L.arg /\ r.own = L.own /\ r.from = L.from /\ r.avail = a
      /\ i < MaxClients => r.pc = "scan" /\ r.at = i
      /\ ~(i < MaxClients) => r.pc = "inc"
  BY <1>1, <1>2, SlotFacts DEF Locals, Pcs
<1>4. th' = [th EXCEPT !["listener"] = r]
  BY DEF ScansOn
<1> HIDE DEF r
<1>5. Moved("listener") /\ L' = r
  BY <1>1, <1>3, <1>4, SetsMoves
<1> QED
  BY <1>3, <1>5, SlotFacts

(* The end of the server.                                                  *)
LEMMA FallsFacts ==
  ASSUME TypeOK, NEW why \in Causes, Falls(why)
  PROVE  /\ TypeOK' /\ \A t \in Threads : th'[t] = Rest
         /\ \A i \in Slots : name'[i] = NoName /\ addr'[i] = NoClient
         /\ \A f \in Families : to_server'[f] = <<>>
         /\ \A c \in Clients : to_client'[c] = <<>>
         /\ client_count' = 0 /\ evicted' = {} /\ UNCHANGED <<overlapped, cpc, my_name>>
<1>1. /\ \A t \in Threads : th'[t] = Rest
      /\ \A i \in Slots : name'[i] = NoName /\ addr'[i] = NoClient
      /\ \A f \in Families : to_server'[f] = <<>>
      /\ \A c \in Clients : to_client'[c] = <<>>
      /\ client_count' = 0 /\ evicted' = {} /\ UNCHANGED <<overlapped, cpc, my_name>>
  BY DEF Falls, clientVars
<1>2. OthersTyped'
  <2>1. op_id' \in 0..Requests /\ fate' \in Causes /\ evicted' \subseteq Names \cup {NoName}
    BY DatagramAssumption DEF Falls
  <2>2. responsive' \in [Slots -> BOOLEAN]
    BY ZenonT(30) DEF Falls
  <2>3. to_server' \in [Families -> Seq(Messages)] /\ to_client' \in [Clients -> Seq(Answers)]
    <3>1. <<>> \in Seq(Messages) /\ <<>> \in Seq(Answers)
      BY EmptySeq
    <3> QED
      BY <3>1 DEF Falls
  <2>4. cpc' \in [Clients -> ClientPcs]
    BY <1>1, Typed DEF PartsTyped, OthersTyped
  <2> QED
    BY <2>1, <2>2, <2>3, <2>4 DEF OthersTyped
<1>3. /\ name' \in [Slots -> Names \cup {NoName}] /\ addr' \in [Slots -> Clients \cup {NoClient}]
      /\ client_count' \in Int /\ overlapped' \in BOOLEAN
      /\ th' \in [Threads -> Locals] /\ my_name' \in [Clients -> Names]
  BY <1>1, Typed, RestTyped DEF Falls, PartsTyped
<1> QED
  BY <1>1, <1>2, <1>3, MakeTyped DEF PartsTyped

LEMMA FallsStep ==
  ASSUME RegistryInv, NEW why \in Causes, Falls(why)
  PROVE  RegistryInv'
<1>1. /\ TypeOK' /\ \A t \in Threads : th'[t] = Rest
      /\ \A i \in Slots : name'[i] = NoName /\ addr'[i] = NoClient
      /\ client_count' = 0
  BY FallsFacts DEF RegistryInv
<1>2. QuietAtRest'
  BY RestIsQuiet, PTL
<1>3. \A t \in Threads : Shape(t)' /\ Knows(t)' /\ th'[t].pc = "rest"
  BY <1>1, <1>2, RestTyped DEF QuietAtRest
<1>4. ThreadShape' /\ Searched' /\ NamesUnique'
  BY <1>1, <1>3, ThreadNames DEF Shape, ThreadShape, NamesUnique
<1>5. Used' = {}
  BY <1>1 DEF Used
<1>6. EntriesSound'
  BY <1>3, <1>5, ThreadNames DEF EntriesSound
<1>7. CountSound'
  <2>1. Cardinality({}) = 0
    BY FS_EmptySet
  <2>2. ~Ahead' /\ \A t \in Changers : th'[t].pc = "rest"
    BY <1>3, ThreadNames DEF Ahead
  <2> QED
    BY <1>1, <1>5, <2>1, <2>2 DEF CountSound
<1>8. RemovalSound' /\ RoomAhead'
  BY <1>3, ThreadNames DEF Knows, RemovalSound
<1> QED
  BY <1>1, <1>4, <1>6, <1>7, <1>8 DEF RegistryInv

(* A message to a client: it may end the server.                           *)
LEMMA SendMoves ==
  ASSUME TypeOK, NEW c \in Clients \cup {NoClient}, NEW type \in Answers,
         NEW ACTION goesOn, SendTo(c, type, goesOn)
  PROVE  \/ c = NoClient /\ Falls("unaddressed")
         \/ c \in Local /\ cpc[c] \in Gone /\ Falls("refused")
         \/ /\ c \in Clients /\ goesOn /\ Noted
            /\ UNCHANGED <<name, addr, responsive, client_count, op_id, fate, evicted, to_server,
                           cpc, my_name>>
            /\ \/ to_client' = [to_client EXCEPT ![c] = Append(@, type)]
               \/ UNCHANGED to_client
<1>1. ASSUME cpc[c] \in Gone, to_client' = [to_client EXCEPT ![c] = to_client[c]], c \in Clients
      PROVE  to_client' = to_client
  BY <1>1, Typed DEF PartsTyped, OthersTyped
<1> QED
  BY <1>1 DEF SendTo, registry, clientVars

LEMMA SendStep ==
  ASSUME RegistryInv, NEW t \in Threads, NEW c \in Clients \cup {NoClient}, NEW type \in Answers,
         NEW ACTION goesOn, SendTo(c, type, goesOn),
         goesOn => /\ Moved(t) /\ Shape(t)' /\ Knows(t)'
                   /\ t \in Changers => SamePhase(t)
  PROVE  RegistryInv'
<1>1. TypeOK
  BY DEF RegistryInv
<1>2. CASE Falls("unaddressed") \/ Falls("refused")
  BY <1>2, FallsStep DEF Causes
<1>3. CASE /\ c \in Clients /\ goesOn /\ Noted
           /\ UNCHANGED <<name, addr, responsive, client_count, op_id, fate, evicted, to_server,
                          cpc, my_name>>
           /\ \/ to_client' = [to_client EXCEPT ![c] = Append(@, type)]
              \/ UNCHANGED to_client
  <2>1. to_client \in [Clients -> Seq(Answers)]
    BY <1>1, Typed DEF PartsTyped, OthersTyped
  <2>2. \A d \in Clients : Append(to_client[d], type) \in Seq(Answers)
    BY <2>1, AppendProperties
  <2>3. to_client' \in [Clients -> Seq(Answers)]
    BY <1>3, <2>1, <2>2
  <2>4. OthersTyped'
    BY <1>1, <1>3, <2>3, Typed DEF PartsTyped, OthersTyped
  <2>5. overlapped' \in BOOLEAN /\ (Clean' => Clean)
    BY <1>3, NotedClean
  <2> QED
    BY <1>3, <2>4, <2>5, QuietStep
<1> QED
  BY <1>1, <1>2, <1>3, SendMoves
-----------------------------------------------------------------------------
(* A message taken out of a sequence.                                      *)
LEMMA RemoveAtFacts ==
  ASSUME NEW S, NEW s \in Seq(S), NEW k \in 1..Len(s)
  PROVE  /\ RemoveAt(s, k) \in Seq(S) /\ Len(RemoveAt(s, k)) = Len(s) - 1
         /\ \A j \in 1..(Len(s) - 1) : RemoveAt(s, k)[j] = s[IF j < k THEN j ELSE j + 1]
<1> DEFINE a == SubSeq(s, 1, k - 1)
           b == SubSeq(s, k + 1, Len(s))
<1>1. Len(s) \in Nat /\ k \in Nat /\ \A i \in 1..Len(s) : s[i] \in S
  BY LenProperties, ElementOfSeq
<1>2. /\ a \in Seq(S) /\ Len(a) = k - 1
      /\ \A i \in 1..(k - 1) : a[i] = s[i]
  <2>1. \A i \in 1..(k - 1) : s[i] \in S
    BY <1>1
  <2>2. /\ a \in Seq(S) /\ Len(a) = IF 1 <= k - 1 THEN (k - 1) - 1 + 1 ELSE 0
        /\ \A i \in 1..((k - 1) - 1 + 1) : a[i] = s[1 + i - 1]
    BY <1>1, <2>1, SubSeqProperties
  <2>3. Len(a) = k - 1
    BY <1>1, <2>2
  <2> QED
    BY <1>1, <2>2, <2>3
<1>3. /\ b \in Seq(S) /\ Len(b) = Len(s) - k
      /\ \A i \in 1..(Len(s) - k) : b[i] = s[k + i]
  <2>1. \A i \in (k + 1)..Len(s) : s[i] \in S
    BY <1>1
  <2>2. /\ b \in Seq(S) /\ Len(b) = IF k + 1 <= Len(s) THEN Len(s) - (k + 1) + 1 ELSE 0
        /\ \A i \in 1..(Len(s) - (k + 1) + 1) : b[i] = s[(k + 1) + i - 1]
    BY <1>1, <2>1, SubSeqProperties
  <2>3. Len(b) = Len(s) - k
    BY <1>1, <2>2
  <2>4. ASSUME NEW i \in 1..(Len(s) - k) PROVE b[i] = s[k + i]
    <3>1. i \in 1..(Len(s) - (k + 1) + 1) /\ (k + 1) + i - 1 = k + i
      BY <1>1
    <3> QED
      BY <2>2, <3>1
  <2> QED
    BY <2>2, <2>3, <2>4
<1>4. RemoveAt(s, k) = a \o b
  BY DEF RemoveAt
<1> HIDE DEF a, b
<1>5. /\ a \o b \in Seq(S) /\ Len(a \o b) = Len(a) + Len(b)
      /\ \A i \in 1..(Len(a) + Len(b)) : (a \o b)[i] = IF i <= Len(a) THEN a[i] ELSE b[i - Len(a)]
  BY <1>2, <1>3, ConcatProperties
<1>6. Len(a) + Len(b) = Len(s) - 1
  BY <1>1, <1>2, <1>3
<1>7. ASSUME NEW j \in 1..(Len(s) - 1)
      PROVE  (a \o b)[j] = s[IF j < k THEN j ELSE j + 1]
  <2>1. (a \o b)[j] = IF j <= k - 1 THEN a[j] ELSE b[j - (k - 1)]
    BY <1>2, <1>5, <1>6
  <2>2. CASE j < k
    BY <1>1, <1>2, <2>1, <2>2
  <2>3. CASE ~(j < k)
    <3>1. j - (k - 1) \in 1..(Len(s) - k) /\ k + (j - (k - 1)) = j + 1
      BY <1>1, <2>3
    <3>2. b[j - (k - 1)] = s[k + (j - (k - 1))]
      BY <1>3, <3>1
    <3> QED
      BY <1>1, <2>1, <2>3, <3>1, <3>2
  <2> QED
    BY <2>2, <2>3
<1> QED
  BY <1>4, <1>5, <1>6, <1>7

LEMMA UsedFinite ==
    /\ IsFiniteSet(Used) /\ Cardinality(Used) \in Nat
    /\ \A i \in Slots : i \notin Used => /\ IsFiniteSet(Used \cup {i})
                                       /\ Cardinality(Used \cup {i}) = Cardinality(Used) + 1
    /\ \A i \in Used : Cardinality(Used \ {i}) = Cardinality(Used) - 1
<1>1. IsFiniteSet(Slots)
  BY SlotFacts, FS_Interval DEF Slots
<1>2. Used \subseteq Slots
  BY DEF Used
<1>3. IsFiniteSet(Used)
  BY <1>1, <1>2, FS_Subset
<1> QED
  BY <1>3, FS_CardinalityType, FS_AddElement, FS_RemoveElement

(* If there are fewer entries than slots, a slot is free.                  *)
LEMMA FreeSlot ==
  ASSUME Cardinality(Used) < MaxClients
  PROVE  \E j \in Slots : name[j] = NoName
<1>1. SUFFICES ASSUME \A j \in Slots : name[j] # NoName PROVE FALSE
  OBVIOUS
<1>2. Used = Slots
  BY <1>1 DEF Used
<1>3. Cardinality(0..(MaxClients - 1)) = MaxClients
  <2>1. 0 \in Int /\ MaxClients - 1 \in Int /\ ~(0 > MaxClients - 1) /\ (MaxClients - 1) - 0 + 1 = MaxClients
    BY SlotFacts
  <2> QED
    BY <2>1, FS_Interval
<1> QED
  BY <1>2, <1>3, SlotFacts DEF Slots

(* The listener's steps.                                                   *)
(* Message k of a socket is handed to its handler.                         *)
Received(f, k) ==
    /\ to_server' = [to_server EXCEPT ![f] = RemoveAt(@, k)]
    /\ to_server[f][k] \in Messages
    /\ Moved("listener") /\ L'.at = 0 /\ L'.avail = -1 /\ L'.own = -1
    /\ to_server[f][k].type = "RESULT" => L' = L
    /\ to_server[f][k].type # "RESULT" =>
           L'.from = to_server[f][k].from /\ L'.arg = my_name[L'.from]
    /\ to_server[f][k].type = "REGISTER" => L'.pc = "full"
    /\ to_server[f][k].type = "UNREGISTER" => L'.pc = "match"
    /\ to_server[f][k].type = "PING" => L'.pc = "match_ping"

LEMMA ReceiveMoves ==
  ASSUME TypeOK, ListenerShape, NEW f \in Families, Receive(f)
  PROVE  /\ L.pc = "rest" /\ Noted
         /\ UNCHANGED <<name, addr, responsive, client_count, op_id, fate, evicted, to_client, cpc,
                        my_name>>
         /\ \E k \in 1..Len(to_server[f]) : Received(f, k)
<1>1. /\ L.pc = "rest" /\ L.at = 0 /\ L.avail = -1 /\ L.own = -1
      /\ L \in Locals /\ "listener" \in Threads /\ th \in [Threads -> Locals]
      /\ to_server[f] \in Seq(Messages) /\ my_name \in [Clients -> Names]
  BY Typed, ThreadNames DEF Receive, ListenerAt, At, ListenerShape, PartsTyped, OthersTyped
<1> DEFINE handler(m) == CASE m.type = "REGISTER" -> "full"
                           [] m.type = "UNREGISTER" -> "match"
                           [] m.type = "PING" -> "match_ping"
                           [] m.type = "RESULT" -> "rest"
<1>2. PICK k \in 1..Len(to_server[f]) :
          /\ to_server' = [to_server EXCEPT ![f] = RemoveAt(@, k)]
          /\ IF handler(to_server[f][k]) = "rest" THEN UNCHANGED th
             ELSE th' = [th EXCEPT !["listener"].pc = handler(to_server[f][k]),
                                   !["listener"].arg = my_name[to_server[f][k].from],
                                   !["listener"].from = to_server[f][k].from]
  BY DEF Receive
<1>3. PICK m \in Messages : m = to_server[f][k]
  BY <1>1, ElementOfSeq
<1>4. m.type \in {"REGISTER", "UNREGISTER", "PING", "RESULT"} /\ m.from \in Clients /\ my_name[m.from] \in Names
  BY <1>1, <1>3 DEF Messages
<1>5. ASSUME m.type = "RESULT" PROVE Received(f, k)
  <2>1. th' = th
    BY <1>2, <1>3, <1>5
  <2>2. Moved("listener") /\ L' = L
    BY <1>1, <2>1, Typed DEF Moved
  <2> HIDE DEF handler
  <2> QED
    BY <1>1, <1>2, <1>3, <1>5, <2>2 DEF Received
<1>6. ASSUME m.type # "RESULT" PROVE Received(f, k)
  <2> DEFINE r == [L EXCEPT !.pc = handler(m), !.arg = my_name[m.from], !.from = m.from]
  <2>1. /\ handler(m) \in Pcs /\ handler(m) # "rest"
        /\ m.type = "REGISTER" => handler(m) = "full"
        /\ m.type = "UNREGISTER" => handler(m) = "match"
        /\ m.type = "PING" => handler(m) = "match_ping"
    BY <1>4, <1>6 DEF Pcs
  <2>2. th' = [th EXCEPT !["listener"] = r]
    BY <1>2, <1>3, <2>1
  <2> HIDE DEF handler
  <2>3. /\ r \in Locals /\ r.pc = handler(m) /\ r.arg = my_name[m.from] /\ r.from = m.from
        /\ r.at = 0 /\ r.avail = -1 /\ r.own = -1
    BY <1>1, <1>4, <2>1 DEF Locals
  <2> HIDE DEF r
  <2>4. Moved("listener") /\ L' = r
    BY <1>1, <2>2, <2>3, SetsMoves
  <2> QED
    BY <1>2, <1>3, <1>6, <2>1, <2>3, <2>4 DEF Received
<1>7. /\ Noted
      /\ UNCHANGED <<name, addr, responsive, client_count, op_id, fate, evicted, to_client, cpc,
                     my_name>>
  BY DEF Receive, registry, clientVars
<1> QED
  BY <1>1, <1>5, <1>6, <1>7

LEMMA ReceiveStep == ASSUME RegistryInv, NEW f \in Families, Receive(f) PROVE RegistryInv'
<1>1. /\ TypeOK /\ ListenerShape /\ Searched /\ "listener" \in Threads
      /\ to_server \in [Families -> Seq(Messages)]
  BY Typed, ThreadNames DEF RegistryInv, ThreadShape, PartsTyped, OthersTyped
<1>2. PICK k \in 1..Len(to_server[f]) : Received(f, k)
  BY <1>1, ReceiveMoves
<1>3. /\ L.pc = "rest" /\ Noted
      /\ UNCHANGED <<name, addr, responsive, client_count, op_id, fate, evicted, to_client, cpc,
                     my_name>>
  BY <1>1, ReceiveMoves
<1>4. to_server[f][k].type \in {"REGISTER", "UNREGISTER", "PING", "RESULT"} /\ to_server[f][k].from \in Clients
  BY <1>2 DEF Received, Messages
<1>5. L'.pc \in {"rest", "full", "match", "match_ping"}
  BY <1>2, <1>3, <1>4 DEF Received
<1>6. OthersTyped'
  <2>1. RemoveAt(to_server[f], k) \in Seq(Messages)
    BY <1>1, RemoveAtFacts
  <2>2. to_server' \in [Families -> Seq(Messages)]
    BY <1>1, <1>2, <2>1 DEF Received
  <2> QED
    BY <1>1, <1>3, <2>2, Typed DEF PartsTyped, OthersTyped
<1>7. overlapped' \in BOOLEAN /\ (Clean' => Clean)
  BY <1>3, NotedClean
<1>8. Shape("listener")'
  <2>1. L'.pc # "rest" => L'.from \in Clients /\ L'.arg = my_name[L'.from]
    BY <1>2, <1>3, <1>4 DEF Received
  <2> QED
    BY <1>2, <1>3, <1>5, <2>1
       DEF Received, Shape, ListenerShape, ListenerPcs, Filling, Searched
<1>9. SamePhase("listener") /\ Knows("listener")'
  BY <1>2, <1>3, <1>5, SlotFacts DEF Received, SamePhase, Settled, Knows, RemovalKnown, RoomAhead
<1> QED
  BY <1>1, <1>2, <1>3, <1>6, <1>7, <1>8, <1>9, QuietStep DEF Received

LEMMA RefuseFullStep == RegistryInv /\ RefuseFull => RegistryInv'
<1> SUFFICES ASSUME RegistryInv, RefuseFull PROVE RegistryInv'
  OBVIOUS
<1>1. Quiet /\ UNCHANGED registry /\ L.pc = "full"
  BY DEF RefuseFull, ListenerAt, At
<1>2. /\ TypeOK /\ UNCHANGED <<name, addr, client_count>> /\ responsive' \in [Slots -> BOOLEAN]
      /\ "listener" \in Threads /\ L \in Locals /\ ListenerShape /\ Searched /\ (Clean' => Clean)
  BY <1>1, QuietFacts
<1>3. L.from \in Clients /\ L.arg = my_name[L.from] /\ L.at = 0 /\ L.avail = -1 /\ L.own = -1
      /\ my_name' = my_name
  BY <1>1, <1>2 DEF ListenerShape, Quiet, clientVars
<1>4. CASE Rests("listener")
  <2>1. /\ Moved("listener") /\ Settled("listener")' /\ Shape("listener")' /\ Knows("listener")'
    BY <1>2, <1>4, RestsQuietly
  <2>2. SamePhase("listener")
    BY <1>1, <2>1 DEF SamePhase, Settled
  <2> QED
    BY <1>1, <1>2, <2>1, <2>2, LocalStep
<1>5. CASE client_count < MaxClients /\ Goes("listener", "scan")
  <2>1. /\ Moved("listener") /\ L'.pc = "scan" /\ L'.at = L.at /\ L'.arg = L.arg
        /\ L'.own = L.own /\ L'.from = L.from /\ L'.avail = L.avail
    BY <1>2, <1>5, GoesMoves DEF Pcs
  <2>2. SamePhase("listener")
    BY <1>1, <2>1 DEF SamePhase, Settled
  <2>3. Shape("listener")'
    BY <1>2, <1>3, <2>1, SlotFacts DEF Shape, ListenerShape, ListenerPcs, Filling, Searched
  <2>4. Clean => \E j \in Slots : name[j] = NoName
    <3> SUFFICES ASSUME Clean PROVE Cardinality(Used) < MaxClients
      BY FreeSlot
    <3>1. client_count = Cardinality(Used) + (IF Ahead THEN 1 ELSE 0)
      BY DEF RegistryInv, CountSound
    <3> DEFINE n == Cardinality(Used)
    <3>2. n \in Nat /\ client_count = n + (IF Ahead THEN 1 ELSE 0)
      BY <3>1, UsedFinite
    <3> HIDE DEF n
    <3>3. n < MaxClients
      BY <1>5, <3>2, SlotFacts
    <3> QED
      BY <3>3 DEF n
  <2>5. Clean' => Knows("listener")'
    BY <1>2, <1>3, <2>1, <2>4, SlotFacts DEF Knows, RemovalKnown, RoomAhead
  <2> QED
    BY <1>1, <1>2, <2>1, <2>2, <2>3, <2>5, LocalStep
<1> QED
  <2>1. client_count \in Int /\ MaxClients \in Nat
    BY <1>2, SlotFacts, Typed DEF PartsTyped
  <2> QED
    BY <1>4, <1>5, <2>1 DEF RefuseFull

LEMMA ScanStep == RegistryInv /\ Scan => RegistryInv'
<1> SUFFICES ASSUME RegistryInv, Scan PROVE RegistryInv'
  OBVIOUS
<1>1. Quiet /\ UNCHANGED registry /\ L.pc = "scan"
  BY DEF Scan, ListenerAt, At
<1>2. /\ TypeOK /\ UNCHANGED <<name, addr, client_count>> /\ responsive' \in [Slots -> BOOLEAN]
      /\ "listener" \in Threads /\ L \in Locals /\ ListenerShape /\ Searched /\ (Clean' => Clean)
  BY <1>1, QuietFacts
<1>3. /\ L.from \in Clients /\ L.arg = my_name[L.from] /\ L.own = -1 /\ L.at \in Slots
      /\ L.avail \in Slots \cup {-1} /\ my_name' = my_name
      /\ \A j \in Slots : j < L.at /\ j # L.avail => name[j] # L.arg
      /\ L.avail \in Slots => name[L.avail] = NoName
  BY <1>1, <1>2 DEF ListenerShape, Searched, Locals, Quiet, clientVars
<1>4. CASE L.avail = -1 /\ name[L.at] = NoName /\ ScansOn(L.at + 1, L.at)
  <2>1. L.at + 1 \in Nat /\ L.at + 1 <= MaxClients
    BY <1>3, SlotFacts
  <2>2. /\ Moved("listener") /\ L'.arg = L.arg /\ L'.own = L.own /\ L'.from = L.from /\ L'.avail = L.at
        /\ \/ L.at + 1 < MaxClients /\ L'.pc = "scan" /\ L'.at = L.at + 1
           \/ L.at + 1 = MaxClients /\ L'.pc = "inc"
    BY <1>2, <1>3, <1>4, <2>1, ScansOnMoves
  <2>3. SamePhase("listener")
    BY <1>1, <2>2 DEF SamePhase, Settled
  <2>4. \A j \in Slots : j < L.at + 1 /\ j # L.at => name[j] # L.arg
    BY <1>3, <1>4, SlotFacts
  <2>5. Shape("listener")'
    BY <1>2, <1>3, <1>4, <2>2, <2>4, SlotFacts DEF Shape, ListenerShape, ListenerPcs, Filling, Searched
  <2>6. Knows("listener")'
    BY <1>3, <2>2, SlotFacts DEF Knows, RemovalKnown, RoomAhead
  <2> QED
    BY <1>1, <1>2, <2>2, <2>3, <2>5, <2>6, LocalStep
<1>5. CASE ~(L.avail = -1 /\ name[L.at] = NoName) /\ Goes("listener", "compare")
  <2>1. /\ Moved("listener") /\ L'.pc = "compare" /\ L'.at = L.at /\ L'.arg = L.arg
        /\ L'.own = L.own /\ L'.from = L.from /\ L'.avail = L.avail
    BY <1>2, <1>5, GoesMoves DEF Pcs
  <2>2. SamePhase("listener")
    BY <1>1, <2>1 DEF SamePhase, Settled
  <2>3. Shape("listener")'
    BY <1>2, <1>3, <2>1, SlotFacts DEF Shape, ListenerShape, ListenerPcs, Filling, Searched
  <2>4. Clean /\ L.avail = -1 => \E j \in Slots : j > L.at /\ name[j] = NoName
    <3> SUFFICES ASSUME Clean, L.avail = -1 PROVE \E j \in Slots : j > L.at /\ name[j] = NoName
      OBVIOUS
    <3>1. PICK j \in Slots : j >= L.at /\ name[j] = NoName
      BY <1>1 DEF RegistryInv, RoomAhead
    <3>2. j # L.at
      BY <1>5, <3>1
    <3>3. j > L.at
      BY <1>3, <3>1, <3>2, SlotFacts
    <3> QED
      BY <3>1, <3>3
  <2>5. Clean' => Knows("listener")'
    BY <1>2, <2>1, <2>4 DEF Knows, RemovalKnown, RoomAhead
  <2> QED
    BY <1>1, <1>2, <2>1, <2>2, <2>3, <2>5, LocalStep
<1> QED
  BY <1>4, <1>5 DEF Scan

(* Compare, unless it ends the server.                                     *)
LEMMA CompareStep == RegistryInv /\ Compare => RegistryInv'
<1> SUFFICES ASSUME RegistryInv, Compare PROVE RegistryInv'
  OBVIOUS
<1>1. L.pc = "compare"
  BY DEF Compare, ListenerAt, At
<1>2. CASE name[L.at] # L.arg /\ L.at + 1 = MaxClients /\ L.avail = -1
  BY <1>2, FallsStep DEF Compare, Causes
<1>3. CASE ~(name[L.at] # L.arg /\ L.at + 1 = MaxClients /\ L.avail = -1)
  <2>1. /\ Quiet /\ UNCHANGED registry
        /\ IF name[L.at] = L.arg THEN Goes("listener", "refuse") ELSE ScansOn(L.at + 1, L.avail)
    BY <1>3 DEF Compare
  <2>2. /\ TypeOK /\ UNCHANGED <<name, addr, client_count>> /\ responsive' \in [Slots -> BOOLEAN]
        /\ "listener" \in Threads /\ L \in Locals /\ ListenerShape /\ Searched /\ (Clean' => Clean)
    BY <2>1, QuietFacts
  <2>3. /\ L.from \in Clients /\ L.arg = my_name[L.from] /\ L.own = -1 /\ L.at \in Slots
        /\ L.avail \in Slots \cup {-1} /\ my_name' = my_name
        /\ \A j \in Slots : j < L.at /\ j # L.avail => name[j] # L.arg
        /\ L.avail \in Slots => name[L.avail] = NoName
    BY <1>1, <2>1, <2>2 DEF ListenerShape, Searched, Locals, Quiet, clientVars
  <2>4. CASE name[L.at] = L.arg
    <3>1. /\ Moved("listener") /\ L'.pc = "refuse" /\ L'.arg = L.arg /\ L'.from = L.from /\ L'.own = L.own
      BY <2>1, <2>2, <2>4, GoesMoves DEF Pcs
    <3>2. SamePhase("listener")
      BY <1>1, <3>1 DEF SamePhase, Settled
    <3>3. Shape("listener")'
      BY <2>3, <3>1 DEF Shape, ListenerShape, ListenerPcs, Filling, Searched
    <3>4. Knows("listener")'
      BY <3>1 DEF Knows, RemovalKnown, RoomAhead
    <3> QED
      BY <2>1, <2>2, <3>1, <3>2, <3>3, <3>4, LocalStep
  <2>5. CASE name[L.at] # L.arg
    <3>1. L.at + 1 \in Nat /\ L.at + 1 <= MaxClients
      BY <2>3, SlotFacts
    <3>2. /\ Moved("listener") /\ L'.arg = L.arg /\ L'.own = L.own /\ L'.from = L.from
          /\ L'.avail = L.avail
          /\ \/ L.at + 1 < MaxClients /\ L'.pc = "scan" /\ L'.at = L.at + 1
             \/ L.at + 1 = MaxClients /\ L'.pc = "inc"
      BY <2>1, <2>2, <2>3, <2>5, <3>1, ScansOnMoves
    <3>3. SamePhase("listener")
      BY <1>1, <3>2 DEF SamePhase, Settled
    <3>4. \A j \in Slots : j < L.at + 1 /\ j # L.avail => name[j] # L.arg
      BY <2>3, <2>5, SlotFacts
    <3>5. L.at + 1 = MaxClients => L.avail \in Slots
      BY <1>3, <2>3, <2>5
    <3>6. Shape("listener")'
      BY <2>2, <2>3, <3>2, <3>4, <3>5, SlotFacts
         DEF Shape, ListenerShape, ListenerPcs, Filling, Searched
    <3>7. Clean /\ L.avail = -1 => \E j \in Slots : j >= L.at + 1 /\ name[j] = NoName
      <4> SUFFICES ASSUME Clean, L.avail = -1 PROVE \E j \in Slots : j >= L.at + 1 /\ name[j] = NoName
        OBVIOUS
      <4>1. PICK j \in Slots : j > L.at /\ name[j] = NoName
        BY <1>1 DEF RegistryInv, RoomAhead
      <4>2. j >= L.at + 1
        BY <2>3, <4>1, SlotFacts
      <4> QED
        BY <4>1, <4>2
    <3>8. Clean' => Knows("listener")'
      BY <2>2, <3>2, <3>7 DEF Knows, RemovalKnown, RoomAhead
    <3> QED
      BY <2>1, <2>2, <3>2, <3>3, <3>6, <3>8, LocalStep
  <2> QED
    BY <2>4, <2>5
<1> QED
  BY <1>2, <1>3

LEMMA ListenerAnswersStep == RegistryInv /\ (Refuse \/ Acknowledge) => RegistryInv'
<1> SUFFICES ASSUME RegistryInv, Refuse \/ Acknowledge PROVE RegistryInv'
  OBVIOUS
<1>1. TypeOK /\ "listener" \in Threads /\ L.pc \in {"refuse", "ack"} /\ L.from \in Clients
  BY ThreadNames DEF RegistryInv, ThreadShape, ListenerShape, Refuse, Acknowledge, ListenerAt, At
<1>2. PICK type \in Answers : SendTo(L.from, type, Rests("listener"))
  BY DEF Refuse, Acknowledge, Answers
<1>3. Rests("listener") =>
          Moved("listener") /\ Settled("listener")' /\ Shape("listener")' /\ Knows("listener")'
  BY <1>1, RestsQuietly
<1>4. Rests("listener") => SamePhase("listener")
  BY <1>1, <1>3 DEF SamePhase, Settled
<1> QED
  BY <1>1, <1>2, <1>3, <1>4, SendStep

LEMMA SetResponsiveStep == RegistryInv /\ SetResponsive => RegistryInv'
<1> SUFFICES ASSUME RegistryInv, SetResponsive PROVE RegistryInv'
  OBVIOUS
<1>1. /\ Quiet /\ UNCHANGED <<name, addr, client_count>> /\ L.pc = "set_responsive"
      /\ TypeOK /\ "listener" \in Threads /\ Goes("listener", "ack")
      /\ responsive' \in [Slots -> BOOLEAN] /\ my_name' = my_name
  BY ThreadNames DEF RegistryInv, TypeOK, SetResponsive, ListenerAt, At, Quiet, clientVars
<1>2. L.from \in Clients /\ L.arg = my_name[L.from] /\ L.own = -1
  BY <1>1 DEF RegistryInv, ThreadShape, ListenerShape
<1>3. Moved("listener") /\ L'.pc = "ack" /\ L'.from = L.from /\ L'.arg = L.arg /\ L'.own = L.own
  BY <1>1, GoesMoves DEF Pcs
<1>4. SamePhase("listener") /\ Knows("listener")'
  BY <1>1, <1>3 DEF SamePhase, Settled, Knows, RemovalKnown, RoomAhead
<1>5. Shape("listener")'
  BY <1>1, <1>2, <1>3 DEF Shape, ListenerShape, ListenerPcs, Filling, Searched
<1> QED
  BY <1>1, <1>3, <1>4, <1>5, LocalStep

LEMMA MatchPingStep == RegistryInv /\ MatchPing => RegistryInv'
<1> SUFFICES ASSUME RegistryInv, MatchPing PROVE RegistryInv'
  OBVIOUS
<1>1. L.pc = "match_ping" /\ TypeOK /\ "listener" \in Threads
  BY ThreadNames DEF MatchPing, ListenerAt, At, RegistryInv
<1>2. CASE Falls("late")
  BY <1>2, FallsStep DEF Causes
<1>3. CASE Quiet /\ UNCHANGED registry /\ (Goes("listener", "answered") \/ SearchesOn("listener", FALSE))
  <2>1. /\ UNCHANGED <<name, addr, client_count>> /\ responsive' \in [Slots -> BOOLEAN]
        /\ ListenerShape /\ my_name' = my_name
    BY <1>3, QuietFacts DEF Quiet, clientVars
  <2>2. /\ Moved("listener") /\ L'.pc \in {"match_ping", "answered"}
        /\ L'.from = L.from /\ L'.arg = L.arg /\ L'.own = L.own
    BY <1>1, <1>3, GoesMoves, SearchMoves DEF Pcs
  <2>3. SamePhase("listener") /\ Knows("listener")'
    BY <1>1, <2>2 DEF SamePhase, Settled, Knows, RemovalKnown, RoomAhead
  <2>4. Shape("listener")'
    BY <1>1, <2>1, <2>2 DEF Shape, ListenerShape, ListenerPcs, Filling, Searched
  <2> QED
    BY <1>1, <1>3, <2>1, <2>2, <2>3, <2>4, LocalStep
<1> QED
  BY <1>2, <1>3 DEF MatchPing

LEMMA AnsweredStep == RegistryInv /\ Answered => RegistryInv'
<1> SUFFICES ASSUME RegistryInv, Answered PROVE RegistryInv'
  OBVIOUS
<1>1. /\ Quiet /\ UNCHANGED <<name, addr, client_count>> /\ L.pc = "answered"
      /\ TypeOK /\ "listener" \in Threads /\ Rests("listener")
      /\ responsive' \in [Slots -> BOOLEAN]
  BY ThreadNames DEF RegistryInv, TypeOK, Answered, ListenerAt, At
<1>2. /\ Moved("listener") /\ Settled("listener")' /\ Shape("listener")' /\ Knows("listener")'
  BY <1>1, RestsQuietly
<1>3. SamePhase("listener")
  BY <1>1, <1>2 DEF SamePhase, Settled
<1> QED
  BY <1>1, <1>2, <1>3, LocalStep

(* The load of ++client_count or --client_count.                           *)
LEMMA LoadCountMoves ==
  ASSUME TypeOK, NEW t \in Changers, NEW from, NEW to \in Pcs, LoadCount(t, from, to)
  PROVE  /\ th[t].pc = from /\ Quiet /\ UNCHANGED registry
         /\ Moved(t) /\ th'[t].pc = to /\ th'[t].reg = client_count /\ th'[t].from = th[t].from
         /\ th'[t].arg = th[t].arg /\ th'[t].avail = th[t].avail /\ th'[t].own = th[t].own
<1>1. t \in Threads /\ th[t] \in Locals /\ client_count \in Int
  BY Typed, ThreadNames DEF PartsTyped
<1> DEFINE r == [th[t] EXCEPT !.pc = to, !.reg = client_count]
<1>2. /\ r \in Locals /\ r.pc = to /\ r.reg = client_count /\ r.from = th[t].from
      /\ r.arg = th[t].arg /\ r.avail = th[t].avail /\ r.own = th[t].own
  BY <1>1 DEF Locals
<1>3. th' = [th EXCEPT ![t] = r]
  BY DEF LoadCount
<1> HIDE DEF r
<1>4. Moved(t) /\ th'[t] = r
  BY <1>1, <1>2, <1>3, SetsMoves
<1> QED
  BY <1>2, <1>4 DEF LoadCount, At

LEMMA LoadCountStep ==
  ASSUME RegistryInv, NEW t \in Changers, NEW from, NEW to, LoadCount(t, from, to),
         \/ t = "listener" /\ from = "inc" /\ to = "inc_store"
         \/ from = "dec" /\ to = "dec_store"
  PROVE  RegistryInv'
<1>1. TypeOK /\ to \in Pcs
  BY DEF RegistryInv, Pcs
<1>2. /\ th[t].pc = from /\ Quiet /\ UNCHANGED registry
      /\ Moved(t) /\ th'[t].pc = to /\ th'[t].reg = client_count /\ th'[t].from = th[t].from
      /\ th'[t].arg = th[t].arg /\ th'[t].avail = th[t].avail /\ th'[t].own = th[t].own
  BY <1>1, LoadCountMoves
<1>3. /\ UNCHANGED <<name, addr, client_count>> /\ responsive' \in [Slots -> BOOLEAN]
      /\ t \in Threads /\ ListenerShape /\ MonitorShape /\ Searched /\ my_name' = my_name
  BY <1>2, QuietFacts, ThreadNames DEF Quiet, clientVars
<1>4. SamePhase(t) /\ Knows(t)'
  BY <1>2 DEF SamePhase, Settled, Knows, RemovalKnown, RoomAhead
<1>5. Shape(t)'
  BY <1>2, <1>3, ThreadNames
     DEF Shape, ListenerShape, ListenerPcs, Filling, Searched, MonitorShape, MonitorPcs
<1> QED
  BY <1>2, <1>3, <1>4, <1>5, LocalStep

(* handle_unregister finds an entry: what it looks for is a name.          *)
LEMMA MatchFinds ==
  ASSUME RegistryInv, Clean, NEW t \in Changers, th[t].pc = "match", name[th[t].at] = Sought(t)
  PROVE  th[t].at \in Used
<1>1. /\ RemovalKnown(t) /\ ListenerShape /\ MonitorShape /\ t \in Threads /\ th[t] \in Locals
      /\ my_name \in [Clients -> Names]
  BY Typed, ThreadNames DEF RegistryInv, RemovalSound, ThreadShape, PartsTyped
<1>2. CASE th[t].own \in Slots
  BY <1>1, <1>2 DEF RemovalKnown, Sought, Used, Locals
<1>3. CASE th[t].own \notin Slots
  <2>1. t = "listener"
    BY <1>1, <1>3, ThreadNames DEF MonitorShape
  <2>2. Sought(t) \in Names
    BY <1>1, <1>3, <2>1 DEF Sought, ListenerShape
  <2> QED
    BY <1>1, <2>2, SlotFacts DEF Used, Locals
<1> QED
  BY <1>2, <1>3

LEMMA MatchMoves ==
  ASSUME TypeOK, NEW t \in Changers, t = "monitor" => th[t].own \in Slots, Match(t)
  PROVE  /\ th[t].pc = "match" /\ Quiet /\ UNCHANGED registry /\ Moved(t)
         /\ \/ /\ name[th[t].at] = Sought(t)
               /\ th'[t].pc = "zero_name" /\ th'[t].at = th[t].at /\ th'[t].own = th[t].own
               /\ th'[t].arg = th[t].arg /\ th'[t].from = th[t].from
            \/ /\ th'[t].pc = "match" /\ th'[t].own = th[t].own
               /\ th'[t].arg = th[t].arg /\ th'[t].from = th[t].from
            \/ Returns(t)
<1>1. t \in Threads /\ "zero_name" \in Pcs
  BY ThreadNames DEF Pcs
<1>2. /\ th[t].pc = "match" /\ Quiet /\ UNCHANGED registry
      /\ IF name[th[t].at] = Sought(t) THEN Goes(t, "zero_name") ELSE SearchesOn(t, Returns(t))
  BY DEF Match, At
<1>3. Returns(t) => Moved(t)
  BY <1>1, ReturnsMoves
<1>4. CASE name[th[t].at] = Sought(t)
  <2>1. Goes(t, "zero_name")
    BY <1>2, <1>4
  <2> QED
    BY <1>1, <1>2, <1>4, <2>1, GoesMoves
<1>5. CASE name[th[t].at] # Sought(t)
  <2>1. SearchesOn(t, Returns(t))
    BY <1>2, <1>5
  <2> QED
    BY <1>1, <1>2, <1>3, <2>1, SearchMoves
<1> QED
  BY <1>4, <1>5

LEMMA MatchStep ==
  ASSUME RegistryInv, NEW t \in Changers, Match(t)
  PROVE  RegistryInv'
<1>1. TypeOK /\ th[t].pc = "match" /\ (t = "monitor" => th[t].own \in Slots)
  BY DEF RegistryInv, ThreadShape, MonitorShape, Match, At
<1>2. Quiet /\ UNCHANGED registry /\ Moved(t)
  BY <1>1, MatchMoves
<1>3. /\ UNCHANGED <<name, addr, client_count>> /\ responsive' \in [Slots -> BOOLEAN]
      /\ t \in Threads /\ ListenerShape /\ MonitorShape /\ (Clean' => Clean) /\ my_name' = my_name
  BY <1>2, QuietFacts, ThreadNames DEF Quiet, clientVars
<1>4. CASE /\ name[th[t].at] = Sought(t)
           /\ th'[t].pc = "zero_name" /\ th'[t].at = th[t].at /\ th'[t].own = th[t].own
           /\ th'[t].arg = th[t].arg /\ th'[t].from = th[t].from
  <2>1. Clean' => Knows(t)'
    BY <1>1, <1>3, <1>4, MatchFinds DEF Knows, RemovalKnown, RoomAhead, Used
  <2>2. SamePhase(t)
    BY <1>1, <1>4 DEF SamePhase, Settled
  <2>3. Shape(t)'
    BY <1>1, <1>3, <1>4, ThreadNames
       DEF Shape, ListenerShape, ListenerPcs, Filling, Searched, MonitorShape, MonitorPcs
  <2> QED
    BY <1>2, <1>3, <2>1, <2>2, <2>3, LocalStep
<1>5. CASE Returns(t)
  <2>1. /\ Settled(t)' /\ Shape(t)' /\ Knows(t)'
    BY <1>1, <1>5, ReturnsQuietly
  <2>2. SamePhase(t)
    BY <1>1, <2>1 DEF SamePhase, Settled
  <2> QED
    BY <1>2, <1>3, <2>1, <2>2, LocalStep
<1>6. CASE /\ th'[t].pc = "match" /\ th'[t].own = th[t].own
           /\ th'[t].arg = th[t].arg /\ th'[t].from = th[t].from
  <2>1. Clean' => Knows(t)'
    <3>1. Clean => RemovalKnown(t)
      BY DEF RegistryInv, RemovalSound
    <3> QED
      BY <1>1, <1>3, <1>6, <3>1, ThreadNames DEF Knows, RemovalKnown, RoomAhead, Used
  <2>2. SamePhase(t)
    BY <1>1, <1>6 DEF SamePhase, Settled
  <2>3. Shape(t)'
    BY <1>1, <1>3, <1>6, ThreadNames
       DEF Shape, ListenerShape, ListenerPcs, Filling, Searched, MonitorShape, MonitorPcs
  <2> QED
    BY <1>2, <1>3, <2>1, <2>2, <2>3, LocalStep
<1> QED
  BY <1>1, <1>4, <1>5, <1>6, MatchMoves

(* The monitor's steps.                                                    *)
LEMMA MonitorReturns ==
  ASSUME RegistryInv, Quiet, UNCHANGED <<name, addr, client_count>>, responsive' \in [Slots -> BOOLEAN],
         M.pc # "rest", Settled("monitor"), Returns("monitor")
  PROVE  RegistryInv'
<1>1. TypeOK /\ "monitor" \in Changers /\ "monitor" \in Threads /\ M.own \in Slots
  BY ThreadNames DEF RegistryInv, ThreadShape, MonitorShape
<1>2. Moved("monitor") /\ Settled("monitor")' /\ Shape("monitor")' /\ Knows("monitor")'
  BY <1>1, ReturnsQuietly
<1>3. SamePhase("monitor")
  BY <1>2 DEF SamePhase
<1> QED
  BY <1>1, <1>2, <1>3, LocalStep

LEMMA MonitorGoes ==
  ASSUME RegistryInv, Quiet, UNCHANGED registry, NEW p \in {"test", "ping", "match"},
         Settled("monitor"), Moved("monitor"), M'.pc = p, M'.own = M.own, M.own \in Slots,
         p # "match" => Addressed(M.own), L' = L, Clean /\ p # "ping" => M.own \in Used
  PROVE  RegistryInv'
<1>1. /\ TypeOK /\ UNCHANGED <<name, addr, client_count>> /\ responsive' \in [Slots -> BOOLEAN]
      /\ "monitor" \in Threads /\ "monitor" \in Changers /\ (Clean' => Clean)
  BY QuietFacts, ThreadNames
<1>2. Clean' => Knows("monitor")'
  BY <1>1 DEF Knows, RemovalKnown, Used
<1>3. SamePhase("monitor")
  BY DEF SamePhase, Settled
<1>4. Shape("monitor")'
  BY <1>1 DEF Shape, MonitorShape, MonitorPcs, Addressed
<1> QED
  BY <1>1, <1>2, <1>3, <1>4, LocalStep

LEMMA WakeStep == RegistryInv /\ Wake => RegistryInv'
<1> SUFFICES ASSUME RegistryInv, Wake PROVE RegistryInv'
  OBVIOUS
<1>1. Quiet /\ UNCHANGED registry /\ M.pc = "rest"
  BY DEF Wake, MonitorAt, At
<1>2. /\ TypeOK /\ UNCHANGED <<name, addr, client_count>> /\ responsive' \in [Slots -> BOOLEAN]
      /\ "monitor" \in Threads /\ M \in Locals
  BY <1>1, QuietFacts
<1> DEFINE r == [M EXCEPT !.pc = "check", !.own = 0]
<1>3. r \in Locals /\ r.pc = "check" /\ r.own = 0
  BY <1>2, SlotFacts DEF Locals, Pcs
<1>4. th' = [th EXCEPT !["monitor"] = r]
  BY DEF Wake
<1> HIDE DEF r
<1>5. Moved("monitor") /\ M' = r
  BY <1>2, <1>3, <1>4, SetsMoves
<1>6. SamePhase("monitor") /\ Knows("monitor")'
  BY <1>1, <1>3, <1>5 DEF SamePhase, Settled, Knows, RemovalKnown
<1>7. Shape("monitor")'
  BY <1>3, <1>5, SlotFacts DEF Shape, MonitorShape, MonitorPcs
<1> QED
  BY <1>1, <1>2, <1>5, <1>6, <1>7, LocalStep

LEMMA CheckStep == RegistryInv /\ Check => RegistryInv'
<1> SUFFICES ASSUME RegistryInv, Check PROVE RegistryInv'
  OBVIOUS
<1>1. Quiet /\ UNCHANGED registry /\ M.pc = "check"
  BY DEF Check, MonitorAt, At
<1>2. /\ TypeOK /\ UNCHANGED <<name, addr, client_count>> /\ responsive' \in [Slots -> BOOLEAN]
      /\ "monitor" \in Threads /\ M.own \in Slots /\ Settled("monitor")
  BY <1>1, QuietFacts DEF MonitorShape, Settled
<1>3. CASE Returns("monitor")
  BY <1>1, <1>2, <1>3, MonitorReturns
<1>4. CASE name[M.own] # NoName /\ Goes("monitor", "test")
  <2>1. Moved("monitor") /\ M'.pc = "test" /\ M'.own = M.own
    BY <1>2, <1>4, GoesMoves DEF Pcs
  <2>2. M.own \in Used
    BY <1>2, <1>4 DEF Used
  <2>3. Addressed(M.own)
    BY <2>2 DEF RegistryInv, EntriesSound, Addressed
  <2>4. L' = L
    BY <2>1, ThreadNames DEF Moved
  <2> QED
    BY <1>1, <1>2, <2>1, <2>2, <2>3, <2>4, MonitorGoes
<1> QED
  BY <1>3, <1>4 DEF Check

LEMMA TestResponsiveStep == RegistryInv /\ TestResponsive => RegistryInv'
<1> SUFFICES ASSUME RegistryInv, TestResponsive PROVE RegistryInv'
  OBVIOUS
<1>1. Quiet /\ UNCHANGED registry /\ M.pc = "test"
  BY DEF TestResponsive, MonitorAt, At
<1>2. /\ TypeOK /\ "monitor" \in Threads /\ M.own \in Slots /\ Settled("monitor")
  BY <1>1, QuietFacts DEF MonitorShape, Settled
<1>3. PICK p \in {"ping", "match"} : Goes("monitor", p)
  BY DEF TestResponsive
<1>4. Moved("monitor") /\ M'.pc = p /\ M'.own = M.own
  BY <1>2, <1>3, GoesMoves DEF Pcs
<1>5. Clean => M.own \in Used
  BY <1>1, ThreadNames DEF RegistryInv, RemovalSound, RemovalKnown
<1>6. Addressed(M.own)
  BY <1>1 DEF RegistryInv, EntriesSound
<1>7. L' = L
  BY <1>4, ThreadNames DEF Moved
<1> QED
  BY <1>1, <1>2, <1>4, <1>5, <1>6, <1>7, MonitorGoes

LEMMA SendPingStep == RegistryInv /\ SendPing => RegistryInv'
<1> SUFFICES ASSUME RegistryInv, SendPing PROVE RegistryInv'
  OBVIOUS
<1>1. TypeOK /\ "monitor" \in Threads /\ M.pc = "ping" /\ M.own \in Slots
  BY ThreadNames DEF RegistryInv, ThreadShape, MonitorShape, SendPing, MonitorAt, At
<1>2. addr[M.own] \in Clients \cup {NoClient}
  BY <1>1, Typed DEF PartsTyped
<1>3. SendTo(addr[M.own], "PING", Goes("monitor", "mark"))
  BY DEF SendPing
<1>4. Goes("monitor", "mark") => Moved("monitor") /\ M'.pc = "mark" /\ M'.own = M.own
  BY <1>1, GoesMoves DEF Pcs
<1>5. Goes("monitor", "mark") => SamePhase("monitor") /\ Shape("monitor")' /\ Knows("monitor")'
  BY <1>1, <1>4 DEF SamePhase, Settled, Shape, MonitorShape, MonitorPcs, Knows, RemovalKnown
<1>6. "PING" \in Answers
  BY DEF Answers
<1> QED
  BY <1>1, <1>2, <1>3, <1>4, <1>5, <1>6, SendStep

LEMMA MarkUnresponsiveStep == RegistryInv /\ MarkUnresponsive => RegistryInv'
<1> SUFFICES ASSUME RegistryInv, MarkUnresponsive PROVE RegistryInv'
  OBVIOUS
<1>1. /\ Quiet /\ UNCHANGED <<name, addr, client_count>> /\ M.pc = "mark"
      /\ Returns("monitor") /\ responsive' \in [Slots -> BOOLEAN]
  BY DEF RegistryInv, TypeOK, MarkUnresponsive, MonitorAt, At
<1>2. Settled("monitor")
  BY <1>1 DEF Settled
<1> QED
  BY <1>1, <1>2, MonitorReturns

(* The reader's.                                                           *)
LEMMA ReaderQuiet ==
  ASSUME RegistryInv, UNCHANGED <<name, addr, client_count, my_name>>, OthersTyped',
         overlapped' \in BOOLEAN, Clean' => Clean, Moved("reader"),
         R'.pc \in {"rest", "pick"} \/ (R'.pc = "send" /\ R'.at = R.at /\ name[R.at] # NoName)
  PROVE  RegistryInv'
<1>1. "reader" \in Threads /\ "reader" \notin Changers /\ "reader" # "listener" /\ R \in Locals
  BY ThreadNames, Typed DEF RegistryInv
<1>2. L' = L
  BY <1>1, ThreadNames DEF Moved
<1>3. R.at \in Slots
  BY <1>1 DEF Locals
<1>4. name[R.at] # NoName => Addressed(R.at)
  BY <1>3 DEF RegistryInv, EntriesSound, Used, Addressed
<1>5. Shape("reader")'
  BY <1>1, <1>2, <1>4 DEF Shape, ReaderShape, Addressed
<1>6. Knows("reader")'
  BY <1>1 DEF Knows
<1> QED
  BY <1>1, <1>5, <1>6, QuietStep

LEMMA PickMoves ==
  ASSUME TypeOK, Pick
  PROVE  /\ R.pc = "pick" /\ Quiet /\ UNCHANGED registry /\ Moved("reader")
         /\ R'.pc = "pick" \/ (R'.pc = "send" /\ R'.at = R.at /\ name[R.at] # NoName)
<1>1. /\ R.pc = "pick" /\ Quiet /\ UNCHANGED registry /\ "reader" \in Threads /\ R \in Locals
  BY Typed, ThreadNames DEF Pick, At
<1>2. CASE name[R.at] # NoName /\ Goes("reader", "send")
  BY <1>1, <1>2, GoesMoves DEF Pcs
<1>3. CASE th' = [th EXCEPT !["reader"].at = (@ + 1) % MaxClients]
  <2> DEFINE r == [R EXCEPT !.at = (R.at + 1) % MaxClients]
  <2>1. (R.at + 1) % MaxClients \in Slots
    <3>1. R.at + 1 \in Int /\ MaxClients \in Nat /\ MaxClients > 0
      BY <1>1, SlotFacts DEF Locals
    <3> DEFINE n == R.at + 1
    <3>2. n \in Int /\ MaxClients \in Nat /\ MaxClients > 0
      BY <3>1
    <3> HIDE DEF n
    <3>3. n % MaxClients \in 0..(MaxClients - 1)
      BY <3>2
    <3> QED
      BY <3>3 DEF n, Slots
  <2>2. r \in Locals /\ r.pc = "pick"
    BY <1>1, <2>1 DEF Locals, Pcs
  <2>3. th' = [th EXCEPT !["reader"] = r]
    BY <1>3
  <2> HIDE DEF r
  <2> QED
    BY <1>1, <2>2, <2>3, SetsMoves
<1> QED
  BY <1>2, <1>3 DEF Pick

LEMMA PickStep == RegistryInv /\ Pick => RegistryInv'
<1> SUFFICES ASSUME RegistryInv, Pick PROVE RegistryInv'
  OBVIOUS
<1>1. /\ TypeOK /\ Quiet /\ UNCHANGED registry /\ Moved("reader")
      /\ R'.pc = "pick" \/ (R'.pc = "send" /\ R'.at = R.at /\ name[R.at] # NoName)
  BY PickMoves DEF RegistryInv
<1>2. /\ Noted
      /\ UNCHANGED <<name, addr, responsive, client_count, op_id, fate, evicted, to_server, to_client,
                     cpc, my_name>>
  BY <1>1 DEF Quiet, registry, network, clientVars
<1>3. OthersTyped'
  BY <1>1, <1>2, Typed DEF PartsTyped, OthersTyped
<1> QED
  BY <1>1, <1>2, <1>3, NotedClean, ReaderQuiet

LEMMA ReadLineMoves ==
  ASSUME TypeOK, ReadLine
  PROVE  /\ R.pc = "rest" /\ Moved("reader") /\ R'.pc \in {"rest", "pick"} /\ op_id' \in 0..Requests
         /\ UNCHANGED <<name, addr, responsive, client_count, fate, evicted, overlapped, to_server,
                        to_client, cpc, my_name>>
<1>1. "reader" \in Threads /\ R \in Locals /\ R.pc = "rest" /\ op_id \in 0..Requests
  BY Typed, ThreadNames DEF ReadLine, At, PartsTyped, OthersTyped
<1>2. op_id' \in 0..Requests
  BY <1>1, DatagramAssumption DEF ReadLine
<1>3. CASE th' = th
  BY <1>1, <1>2, <1>3, Typed DEF Moved, ReadLine, registry, network, clientVars, PartsTyped
<1>4. CASE \E i \in Slots : th' = [th EXCEPT !["reader"].pc = "pick", !["reader"].at = i]
  <2>1. PICK i \in Slots : th' = [th EXCEPT !["reader"].pc = "pick", !["reader"].at = i]
    BY <1>4
  <2> DEFINE r == [R EXCEPT !.pc = "pick", !.at = i]
  <2>2. r \in Locals /\ r.pc = "pick"
    BY <1>1 DEF Locals, Pcs
  <2>3. th' = [th EXCEPT !["reader"] = r]
    BY <2>1
  <2> HIDE DEF r
  <2>4. Moved("reader") /\ R' = r
    BY <1>1, <2>2, <2>3, SetsMoves
  <2> QED
    BY <1>1, <1>2, <2>2, <2>4 DEF ReadLine, registry, network, clientVars
<1> QED
  BY <1>3, <1>4 DEF ReadLine

LEMMA ReadLineStep == RegistryInv /\ ReadLine => RegistryInv'
<1> SUFFICES ASSUME RegistryInv, ReadLine PROVE RegistryInv'
  OBVIOUS
<1>1. /\ TypeOK /\ Moved("reader") /\ R'.pc \in {"rest", "pick"} /\ op_id' \in 0..Requests
      /\ UNCHANGED <<name, addr, responsive, client_count, fate, evicted, overlapped, to_server,
                     to_client, cpc, my_name>>
  BY ReadLineMoves DEF RegistryInv
<1>2. OthersTyped' /\ overlapped' \in BOOLEAN
  BY <1>1, Typed DEF PartsTyped, OthersTyped
<1>3. L' = L /\ M' = M
  BY <1>1, ThreadNames DEF Moved
<1>4. Clean' <=> Clean
  BY <1>1, <1>3 DEF Clean, Overlap, Changing, Removing, Adding
<1> QED
  BY <1>1, <1>2, <1>4, ReaderQuiet

LEMMA SendRequestStep == RegistryInv /\ SendRequest => RegistryInv'
<1> SUFFICES ASSUME RegistryInv, SendRequest PROVE RegistryInv'
  OBVIOUS
<1>1. /\ TypeOK /\ "reader" \in Threads /\ "reader" \notin Changers
      /\ addr[R.at] \in Clients \cup {NoClient}
  <2>1. TypeOK /\ "reader" \in Threads /\ "reader" \notin Changers /\ R \in Locals
    BY ThreadNames, Typed DEF RegistryInv
  <2> QED
    BY <2>1, Typed DEF PartsTyped, Locals
<1>2. SendTo(addr[R.at], "ARITH", Rests("reader"))
  BY DEF SendRequest
<1>3. Rests("reader") => Moved("reader") /\ Shape("reader")' /\ Knows("reader")'
  BY <1>1, RestsQuietly
<1>4. "ARITH" \in Answers
  BY DEF Answers
<1> QED
  BY <1>1, <1>2, <1>3, <1>4, SendStep

(* The clients' steps.                                                     *)
LEMMA ClientStep ==
  ASSUME RegistryInv, NEW c \in Clients, OfClient(c), to_server' \in [Families -> Seq(Messages)],
         to_client' \in [Clients -> Seq(Answers)], cpc' \in [Clients -> ClientPcs]
  PROVE  RegistryInv'
<1>1. /\ UNCHANGED <<name, addr, responsive, client_count, th, op_id, fate, evicted, my_name>>
      /\ Noted /\ TypeOK
  BY DEF OfClient, registry, RegistryInv
<1>2. OthersTyped'
  BY <1>1, Typed DEF PartsTyped, OthersTyped
<1>3. overlapped' \in BOOLEAN /\ (Clean' => Clean)
  BY <1>1, NotedClean
<1>4. Moved("reader")
  BY <1>1, Typed, ThreadNames DEF Moved, PartsTyped
<1>5. Shape("reader")'
  BY <1>1, ThreadNames DEF RegistryInv, ThreadShape, EntriesSound, Shape, ReaderShape, Addressed
<1>6. Knows("reader")'
  BY ThreadNames DEF Knows
<1> QED
  BY <1>1, <1>2, <1>3, <1>4, <1>5, <1>6, ThreadNames, QuietStep

(* What a client does to the messages.                                     *)
LEMMA SaysFacts ==
  ASSUME TypeOK, NEW c \in Clients, NEW type \in {"REGISTER", "UNREGISTER", "PING", "RESULT"},
         Says(c, type)
  PROVE  /\ Family(c) \in Families /\ Message(type, c) \in Messages
         /\ to_server' \in [Families -> Seq(Messages)]
         /\ \/ to_server' = [to_server EXCEPT ![Family(c)] = Append(@, Message(type, c))]
            \/ to_server' = to_server
<1>1. Family(c) \in Families /\ Message(type, c) \in Messages
  BY DEF Family, Families, Message, Messages
<1>2. to_server \in [Families -> Seq(Messages)]
  BY Typed DEF PartsTyped, OthersTyped
<1>3. \/ to_server' = [to_server EXCEPT ![Family(c)] = Append(@, Message(type, c))]
      \/ to_server' = to_server
  BY DEF Says, Message
<1>4. Append(to_server[Family(c)], Message(type, c)) \in Seq(Messages)
  BY <1>1, <1>2, AppendProperties
<1> QED
  BY <1>1, <1>2, <1>3, <1>4

LEMMA TakesFacts ==
  ASSUME TypeOK, NEW c \in Clients, NEW k \in 1..Len(to_client[c]), Takes(c, k)
  PROVE  to_client' \in [Clients -> Seq(Answers)]
<1>1. to_client \in [Clients -> Seq(Answers)]
  BY Typed DEF PartsTyped, OthersTyped
<1>2. RemoveAt(to_client[c], k) \in Seq(Answers)
  BY <1>1, RemoveAtFacts
<1> QED
  BY <1>1, <1>2 DEF Takes

LEMMA ClientAtFacts ==
  ASSUME TypeOK, NEW c \in Clients, NEW from, NEW to \in ClientPcs, ClientAt(c, from, to)
  PROVE  /\ cpc[c] = from /\ cpc' \in [Clients -> ClientPcs] /\ cpc'[c] = to
         /\ \A d \in Clients : d # c => cpc'[d] = cpc[d]
BY Typed DEF PartsTyped, OthersTyped, ClientAt

LEMMA ClientPcsFacts ==
    "register" \in ClientPcs /\ "listen" \in ClientPcs /\ "hung" \in ClientPcs
    /\ "interrupted" \in ClientPcs /\ "killed" \in ClientPcs /\ "turned_away" \in ClientPcs
BY DEF ClientPcs, Gone

LEMMA ClientSteps == RegistryInv /\ (\E c \in Clients : client(c)) => RegistryInv'
<1> SUFFICES ASSUME RegistryInv, NEW c \in Clients, client(c) PROVE RegistryInv'
  OBVIOUS
<1>1. /\ TypeOK /\ to_server \in [Families -> Seq(Messages)] /\ to_client \in [Clients -> Seq(Answers)]
  BY Typed DEF RegistryInv, PartsTyped, OthersTyped
<1>2. CASE Register(c)
  BY <1>1, <1>2, SaysFacts, ClientAtFacts, ClientPcsFacts, ClientStep DEF Register
<1>3. CASE ReceiveResult(c)
  <2>1. PICK k \in 1..Len(to_client[c]) :
            /\ Takes(c, k)
            /\ ClientAt(c, "register",
                        IF to_client[c][k] = "NAME_TAKEN" THEN "turned_away" ELSE "listen")
    BY <1>3 DEF ReceiveResult
  <2>2. OfClient(c) /\ to_server' = to_server
    BY <1>3 DEF ReceiveResult
  <2>3. to_client' \in [Clients -> Seq(Answers)]
    BY <1>1, <2>1, TakesFacts
  <2>4. cpc' \in [Clients -> ClientPcs]
    BY <1>1, <2>1, ClientAtFacts, ClientPcsFacts
  <2> QED
    BY <1>1, <2>2, <2>3, <2>4, ClientStep
<1>4. CASE Listen(c)
  <2>1. PICK k \in 1..Len(to_client[c]) :
            /\ Takes(c, k)
            /\ \/ ClientAt(c, "listen", "listen") /\ Says(c, "PING")
               \/ ClientAt(c, "listen", "listen") /\ Says(c, "RESULT")
               \/ ClientAt(c, "listen", "killed") /\ UNCHANGED to_server
               \/ ClientAt(c, "listen", "listen") /\ UNCHANGED to_server
    BY <1>4 DEF Listen
  <2>2. OfClient(c)
    BY <1>4 DEF Listen
  <2>3. to_client' \in [Clients -> Seq(Answers)]
    BY <1>1, <2>1, TakesFacts
  <2>4. cpc' \in [Clients -> ClientPcs]
    BY <1>1, <2>1, ClientAtFacts, ClientPcsFacts
  <2>5. to_server' \in [Families -> Seq(Messages)]
    BY <1>1, <2>1, SaysFacts
  <2> QED
    BY <2>2, <2>3, <2>4, <2>5, ClientStep
<1>5. CASE Interrupt(c) \/ Killed(c)
  <2>1. PICK how \in {"interrupted", "killed"} : Leaves(c, how)
    BY <1>5 DEF Interrupt, Killed
  <2>2. OfClient(c) /\ to_client' \in [Clients -> Seq(Answers)]
    <3>1. <<>> \in Seq(Answers)
      BY EmptySeq
    <3> QED
      BY <1>1, <2>1, <3>1 DEF Leaves
  <2>3. cpc' \in [Clients -> ClientPcs]
    BY <1>1, <2>1, ClientAtFacts, ClientPcsFacts DEF Leaves
  <2>4. to_server' \in [Families -> Seq(Messages)]
    BY <1>1, <1>5, SaysFacts DEF Interrupt, Killed
  <2> QED
    BY <2>2, <2>3, <2>4, ClientStep
<1>6. CASE Hang(c)
  BY <1>1, <1>6, ClientAtFacts, ClientPcsFacts, ClientStep DEF Hang, network
<1> QED
  BY <1>2, <1>3, <1>4, <1>5, <1>6 DEF client
-----------------------------------------------------------------------------
(* The steps that change the registry.                                     *)
RemovingPcs == {"match", "zero_name", "dec", "dec_store"}

(* As long as they have not overlapped, who changes the registry is alone. *)
LEMMA Alone ==
  ASSUME RegistryInv, Clean, NEW t \in Changers,
         \/ th[t].pc \in RemovingPcs
         \/ t = "listener" /\ Filling
  PROVE  \A u \in Changers : u # t =>
             th[u].pc \notin RemovingPcs /\ th[u].pc # "test" /\ (u = "listener" => ~Filling)
<1>1. ~Overlap /\ L.pc \in ListenerPcs /\ M.pc \in MonitorPcs
  BY DEF Clean, RegistryInv, ThreadShape, ListenerShape, MonitorShape
<1> QED
  BY <1>1, ThreadNames
     DEF Overlap, Changing, Removing, Adding, ListenerPcs, MonitorPcs, RemovingPcs, Filling

LEMMA ChangeFrame ==
  ASSUME RegistryInv, NEW t \in Changers, Moved(t), Noted,
         t = "listener" => ListenerShape', t = "monitor" => MonitorShape',
         name' \in [Slots -> Names \cup {NoName}], addr' \in [Slots -> Clients \cup {NoClient}],
         client_count' \in Int, OthersTyped', my_name' = my_name
  PROVE  /\ TypeOK' /\ ThreadShape' /\ (Clean' => Clean)
         /\ \A u \in Threads : u # t => th'[u] = th[u]
         /\ \A u \in Changers : u # t => th'[u] = th[u]
         /\ R' = R /\ (t = "listener" => M' = M) /\ (t = "monitor" => L' = L)
<1>1. \A u \in Threads : u # t => th'[u] = th[u]
  BY DEF Moved
<1>2. R' = R /\ (t = "listener" => M' = M) /\ (t = "monitor" => L' = L)
  BY <1>1, ThreadNames
<1>3. ListenerShape' /\ MonitorShape' /\ ReaderShape'
  BY <1>2, ThreadNames
     DEF RegistryInv, ThreadShape, ListenerShape, MonitorShape, ReaderShape, Filling
<1>4. overlapped' \in BOOLEAN /\ (Clean' => Clean)
  BY NotedClean
<1>5. TypeOK'
  <2>1. my_name' \in [Clients -> Names]
    BY Typed DEF RegistryInv, PartsTyped
  <2>2. th' \in [Threads -> Locals]
    BY DEF Moved
  <2> QED
    BY <1>4, <2>1, <2>2, MakeTyped DEF PartsTyped
<1> QED
  BY <1>1, <1>2, <1>3, <1>4, <1>5, ThreadNames DEF ThreadShape

LEMMA ZeroNameMoves ==
  ASSUME TypeOK, NEW t \in Changers, ZeroName(t)
  PROVE  /\ th[t].pc = "zero_name" /\ t \in Threads /\ th[t].at \in Slots /\ Moved(t) /\ Noted
         /\ th'[t].pc = "dec" /\ th'[t].at = th[t].at /\ th'[t].own = th[t].own
         /\ th'[t].arg = th[t].arg /\ th'[t].from = th[t].from
         /\ name' \in [Slots -> Names \cup {NoName}]
         /\ \A i \in Slots : name'[i] = IF i = th[t].at THEN NoName ELSE name[i]
         /\ evicted' = IF t = "monitor" THEN evicted \cup {name[th[t].at]} ELSE evicted
         /\ OthersTyped'
         /\ UNCHANGED <<addr, responsive, client_count, op_id, fate, to_server, to_client, cpc, my_name>>
<1>1. t \in Threads /\ th[t] \in Locals /\ "dec" \in Pcs
  BY Typed, ThreadNames DEF Pcs
<1>2. PICK v \in Slots : v = th[t].at
  BY <1>1 DEF Locals
<1>3. name \in [Slots -> Names \cup {NoName}] /\ name' = [name EXCEPT ![v] = NoName]
  BY <1>2, Typed DEF PartsTyped, ZeroName
<1>4. /\ name' \in [Slots -> Names \cup {NoName}]
      /\ \A i \in Slots : name'[i] = IF i = v THEN NoName ELSE name[i]
  BY <1>3
<1>5. /\ th[t].pc = "zero_name" /\ Goes(t, "dec") /\ Noted
      /\ evicted' = IF t = "monitor" THEN evicted \cup {name[th[t].at]} ELSE evicted
      /\ UNCHANGED <<addr, responsive, client_count, op_id, fate, to_server, to_client, cpc, my_name>>
  BY DEF ZeroName, At, network, clientVars
<1>6. OthersTyped'
  <2>1. evicted' \subseteq Names \cup {NoName}
    BY <1>2, <1>3, <1>5, Typed DEF PartsTyped, OthersTyped
  <2> QED
    BY <1>5, <2>1, Typed DEF PartsTyped, OthersTyped
<1> QED
  BY <1>1, <1>2, <1>4, <1>5, <1>6, GoesMoves

LEMMA ZeroNameStep ==
  ASSUME RegistryInv, NEW t \in Changers, ZeroName(t)
  PROVE  RegistryInv'
<1>1. TypeOK
  BY DEF RegistryInv
<1>2. /\ th[t].pc = "zero_name" /\ t \in Threads /\ Moved(t) /\ Noted
      /\ th'[t].pc = "dec" /\ th'[t].own = th[t].own /\ th'[t].arg = th[t].arg
      /\ th'[t].from = th[t].from /\ name' \in [Slots -> Names \cup {NoName}] /\ OthersTyped'
      /\ UNCHANGED <<addr, client_count, my_name>>
  BY <1>1, ZeroNameMoves
<1>3. PICK v \in Slots : v = th[t].at
  BY <1>1, ZeroNameMoves
<1>4. \A i \in Slots : name'[i] = IF i = v THEN NoName ELSE name[i]
  BY <1>1, <1>3, ZeroNameMoves
<1>5. /\ t = "listener" => ListenerShape'
      /\ t = "monitor" => MonitorShape'
  BY <1>2 DEF RegistryInv, ThreadShape, ListenerShape, ListenerPcs, Filling, MonitorShape, MonitorPcs
<1>6. /\ addr \in [Slots -> Clients \cup {NoClient}] /\ client_count \in Int
      /\ my_name \in [Clients -> Names]
  BY <1>1, Typed DEF PartsTyped
<1>7. /\ TypeOK' /\ ThreadShape' /\ (Clean' => Clean)
      /\ \A u \in Changers : u # t => th'[u] = th[u]
      /\ R' = R /\ (t = "listener" => M' = M) /\ (t = "monitor" => L' = L)
  BY <1>2, <1>5, <1>6, ChangeFrame
<1>8. Searched'
  <2>1. CASE t = "listener"
    BY <1>2, <2>1 DEF Searched
  <2>2. CASE t = "monitor"
    <3>1. L.pc # "rest" => L.arg # NoName
      BY <1>6, SlotFacts DEF RegistryInv, ThreadShape, ListenerShape
    <3>2. L \in Locals
      BY <1>1, Typed, ThreadNames
    <3>3. L' = L
      BY <1>7, <2>2
    <3>4. L.pc = "set_addr" => L.avail \in Slots
      BY DEF RegistryInv, ThreadShape, ListenerShape, Filling
    <3> QED
      BY <1>4, <3>1, <3>2, <3>3, <3>4 DEF RegistryInv, Searched
  <2> QED
    BY <2>1, <2>2, ThreadNames
<1>9. NamesUnique'
  BY <1>4 DEF RegistryInv, NamesUnique
<1>10. Used' = Used \ {v}
  BY <1>4 DEF Used
<1>11. (L'.pc = "set_addr" <=> L.pc = "set_addr") /\ (L.pc = "set_addr" => L'.avail = L.avail)
  BY <1>2, <1>7, ThreadNames
<1>12. EntriesSound'
  <2>1. \A i \in Slots : Addressed(i)' <=> Addressed(i)
    BY <1>2, <1>11 DEF Addressed
  <2>2. R \in Locals
    BY <1>1, Typed, ThreadNames
  <2>3. (R.pc = "send" => Addressed(R.at))'
    BY <1>7, <2>1, <2>2 DEF RegistryInv, EntriesSound, Locals
  <2>4. (M.pc \in {"test", "ping"} => Addressed(M.own))'
    <3>1. M'.pc \in {"test", "ping"} => M' = M
      BY <1>2, <1>7, ThreadNames
    <3> QED
      BY <2>1, <3>1 DEF RegistryInv, EntriesSound, ThreadShape, MonitorShape
  <2>5. \A i \in Used' : \/ L'.pc = "set_addr" /\ L'.avail = i
                         \/ addr'[i] \in Clients /\ name'[i] = my_name'[addr'[i]]
    <3> SUFFICES ASSUME NEW i \in Used'
                 PROVE  \/ L'.pc = "set_addr" /\ L'.avail = i
                        \/ addr'[i] \in Clients /\ name'[i] = my_name'[addr'[i]]
      OBVIOUS
    <3>1. i \in Used /\ i # v /\ i \in Slots
      BY <1>10 DEF Used
    <3>2. name'[i] = name[i]
      BY <1>4, <3>1
    <3> QED
      BY <1>2, <1>11, <3>1, <3>2 DEF RegistryInv, EntriesSound
  <2> QED
    BY <2>3, <2>4, <2>5 DEF EntriesSound
<1>13. ASSUME Clean' PROVE CountSound' /\ RemovalSound' /\ RoomAhead'
  <2>1. Clean /\ CountSound /\ RemovalSound /\ RoomAhead
    BY <1>7, <1>13 DEF RegistryInv
  <2>2. \A u \in Changers : u # t =>
             th[u].pc \notin RemovingPcs /\ th[u].pc # "test" /\ (u = "listener" => ~Filling)
    BY <1>2, <2>1, Alone DEF RemovingPcs
  <2>3. v \in Used
    BY <1>2, <1>3, <2>1 DEF RemovalSound, RemovalKnown
  <2>4. ~Ahead /\ Ahead'
    BY <1>2, <1>7, <2>2, ThreadNames DEF Ahead, RemovingPcs, Filling
  <2>5. CountSound'
    <3>1. client_count = Cardinality(Used)
      BY <2>1, <2>4, UsedFinite DEF CountSound
    <3>2. Cardinality(Used') = Cardinality(Used) - 1
      BY <1>10, <2>3, UsedFinite
    <3>3. \A u \in Changers : th'[u].pc \notin {"dec_store", "inc_store"}
      <4> SUFFICES ASSUME NEW u \in Changers PROVE th'[u].pc \notin {"dec_store", "inc_store"}
        OBVIOUS
      <4>1. CASE u = t
        BY <1>2, <4>1
      <4>2. CASE u # t
        <5>1. th'[u] = th[u] /\ th[u].pc # "dec_store"
          BY <1>7, <2>2, <4>2 DEF RemovingPcs
        <5>2. th[u].pc # "inc_store"
          BY <2>2, <4>2, ThreadNames DEF RegistryInv, ThreadShape, MonitorShape, MonitorPcs, Filling
        <5> QED
          BY <5>1, <5>2
      <4> QED
        BY <4>1, <4>2
    <3>4. client_count = Cardinality(Used') + 1
      BY <3>1, <3>2, UsedFinite
    <3> QED
      BY <1>2, <2>4, <3>3, <3>4 DEF CountSound
  <2>6. RemovalSound'
    <3>1. RemovalKnown(t)'
      BY <1>2 DEF RemovalKnown
    <3>2. \A u \in Changers : u # t => RemovalKnown(u)'
      BY <1>7, <2>2 DEF RemovalKnown, RemovingPcs
    <3> QED
      BY <3>1, <3>2 DEF RemovalSound
  <2>7. RoomAhead'
    BY <1>2, <1>4, <1>7, <2>1, ThreadNames DEF RoomAhead
  <2> QED
    BY <2>5, <2>6, <2>7
<1> QED
  BY <1>7, <1>8, <1>9, <1>12, <1>13 DEF RegistryInv

(* The store of ++client_count or --client_count.                          *)
LEMMA StoreCountStep ==
  ASSUME RegistryInv, NEW t \in Changers, Moved(t), Quiet, UNCHANGED <<name, addr, responsive>>,
         client_count' \in Int, th[t].pc # "set_addr", th'[t].pc # "set_addr",
         Shape(t)', Clean' => Knows(t)', Clean' => CountSound'
  PROVE  RegistryInv'
<1>1. /\ Noted /\ UNCHANGED <<op_id, fate, evicted, to_server, to_client, cpc, my_name>>
      /\ TypeOK
  BY DEF Quiet, network, clientVars, RegistryInv
<1>2. OthersTyped'
  BY <1>1, Typed DEF PartsTyped, OthersTyped
<1>3. /\ t = "listener" => ListenerShape'
      /\ t = "monitor" => MonitorShape'
  BY DEF Shape
<1>4. /\ name' \in [Slots -> Names \cup {NoName}] /\ addr' \in [Slots -> Clients \cup {NoClient}]
  BY <1>1, Typed DEF PartsTyped
<1>5. /\ TypeOK' /\ ThreadShape' /\ (Clean' => Clean)
      /\ \A u \in Changers : u # t => th'[u] = th[u]
      /\ R' = R /\ (t = "listener" => M' = M) /\ (t = "monitor" => L' = L)
  BY <1>1, <1>2, <1>3, <1>4, ChangeFrame
<1>6. Searched' /\ NamesUnique'
  <2>1. t = "monitor" => Searched'
    BY <1>5 DEF RegistryInv, Searched
  <2> QED
    BY <2>1, ThreadNames DEF Shape, RegistryInv, NamesUnique
<1>7. Used' = Used
  BY DEF Used
<1>8. (L'.pc = "set_addr" <=> L.pc = "set_addr") /\ (L.pc = "set_addr" => L'.avail = L.avail)
  BY <1>5, ThreadNames
<1>9. EntriesSound'
  <2>1. \A i \in Slots : Addressed(i)' <=> Addressed(i)
    BY <1>8 DEF Addressed
  <2>2. R \in Locals
    BY <1>1, Typed, ThreadNames
  <2>3. (R.pc = "send" => Addressed(R.at))'
    BY <1>5, <2>1, <2>2 DEF RegistryInv, EntriesSound, Locals
  <2>4. (M.pc \in {"test", "ping"} => Addressed(M.own))'
    <3>1. t = "listener" => M' = M
      BY <1>5
    <3> QED
      BY <2>1, <3>1, ThreadNames DEF Shape, RegistryInv, EntriesSound, ThreadShape, MonitorShape
  <2>5. \A i \in Used' : \/ L'.pc = "set_addr" /\ L'.avail = i
                         \/ addr'[i] \in Clients /\ name'[i] = my_name'[addr'[i]]
    BY <1>1, <1>7, <1>8 DEF RegistryInv, EntriesSound
  <2> QED
    BY <2>3, <2>4, <2>5 DEF EntriesSound
<1>10. ASSUME Clean' PROVE CountSound' /\ RemovalSound' /\ RoomAhead'
  <2>1. Clean /\ RemovalSound /\ RoomAhead
    BY <1>5, <1>10 DEF RegistryInv
  <2>2. RemovalSound'
    <3>1. \A u \in Changers : u # t => RemovalKnown(u)'
      BY <1>5, <1>7, <2>1 DEF RemovalSound, RemovalKnown
    <3> QED
      BY <1>10, <3>1 DEF RemovalSound, Knows
  <2>3. RoomAhead'
    BY <1>5, <1>10, <2>1, ThreadNames DEF Knows, RoomAhead
  <2> QED
    BY <1>10, <2>2, <2>3
<1> QED
  BY <1>5, <1>6, <1>9, <1>10 DEF RegistryInv

LEMMA StoreDecrementStep ==
  ASSUME RegistryInv, NEW t \in Changers, StoreDecrement(t)
  PROVE  RegistryInv'
<1>1. /\ TypeOK /\ t \in Threads /\ th[t] \in Locals /\ th[t].pc = "dec_store" /\ Quiet
      /\ UNCHANGED <<name, addr, responsive>> /\ Returns(t) /\ client_count' = th[t].reg - 1
  BY Typed, ThreadNames DEF RegistryInv, StoreDecrement, At
<1>2. t = "monitor" => th[t].own \in Slots
  BY <1>1 DEF RegistryInv, ThreadShape, MonitorShape
<1>3. /\ Moved(t) /\ Settled(t)' /\ Shape(t)' /\ Knows(t)' /\ th'[t].pc \in {"rest", "check"}
  BY <1>1, <1>2, ReturnsQuietly
<1>4. \A u \in Changers : u # t => th'[u] = th[u]
  BY <1>3, ThreadNames DEF Moved
<1>5. client_count' \in Int
  BY <1>1 DEF Locals
<1>6. ASSUME Clean' PROVE CountSound'
  <2>1. Noted
    BY <1>1 DEF Quiet
  <2>2. Clean /\ CountSound
    BY <1>6, <2>1, NotedClean DEF RegistryInv
  <2>3. \A u \in Changers : u # t =>
             th[u].pc \notin RemovingPcs /\ th[u].pc # "test" /\ (u = "listener" => ~Filling)
    BY <1>1, <2>2, Alone DEF RemovingPcs
  <2>4. Ahead
    BY <1>1 DEF Ahead
  <2>5. \A u \in Changers : th'[u].pc \notin {"dec", "dec_store", "inc_store", "set_name"}
    <3> SUFFICES ASSUME NEW u \in Changers
                 PROVE  th'[u].pc \notin {"dec", "dec_store", "inc_store", "set_name"}
      OBVIOUS
    <3>1. CASE u = t
      BY <1>3, <3>1
    <3>2. CASE u # t
      <4>1. th'[u] = th[u] /\ th[u].pc \notin {"dec", "dec_store"}
        BY <1>4, <2>3, <3>2 DEF RemovingPcs
      <4>2. th[u].pc \notin {"inc_store", "set_name"}
        BY <2>3, <3>2, ThreadNames DEF RegistryInv, ThreadShape, MonitorShape, MonitorPcs, Filling
      <4> QED
        BY <4>1, <4>2
    <3> QED
      BY <3>1, <3>2
  <2>6. ~Ahead'
    BY <2>5, ThreadNames DEF Ahead
  <2>7. client_count = Cardinality(Used) + 1 /\ th[t].reg = client_count
    BY <1>1, <2>2, <2>4 DEF CountSound
  <2>8. Used' = Used
    BY <1>1 DEF Used
  <2>9. client_count' = Cardinality(Used')
    BY <1>1, <2>7, <2>8, UsedFinite
  <2>10. client_count' = Cardinality(Used') + 0
    BY <2>8, <2>9, UsedFinite
  <2> QED
    BY <2>5, <2>6, <2>10 DEF CountSound
<1> QED
  BY <1>1, <1>3, <1>5, <1>6, StoreCountStep

LEMMA StoreIncrementStep == RegistryInv /\ StoreIncrement => RegistryInv'
<1> SUFFICES ASSUME RegistryInv, StoreIncrement PROVE RegistryInv'
  OBVIOUS
<1>1. /\ TypeOK /\ "listener" \in Threads /\ "listener" \in Changers /\ L \in Locals
      /\ L.pc = "inc_store" /\ Quiet /\ Goes("listener", "set_name")
      /\ UNCHANGED <<name, addr, responsive>> /\ client_count' = L.reg + 1 /\ my_name' = my_name
  BY Typed, ThreadNames DEF RegistryInv, StoreIncrement, ListenerAt, At, Quiet, clientVars
<1>2. /\ Moved("listener") /\ L'.pc = "set_name" /\ L'.from = L.from /\ L'.arg = L.arg
      /\ L'.own = L.own /\ L'.avail = L.avail
  BY <1>1, GoesMoves DEF Pcs
<1>3. M' = M
  BY <1>2, ThreadNames DEF Moved
<1>4. Shape("listener")'
  BY <1>1, <1>2 DEF RegistryInv, ThreadShape, Shape, ListenerShape, ListenerPcs, Filling, Searched
<1>5. Knows("listener")'
  BY <1>2 DEF Knows, RemovalKnown, RoomAhead
<1>6. client_count' \in Int
  BY <1>1 DEF Locals
<1>7. ASSUME Clean' PROVE CountSound'
  <2>1. Noted
    BY <1>1 DEF Quiet
  <2>2. Clean /\ CountSound
    BY <1>7, <2>1, NotedClean DEF RegistryInv
  <2>3. M.pc \notin RemovingPcs
    BY <1>1, <2>2, Alone, ThreadNames DEF Filling
  <2>4. ~Ahead /\ Ahead'
    BY <1>1, <1>2, <2>3, ThreadNames DEF Ahead, RemovingPcs
  <2>5. \A u \in Changers : th'[u].pc \notin {"dec_store", "inc_store"}
    BY <1>2, <1>3, <2>3, ThreadNames DEF RemovingPcs, RegistryInv, ThreadShape, MonitorShape, MonitorPcs
  <2>6. L.reg = client_count /\ client_count = Cardinality(Used)
    BY <1>1, <2>2, <2>4, UsedFinite DEF CountSound
  <2>7. Used' = Used
    BY <1>1 DEF Used
  <2>8. client_count' = Cardinality(Used') + 1
    BY <1>1, <2>6, <2>7
  <2> QED
    BY <2>4, <2>5, <2>8 DEF CountSound
<1> QED
  BY <1>1, <1>2, <1>4, <1>5, <1>6, <1>7, StoreCountStep

LEMMA SetNameMoves ==
  ASSUME RegistryInv, SetName
  PROVE  /\ TypeOK /\ L.pc = "set_name" /\ L.avail \in Slots /\ L.arg \in Names /\ Quiet
         /\ L.from \in Clients /\ L.arg = my_name[L.from]
         /\ name[L.avail] = NoName /\ \A j \in Slots : j # L.avail => name[j] # L.arg
         /\ Moved("listener") /\ L'.pc = "set_addr" /\ L'.from = L.from /\ L'.arg = L.arg
         /\ L'.own = -1 /\ L'.avail = L.avail /\ M' = M /\ R' = R
         /\ name' \in [Slots -> Names \cup {NoName}]
         /\ \A i \in Slots : name'[i] = IF i = L.avail THEN L.arg ELSE name[i]
         /\ UNCHANGED <<addr, responsive, client_count, op_id, fate, evicted, to_server, to_client,
                        cpc, my_name>>
<1>1. /\ TypeOK /\ "listener" \in Threads /\ L.pc = "set_name" /\ Quiet /\ Goes("listener", "set_addr")
      /\ UNCHANGED <<addr, responsive, client_count, op_id, fate, evicted, to_server, to_client,
                     cpc, my_name>>
      /\ name \in [Slots -> Names \cup {NoName}] /\ my_name \in [Clients -> Names]
  BY Typed, ThreadNames
     DEF RegistryInv, SetName, ListenerAt, At, Quiet, network, clientVars, PartsTyped
<1>2. /\ L.avail \in Slots /\ L.own = -1 /\ L.from \in Clients /\ L.arg = my_name[L.from]
      /\ name[L.avail] = NoName /\ \A j \in Slots : j # L.avail => name[j] # L.arg
  BY <1>1 DEF RegistryInv, ThreadShape, ListenerShape, Filling, Searched
<1>3. L.arg \in Names
  BY <1>1, <1>2
<1>4. PICK v \in Slots : v = L.avail
  BY <1>2
<1>5. PICK n \in Names : n = L.arg
  BY <1>3
<1>6. name' = [name EXCEPT ![v] = n]
  BY <1>4, <1>5 DEF SetName
<1>7. /\ name' \in [Slots -> Names \cup {NoName}]
      /\ \A i \in Slots : name'[i] = IF i = v THEN n ELSE name[i]
  BY <1>1, <1>6
<1>8. /\ Moved("listener") /\ L'.pc = "set_addr" /\ L'.from = L.from /\ L'.arg = L.arg
      /\ L'.own = L.own /\ L'.avail = L.avail
  BY <1>1, GoesMoves DEF Pcs
<1>9. M' = M /\ R' = R
  BY <1>8, ThreadNames DEF Moved
<1> QED
  BY <1>1, <1>2, <1>3, <1>4, <1>5, <1>7, <1>8, <1>9

LEMMA SetNameStep == RegistryInv /\ SetName => RegistryInv'
<1> SUFFICES ASSUME RegistryInv, SetName PROVE RegistryInv'
  OBVIOUS
<1>1. /\ TypeOK /\ L.pc = "set_name" /\ L.avail \in Slots /\ L.arg \in Names /\ Quiet
      /\ L.from \in Clients /\ L.arg = my_name[L.from]
      /\ name[L.avail] = NoName /\ \A j \in Slots : j # L.avail => name[j] # L.arg
      /\ Moved("listener") /\ L'.pc = "set_addr" /\ L'.from = L.from /\ L'.arg = L.arg
      /\ L'.own = -1 /\ L'.avail = L.avail /\ M' = M /\ R' = R
      /\ name' \in [Slots -> Names \cup {NoName}]
      /\ UNCHANGED <<addr, responsive, client_count, op_id, fate, evicted, to_server, to_client,
                     cpc, my_name>>
  BY SetNameMoves
<1>2. PICK v \in Slots : v = L.avail
  BY <1>1
<1>3. PICK n \in Names : n = L.arg
  BY <1>1
<1>4. \A i \in Slots : name'[i] = IF i = v THEN n ELSE name[i]
  BY <1>2, <1>3, SetNameMoves
<1>5. ListenerShape'
  BY <1>1 DEF ListenerShape, ListenerPcs, Filling
<1>6. /\ OthersTyped' /\ addr' \in [Slots -> Clients \cup {NoClient}] /\ client_count' \in Int
  BY <1>1, Typed DEF PartsTyped, OthersTyped
<1>7. Noted
  BY <1>1 DEF Quiet
<1>8. TypeOK' /\ ThreadShape' /\ (Clean' => Clean)
  BY <1>1, <1>5, <1>6, <1>7, ChangeFrame, ThreadNames
<1>9. Searched'
  BY <1>1, <1>2, <1>3, <1>4 DEF Searched
<1>10. NamesUnique'
  BY <1>1, <1>2, <1>3, <1>4 DEF RegistryInv, NamesUnique
<1>11. Used' = Used \cup {v} /\ v \notin Used
  BY <1>1, <1>2, <1>3, <1>4, SlotFacts DEF Used
<1>12. EntriesSound'
  <2>1. \A i \in Slots : Addressed(i) => Addressed(i)'
    BY <1>1 DEF Addressed
  <2>2. R \in Locals
    BY <1>1, Typed, ThreadNames
  <2>3. (R.pc = "send" => Addressed(R.at))'
    BY <1>1, <2>1, <2>2 DEF RegistryInv, EntriesSound, Locals
  <2>4. (M.pc \in {"test", "ping"} => Addressed(M.own))'
    BY <1>1, <2>1 DEF RegistryInv, EntriesSound, ThreadShape, MonitorShape
  <2>5. \A i \in Used' : \/ L'.pc = "set_addr" /\ L'.avail = i
                         \/ addr'[i] \in Clients /\ name'[i] = my_name'[addr'[i]]
    <3> SUFFICES ASSUME NEW i \in Used', i # v
                 PROVE  addr'[i] \in Clients /\ name'[i] = my_name'[addr'[i]]
      BY <1>1, <1>2
    <3>1. i \in Used /\ i \in Slots
      BY <1>11 DEF Used
    <3>2. name'[i] = name[i]
      BY <1>4, <3>1
    <3> QED
      BY <1>1, <3>1, <3>2 DEF RegistryInv, EntriesSound
  <2> QED
    BY <2>3, <2>4, <2>5 DEF EntriesSound
<1>13. ASSUME Clean' PROVE CountSound' /\ RemovalSound' /\ RoomAhead'
  <2>1. Clean /\ CountSound /\ RemovalSound
    BY <1>8, <1>13 DEF RegistryInv
  <2>2. M.pc \notin RemovingPcs
    BY <1>1, <2>1, Alone, ThreadNames DEF Filling
  <2>3. Ahead /\ ~Ahead'
    BY <1>1, <2>2, ThreadNames DEF Ahead, RemovingPcs
  <2>4. client_count = Cardinality(Used) + 1
    BY <2>1, <2>3 DEF CountSound
  <2>5. Cardinality(Used') = Cardinality(Used) + 1
    BY <1>11, UsedFinite
  <2>6. client_count' = Cardinality(Used') + 0
    BY <1>1, <2>4, <2>5, UsedFinite
  <2>7. \A u \in Changers : th'[u].pc \notin {"dec_store", "inc_store"}
    BY <1>1, <2>2, ThreadNames DEF RemovingPcs, RegistryInv, ThreadShape, MonitorShape, MonitorPcs
  <2>8. CountSound'
    BY <2>3, <2>6, <2>7 DEF CountSound
  <2>9. RemovalSound'
    BY <1>1, <1>11, <2>1, ThreadNames DEF RemovalSound, RemovalKnown
  <2>10. RoomAhead'
    BY <1>1 DEF RoomAhead
  <2> QED
    BY <2>8, <2>9, <2>10
<1> QED
  BY <1>8, <1>9, <1>10, <1>12, <1>13 DEF RegistryInv

LEMMA SetAddrMoves ==
  ASSUME RegistryInv, SetAddr
  PROVE  /\ TypeOK /\ L.pc = "set_addr" /\ L.avail \in Slots /\ Quiet
         /\ L.from \in Clients /\ L.arg = my_name[L.from] /\ name[L.avail] \in {L.arg, NoName}
         /\ Moved("listener") /\ L'.pc = "set_responsive" /\ L'.from = L.from /\ L'.arg = L.arg
         /\ L'.own = -1 /\ L'.avail = L.avail /\ M' = M /\ R' = R
         /\ addr' \in [Slots -> Clients \cup {NoClient}]
         /\ \A i \in Slots : addr'[i] = IF i = L.avail THEN L.from ELSE addr[i]
         /\ UNCHANGED <<name, responsive, client_count, op_id, fate, evicted, to_server, to_client,
                        cpc, my_name>>
<1>1. /\ TypeOK /\ "listener" \in Threads /\ L.pc = "set_addr" /\ Quiet
      /\ Goes("listener", "set_responsive")
      /\ UNCHANGED <<name, responsive, client_count, op_id, fate, evicted, to_server, to_client,
                     cpc, my_name>>
      /\ addr \in [Slots -> Clients \cup {NoClient}]
  BY Typed, ThreadNames
     DEF RegistryInv, SetAddr, ListenerAt, At, Quiet, network, clientVars, PartsTyped
<1>2. /\ L.avail \in Slots /\ L.own = -1 /\ L.from \in Clients /\ L.arg = my_name[L.from]
      /\ name[L.avail] \in {L.arg, NoName}
  BY <1>1 DEF RegistryInv, ThreadShape, ListenerShape, Filling, Searched
<1>3. PICK v \in Slots : v = L.avail
  BY <1>2
<1>4. PICK c \in Clients : c = L.from
  BY <1>2
<1>5. addr' = [addr EXCEPT ![v] = c]
  BY <1>3, <1>4 DEF SetAddr
<1>6. /\ addr' \in [Slots -> Clients \cup {NoClient}]
      /\ \A i \in Slots : addr'[i] = IF i = v THEN c ELSE addr[i]
  BY <1>1, <1>5
<1>7. /\ Moved("listener") /\ L'.pc = "set_responsive" /\ L'.from = L.from /\ L'.arg = L.arg
      /\ L'.own = L.own /\ L'.avail = L.avail
  BY <1>1, GoesMoves DEF Pcs
<1>8. M' = M /\ R' = R
  BY <1>7, ThreadNames DEF Moved
<1> QED
  BY <1>1, <1>2, <1>3, <1>4, <1>6, <1>7, <1>8

LEMMA SetAddrStep == RegistryInv /\ SetAddr => RegistryInv'
<1> SUFFICES ASSUME RegistryInv, SetAddr PROVE RegistryInv'
  OBVIOUS
<1>1. /\ TypeOK /\ L.pc = "set_addr" /\ L.avail \in Slots /\ Quiet
      /\ L.from \in Clients /\ L.arg = my_name[L.from] /\ name[L.avail] \in {L.arg, NoName}
      /\ Moved("listener") /\ L'.pc = "set_responsive" /\ L'.from = L.from /\ L'.arg = L.arg
      /\ L'.own = -1 /\ L'.avail = L.avail /\ M' = M /\ R' = R
      /\ addr' \in [Slots -> Clients \cup {NoClient}]
      /\ UNCHANGED <<name, responsive, client_count, op_id, fate, evicted, to_server, to_client,
                     cpc, my_name>>
  BY SetAddrMoves
<1>2. PICK v \in Slots : v = L.avail
  BY <1>1
<1>3. PICK c \in Clients : c = L.from
  BY <1>1
<1>4. \A i \in Slots : addr'[i] = IF i = v THEN c ELSE addr[i]
  BY <1>2, <1>3, SetAddrMoves
<1>5. ListenerShape'
  BY <1>1 DEF ListenerShape, ListenerPcs, Filling
<1>6. /\ OthersTyped' /\ name' \in [Slots -> Names \cup {NoName}] /\ client_count' \in Int
  BY <1>1, Typed DEF PartsTyped, OthersTyped
<1>7. Noted
  BY <1>1 DEF Quiet
<1>8. TypeOK' /\ ThreadShape' /\ (Clean' => Clean)
  BY <1>1, <1>5, <1>6, <1>7, ChangeFrame, ThreadNames
<1>9. Searched' /\ NamesUnique'
  BY <1>1 DEF RegistryInv, NamesUnique, Searched
<1>10. Used' = Used
  BY <1>1 DEF Used
<1>11. EntriesSound'
  <2>1. \A i \in Slots : Addressed(i) => Addressed(i)'
    BY <1>1, <1>2, <1>3, <1>4 DEF Addressed
  <2>2. R \in Locals
    BY <1>1, Typed, ThreadNames
  <2>3. (R.pc = "send" => Addressed(R.at))'
    BY <1>1, <2>1, <2>2 DEF RegistryInv, EntriesSound, Locals
  <2>4. (M.pc \in {"test", "ping"} => Addressed(M.own))'
    BY <1>1, <2>1 DEF RegistryInv, EntriesSound, ThreadShape, MonitorShape
  <2>5. \A i \in Used : addr'[i] \in Clients /\ name[i] = my_name[addr'[i]]
    <3> SUFFICES ASSUME NEW i \in Used PROVE addr'[i] \in Clients /\ name[i] = my_name[addr'[i]]
      OBVIOUS
    <3>1. i \in Slots /\ name[i] # NoName
      BY DEF Used
    <3>2. CASE i = v
      BY <1>1, <1>2, <1>3, <1>4, <3>1, <3>2
    <3>3. CASE i # v
      BY <1>1, <1>2, <1>4, <3>1, <3>3 DEF RegistryInv, EntriesSound
    <3> QED
      BY <3>2, <3>3
  <2> QED
    BY <1>1, <1>10, <2>3, <2>4, <2>5 DEF EntriesSound
<1>12. ASSUME Clean' PROVE CountSound' /\ RemovalSound' /\ RoomAhead'
  <2>1. Clean /\ CountSound /\ RemovalSound
    BY <1>8, <1>12 DEF RegistryInv
  <2>2. Ahead' <=> Ahead
    BY <1>1, ThreadNames DEF Ahead
  <2>3. CountSound'
    <3>1. \A u \in Changers : th'[u].pc \in {"dec_store", "inc_store"} => th'[u].reg = client_count
      BY <1>1, <2>1, ThreadNames DEF CountSound
    <3> QED
      BY <1>1, <1>10, <2>1, <2>2, <3>1 DEF CountSound
  <2>4. RemovalSound'
    BY <1>1, <1>10, <2>1, ThreadNames DEF RemovalSound, RemovalKnown
  <2>5. RoomAhead'
    BY <1>1 DEF RoomAhead
  <2> QED
    BY <2>3, <2>4, <2>5
<1> QED
  BY <1>8, <1>9, <1>11, <1>12 DEF RegistryInv
-----------------------------------------------------------------------------
LEMMA InitRegistryInv == Init => RegistryInv
<1> SUFFICES ASSUME Init PROVE RegistryInv
  OBVIOUS
<1>1. /\ \A t \in Threads : th[t] = Rest
      /\ \A i \in Slots : name[i] = NoName /\ addr[i] = NoClient
      /\ client_count = 0
  BY DEF Init
<1>2. TypeOK
  <2>1. th \in [Threads -> Locals]
    BY RestTyped DEF Init
  <2>2. /\ name \in [Slots -> Names \cup {NoName}] /\ addr \in [Slots -> Clients \cup {NoClient}]
        /\ client_count \in Int /\ my_name \in [Clients -> Names]
    BY DEF Init
  <2>3. overlapped \in BOOLEAN
    BY ZenonT(30) DEF Init
  <2>4. responsive \in [Slots -> BOOLEAN]
    BY ZenonT(30) DEF Init
  <2>5. op_id \in 0..Requests /\ fate \in Causes /\ evicted \subseteq Names \cup {NoName}
    BY DatagramAssumption DEF Init, Causes
  <2>6. to_server \in [Families -> Seq(Messages)] /\ to_client \in [Clients -> Seq(Answers)]
    <3>1. <<>> \in Seq(Messages) /\ <<>> \in Seq(Answers)
      BY EmptySeq
    <3> QED
      BY <3>1 DEF Init
  <2>7. cpc \in [Clients -> ClientPcs]
    BY DEF Init, ClientPcs
  <2>8. OthersTyped
    BY <2>4, <2>5, <2>6, <2>7 DEF OthersTyped
  <2> QED
    BY <2>1, <2>2, <2>3, <2>8, TypedByParts DEF PartsTyped
<1>3. \A t \in Threads : Shape(t) /\ Knows(t) /\ th[t].pc = "rest"
  BY <1>1, RestIsQuiet, RestTyped DEF QuietAtRest
<1>4. ThreadShape /\ Searched /\ NamesUnique
  BY <1>1, <1>3, ThreadNames DEF Shape, ThreadShape, NamesUnique
<1>5. Used = {}
  BY <1>1 DEF Used
<1>6. EntriesSound
  BY <1>3, <1>5, ThreadNames DEF EntriesSound
<1>7. CountSound
  <2>1. Cardinality({}) = 0
    BY FS_EmptySet
  <2>2. ~Ahead /\ \A t \in Changers : th[t].pc = "rest"
    BY <1>3, ThreadNames DEF Ahead
  <2> QED
    BY <1>1, <1>5, <2>1, <2>2 DEF CountSound
<1>8. RemovalSound /\ RoomAhead
  BY <1>3, ThreadNames DEF Knows, RemovalSound
<1> QED
  BY <1>2, <1>4, <1>6, <1>7, <1>8 DEF RegistryInv

LEMMA RemovalStep ==
  ASSUME RegistryInv, NEW t \in Changers, handle_unregister(t)
  PROVE  RegistryInv'
BY MatchStep, ZeroNameStep, LoadCountStep, StoreDecrementStep DEF handle_unregister

LEMMA ListenerStep == RegistryInv /\ listener => RegistryInv'
<1> SUFFICES ASSUME RegistryInv, listener PROVE RegistryInv'
  OBVIOUS
<1>1. CASE \E f \in Families : Receive(f)
  BY <1>1, ReceiveStep
<1>2. CASE LoadCount("listener", "inc", "inc_store")
  BY <1>2, LoadCountStep, ThreadNames
<1>3. CASE handle_unregister("listener")
  BY <1>3, RemovalStep, ThreadNames
<1>4. CASE \/ RefuseFull \/ Scan \/ Compare \/ Refuse \/ StoreIncrement \/ SetName \/ SetAddr
           \/ SetResponsive \/ Acknowledge
  BY <1>4, RefuseFullStep, ScanStep, CompareStep, ListenerAnswersStep, SetNameStep, SetAddrStep,
     SetResponsiveStep, StoreIncrementStep
<1>5. CASE MatchPing \/ Answered
  BY <1>5, MatchPingStep, AnsweredStep
<1> QED
  BY <1>1, <1>2, <1>3, <1>4, <1>5 DEF listener, handle_register

LEMMA MonitorStep == RegistryInv /\ monitor => RegistryInv'
<1> SUFFICES ASSUME RegistryInv, monitor PROVE RegistryInv'
  OBVIOUS
<1>1. CASE handle_unregister("monitor")
  BY <1>1, RemovalStep, ThreadNames
<1> QED
  BY <1>1, WakeStep, CheckStep, TestResponsiveStep, SendPingStep, MarkUnresponsiveStep DEF monitor

LEMMA ReaderStep == RegistryInv /\ reader => RegistryInv'
BY ReadLineStep, PickStep, SendRequestStep DEF reader

(* A step of nobody.                                                       *)
LEMMA StutterStep == RegistryInv /\ UNCHANGED vars => RegistryInv'
<1> SUFFICES ASSUME RegistryInv, UNCHANGED vars PROVE RegistryInv'
  OBVIOUS
<1>1. UNCHANGED <<name, addr, responsive, client_count, th, op_id, fate, evicted, overlapped,
                  to_server, to_client, cpc, my_name>>
  BY DEF vars, registry, network, clientVars
<1>2. /\ TypeOK /\ "reader" \in Threads /\ "reader" \notin Changers
      /\ overlapped \in BOOLEAN /\ OthersTyped
  BY Typed, ThreadNames DEF RegistryInv, PartsTyped
<1>3. OthersTyped' /\ overlapped' \in BOOLEAN
  BY <1>1, <1>2 DEF OthersTyped
<1>4. Moved("reader")
  BY <1>1, <1>2, Typed DEF Moved, PartsTyped
<1>5. Clean' => Clean
  BY <1>1 DEF Clean, Overlap, Changing, Removing, Adding
<1>6. Shape("reader")' /\ Knows("reader")'
  <2>1. Addressed(R.at)' <=> Addressed(R.at)
    BY <1>1 DEF Addressed
  <2>2. ReaderShape' /\ (R.pc = "send" => Addressed(R.at))'
    BY <1>1, <2>1 DEF RegistryInv, ThreadShape, ReaderShape, EntriesSound
  <2> QED
    BY <1>2, <2>2 DEF Shape, Knows
<1> QED
  BY <1>1, <1>2, <1>3, <1>4, <1>5, <1>6, QuietStep

LEMMA RegistryInvPreserved == RegistryInv /\ [Next]_vars => RegistryInv'
BY ListenerStep, MonitorStep, ReaderStep, ClientSteps, StutterStep DEF Next, Down

(* The state of the server is what its declarations say: every thread's    *)
(* index is in the array, every message one of the protocol's.             *)
THEOREM DatagramTypeCorrect == Spec => []TypeOK
<1>1. RegistryInv => TypeOK
  BY DEF RegistryInv
<1> QED
  BY <1>1, InitRegistryInv, RegistryInvPreserved, PTL DEF Spec

(* However the monitor and the listener interleave, no two entries have    *)
(* one name, and every entry has the address of a client of its name, but  *)
(* the one the listener has just named; and as long as the two have not    *)
(* changed the registry at a time, between their changes client_count      *)
(* counts the entries.                                                     *)
THEOREM DatagramRegistrySound == Spec => []RegistrySound
<1>1. RegistryInv => RegistrySound
  <2> SUFFICES ASSUME RegistryInv PROVE RegistrySound
    OBVIOUS
  <2>1. ASSUME ~overlapped, ~Changing, ~Removing("monitor")
        PROVE  client_count = Cardinality(Used)
    <3>1. Clean
      BY <2>1 DEF Clean, Overlap
    <3>2. ~Ahead
      BY <2>1, ThreadNames DEF Changing, Adding, Removing, Ahead
    <3> QED
      BY <3>1, <3>2, UsedFinite DEF RegistryInv, CountSound
  <2> QED
    BY <2>1 DEF RegistrySound, RegistryInv, EntriesSound
<1> QED
  BY <1>1, InitRegistryInv, RegistryInvPreserved, PTL DEF Spec
-----------------------------------------------------------------------------
(* The messages.  What no step brings about stays so.                      *)
LEMMA AsksOnceKept ==
  ASSUME NEW c \in Clients, AsksOnce(c),
         Sent("REGISTER", c)' => Sent("REGISTER", c), Served(c)' => Served(c),
         Listed(c)' => Listed(c), TurnedAway(c)' => TurnedAway(c),
         cpc[c] # "start" => cpc'[c] # "start"
  PROVE  AsksOnce(c)'
BY DEF AsksOnce

(* What is known of a name stays known.                                    *)
LEMMA NamesKnownKept ==
  ASSUME NamesKnown, TypeOK, my_name' = my_name,
         \A n \in Names : Known(n) => Known(n)',
         \A i \in Slots : addr'[i] = addr[i] \/ Known(my_name[addr[i]])',
         \A c \in Clients : Due("PING", c)' => Due("PING", c) \/ Known(my_name[c]),
         \A c \in Clients : Sent("PING", c)' => Sent("PING", c) \/ Due("PING", c),
         \A c \in Clients : Sent("UNREGISTER", c)' => Sent("UNREGISTER", c) \/ cpc'[c] = "interrupted",
         \A c \in Clients : cpc[c] = "interrupted" => cpc'[c] = "interrupted"
  PROVE  NamesKnown'
<1>1. my_name \in [Clients -> Names]
  BY Typed DEF PartsTyped
<1>2. ASSUME NEW c \in Clients, Known(my_name[c]) PROVE Known(my_name[c])'
  <2>1. PICK n \in Names : n = my_name[c]
    BY <1>1
  <2>2. Known(n)'
    BY <1>2, <2>1
  <2> QED
    BY <2>1, <2>2 DEF Known, GivenUp
<1>3. ASSUME NEW i \in Slots, addr'[i] \in Clients PROVE Known(my_name[addr[i]])'
  <2>1. CASE addr'[i] = addr[i]
    <3>1. PICK c \in Clients : c = addr[i]
      BY <1>3, <2>1
    <3>2. Known(my_name[c])'
      BY <1>2, <3>1 DEF NamesKnown
    <3> QED
      BY <2>1, <3>1, <3>2
  <2> QED
    BY <2>1
<1>4. \A c \in Clients : (Due("PING", c) \/ Sent("PING", c))' => Known(my_name[c])'
  BY <1>2 DEF NamesKnown
<1>5. \A c \in Clients : Sent("UNREGISTER", c)' => cpc'[c] = "interrupted"
  BY DEF NamesKnown
<1> QED
  BY <1>3, <1>4, <1>5 DEF NamesKnown

(* Steps that only move a thread.                                          *)
Unmoved == UNCHANGED <<name, addr, evicted, to_server, to_client, cpc, my_name>>

LEMMA UnmovedMessages ==
  ASSUME Unmoved
  PROVE  /\ \A type, c : (Sent(type, c)' <=> Sent(type, c)) /\ (Due(type, c)' <=> Due(type, c))
         /\ \A n : Known(n)' <=> Known(n)
         /\ \A c : TurnedAway(c)' <=> TurnedAway(c)
<1>1. \A type, c : (Sent(type, c)' <=> Sent(type, c)) /\ (Due(type, c)' <=> Due(type, c))
  BY DEF Unmoved, Sent, Due
<1>2. \A n : Known(n)' <=> Known(n)
  BY DEF Unmoved, Known, GivenUp
<1> QED
  BY <1>1, <1>2 DEF TurnedAway, Unmoved

LEMMA UnmovedStep ==
  ASSUME RegistryInv, MessageInv, Unmoved, ListenerKnows',
         L'.pc \in Serving \cup Listing => L'.from = L.from,
         L'.pc \in Serving => L.pc \in Serving, L'.pc \in Listing => L.pc \in Listing
  PROVE  MessageInv'
<1>1. UNCHANGED <<name, addr, evicted, to_server, to_client, cpc, my_name>>
  BY DEF Unmoved
<1>2. NamesKnown'
  BY <1>1, UnmovedMessages, NamesKnownKept DEF MessageInv, RegistryInv
<1>3. SocketsSound'
  BY <1>1 DEF MessageInv, SocketsSound
<1>4. ASSUME NEW c \in Clients PROVE AsksOnce(c)'
  <2>1. (Served(c)' => Served(c)) /\ (Listed(c)' => Listed(c))
    BY <1>1 DEF Served, Listed
  <2> QED
    BY <1>1, <2>1, UnmovedMessages, AsksOnceKept DEF MessageInv
<1> QED
  BY <1>2, <1>3, <1>4 DEF MessageInv

LEMMA OtherThreadStep ==
  ASSUME RegistryInv, MessageInv, Unmoved, L' = L
  PROVE  MessageInv'
<1>1. ListenerKnows'
  BY UnmovedMessages DEF MessageInv, ListenerKnows, Unmoved
<1> QED
  BY <1>1, UnmovedStep

(* Steps of the listener to a position where there is nothing to know.     *)
LEMMA ListenerMovesOn ==
  ASSUME RegistryInv, MessageInv, Unmoved,
         L'.pc \notin {"match_ping", "set_addr", "match", "zero_name"},
         L'.pc \in Serving \cup Listing => L'.from = L.from,
         L'.pc \in Serving => L.pc \in Serving, L'.pc \in Listing => L.pc \in Listing
  PROVE  MessageInv'
<1>1. ListenerKnows'
  BY DEF ListenerKnows
<1> QED
  BY <1>1, UnmovedStep

LEMMA QuietUnmoved == ASSUME Quiet, UNCHANGED <<name, addr>> PROVE Unmoved
BY DEF Quiet, Unmoved, network, clientVars

(* At the end of the server there is nothing left to know.                 *)
LEMMA FallsMessages ==
  ASSUME RegistryInv, MessageInv, NEW why \in Causes, Falls(why)
  PROVE  MessageInv'
<1>1. /\ \A t \in Threads : th'[t] = Rest
      /\ \A i \in Slots : addr'[i] = NoClient
      /\ \A f \in Families : to_server'[f] = <<>>
      /\ \A c \in Clients : to_client'[c] = <<>>
      /\ UNCHANGED <<cpc, my_name>>
  BY FallsFacts DEF RegistryInv
<1>2. L'.pc = "rest"
  BY <1>1, ThreadNames, RestTyped
<1>3. \A type : \A c \in Clients : ~Sent(type, c)' /\ ~Due(type, c)'
  BY <1>1 DEF Sent, Due
<1>4. NamesKnown' /\ ListenerKnows' /\ SocketsSound'
  BY <1>1, <1>2, <1>3, SlotFacts DEF NamesKnown, ListenerKnows, SocketsSound
<1>5. ASSUME NEW c \in Clients PROVE AsksOnce(c)'
  <2>1. ~Served(c)' /\ ~Listed(c)'
    BY <1>1, <1>2, SlotFacts DEF Served, Listed, Serving, Listing
  <2> QED
    BY <1>1, <1>3, <2>1, AsksOnceKept DEF MessageInv, TurnedAway
<1> QED
  BY <1>4, <1>5 DEF MessageInv

(* What the monitor and the reader do by themselves.                       *)
LEMMA MonitorMoves ==
  ASSUME TypeOK, Returns("monitor") \/ \E p \in Pcs : Goes("monitor", p)
  PROVE  L' = L
BY Typed, ThreadNames DEF PartsTyped, Returns, Rests, Goes

LEMMA MonitorMessages ==
  ASSUME RegistryInv, MessageInv,
         \/ Wake \/ Check \/ TestResponsive \/ MarkUnresponsive \/ Match("monitor")
         \/ LoadCount("monitor", "dec", "dec_store") \/ StoreDecrement("monitor")
  PROVE  MessageInv'
<1>1. TypeOK /\ "monitor" \in Changers
  BY ThreadNames DEF RegistryInv
<1>2. Unmoved
  <2>1. Quiet /\ UNCHANGED <<name, addr>>
    BY DEF Wake, Check, TestResponsive, MarkUnresponsive, Match, LoadCount, StoreDecrement, registry
  <2> QED
    BY <2>1, QuietUnmoved
<1>3. L' = L
  <2>1. CASE Wake
    BY <1>1, <2>1, Typed, ThreadNames DEF PartsTyped, Wake
  <2>2. CASE Check \/ TestResponsive \/ MarkUnresponsive \/ StoreDecrement("monitor")
    <3>1. Returns("monitor") \/ \E p \in Pcs : Goes("monitor", p)
      BY <2>2 DEF Check, TestResponsive, MarkUnresponsive, StoreDecrement, Pcs
    <3> QED
      BY <1>1, <3>1, MonitorMoves
  <2>3. CASE Match("monitor")
    <3>1. CASE Goes("monitor", "zero_name") \/ Returns("monitor")
      BY <1>1, <3>1, MonitorMoves DEF Pcs
    <3>2. CASE th' = [th EXCEPT !["monitor"].at = @ + 1]
      BY <1>1, <3>2, Typed, ThreadNames DEF PartsTyped
    <3> QED
      BY <2>3, <3>1, <3>2 DEF Match, SearchesOn
  <2>4. CASE LoadCount("monitor", "dec", "dec_store")
    BY <1>1, <2>4, Typed, ThreadNames DEF PartsTyped, LoadCount
  <2> QED
    BY <2>1, <2>2, <2>3, <2>4
<1> QED
  BY <1>2, <1>3, OtherThreadStep

LEMMA ReaderMessages ==
  ASSUME RegistryInv, MessageInv, ReadLine \/ Pick
  PROVE  MessageInv'
<1>1. TypeOK
  BY DEF RegistryInv
<1>2. Moved("reader") /\ Unmoved
  BY <1>1, ReadLineMoves, PickMoves, QuietUnmoved DEF Unmoved, registry
<1>3. L' = L
  BY <1>2, ThreadNames DEF Moved
<1> QED
  BY <1>2, <1>3, OtherThreadStep

(* The listener's own steps.                                               *)
LEMMA ListenerRests ==
  ASSUME RegistryInv, MessageInv, Unmoved, Rests("listener")
  PROVE  MessageInv'
<1>1. L' = Rest
  BY RestsMoves, ThreadNames DEF RegistryInv
<1> QED
  BY <1>1, RestTyped, ListenerMovesOn DEF Serving, Listing

LEMMA ListenerGoes ==
  ASSUME RegistryInv, MessageInv, Unmoved, NEW p \in Pcs, Goes("listener", p),
         p \notin {"match_ping", "set_addr", "match", "zero_name"},
         p \in Serving => L.pc \in Serving, p \in Listing => L.pc \in Listing
  PROVE  MessageInv'
<1>1. L'.pc = p /\ L'.from = L.from
  BY GoesMoves, ThreadNames DEF RegistryInv
<1> QED
  BY <1>1, ListenerMovesOn

LEMMA RegisterMessages ==
  ASSUME RegistryInv, MessageInv,
         \/ RefuseFull \/ Scan \/ LoadCount("listener", "inc", "inc_store") \/ StoreIncrement
         \/ SetResponsive \/ (Compare /\ ~Falls("full"))
  PROVE  MessageInv'
<1>1. TypeOK /\ "listener" \in Changers /\ L \in Locals
  BY Typed, ThreadNames DEF RegistryInv
<1>2. Unmoved
  <2>1. Quiet /\ UNCHANGED <<name, addr>>
    BY DEF RefuseFull, Scan, LoadCount, StoreIncrement, SetResponsive, Compare, registry
  <2> QED
    BY <2>1, QuietUnmoved
<1>3. ASSUME NEW a \in Slots \cup {-1}, ScansOn(L.at + 1, a), L.pc \in {"scan", "compare"}
      PROVE  MessageInv'
  <2>1. L.at + 1 \in Nat /\ L.at + 1 <= MaxClients
    BY <1>1, SlotFacts DEF Locals
  <2>2. L'.from = L.from /\ L'.pc \in {"scan", "inc"}
    BY <1>1, <1>3, <2>1, ScansOnMoves
  <2> QED
    BY <1>2, <1>3, <2>2, ListenerMovesOn DEF Serving, Listing
<1>4. CASE RefuseFull
  BY <1>2, <1>4, ListenerRests, ListenerGoes DEF RefuseFull, ListenerAt, At, Pcs, Serving, Listing
<1>5. CASE Scan
  <2>1. L.pc = "scan" /\ (ScansOn(L.at + 1, L.at) \/ Goes("listener", "compare"))
    BY <1>5 DEF Scan, ListenerAt, At
  <2>2. CASE ScansOn(L.at + 1, L.at)
    <3>1. PICK a \in Slots \cup {-1} : a = L.at
      BY <1>1 DEF Locals
    <3>2. ScansOn(L.at + 1, a)
      BY <2>2, <3>1
    <3> QED
      BY <1>3, <2>1, <3>2
  <2> QED
    BY <1>2, <2>1, <2>2, ListenerGoes DEF Pcs, Serving, Listing
<1>6. CASE Compare /\ ~Falls("full")
  <2>1. L.pc = "compare" /\ (ScansOn(L.at + 1, L.avail) \/ Goes("listener", "refuse"))
    BY <1>6 DEF Compare, ListenerAt, At
  <2>2. CASE ScansOn(L.at + 1, L.avail)
    <3>1. PICK a \in Slots \cup {-1} : a = L.avail
      BY <1>1 DEF Locals
    <3>2. ScansOn(L.at + 1, a)
      BY <2>2, <3>1
    <3> QED
      BY <1>3, <2>1, <3>2
  <2> QED
    BY <1>2, <2>1, <2>2, ListenerGoes DEF Pcs, Serving, Listing
<1>7. CASE LoadCount("listener", "inc", "inc_store")
  <2>1. L.pc = "inc" /\ L'.pc = "inc_store" /\ L'.from = L.from
    BY <1>1, <1>7, LoadCountMoves DEF Pcs
  <2> QED
    BY <1>2, <2>1, ListenerMovesOn DEF Serving, Listing
<1>8. CASE StoreIncrement \/ SetResponsive
  BY <1>2, <1>8, ListenerGoes
     DEF StoreIncrement, SetResponsive, ListenerAt, At, Pcs, Serving, Listing
<1> QED
  BY <1>4, <1>5, <1>6, <1>7, <1>8

LEMMA PingMessages ==
  ASSUME RegistryInv, MessageInv, Answered \/ (MatchPing /\ ~Falls("late"))
  PROVE  MessageInv'
<1>1. TypeOK /\ "listener" \in Threads
  BY ThreadNames DEF RegistryInv
<1>2. Unmoved
  <2>1. Quiet /\ UNCHANGED <<name, addr>>
    BY DEF Answered, MatchPing, registry
  <2> QED
    BY <2>1, QuietUnmoved
<1>3. CASE Answered
  BY <1>2, <1>3, ListenerRests DEF Answered
<1>4. CASE MatchPing /\ Goes("listener", "answered")
  BY <1>2, <1>4, ListenerGoes DEF MatchPing, Pcs, Serving, Listing
<1>5. CASE MatchPing /\ ~Falls("late") /\ ~Goes("listener", "answered")
  <2>1. /\ L.pc = "match_ping" /\ name[L.at] # L.arg /\ L.at + 1 < MaxClients
        /\ SearchesOn("listener", FALSE)
    BY <1>5 DEF MatchPing, ListenerAt, At
  <2>2. /\ L'.at = L.at + 1 /\ L'.pc = L.pc /\ L'.arg = L.arg /\ L'.from = L.from
    BY <1>1, <2>1, SearchMoves
  <2>3. L \in Locals
    BY <1>1, Typed
  <2>4. Known(L.arg) /\ \A j \in Slots : j < L.at => name[j] # L.arg
    BY <2>1 DEF MessageInv, ListenerKnows
  <2>5. \A j \in Slots : j < L.at + 1 => name[j] # L.arg
    BY <2>1, <2>3, <2>4, SlotFacts DEF Locals
  <2>6. Known(L.arg)'
    BY <1>2, <2>2, <2>4 DEF Known, GivenUp, Unmoved
  <2>7. ListenerKnows'
    BY <1>2, <2>1, <2>2, <2>5, <2>6 DEF ListenerKnows, Unmoved
  <2> QED
    BY <1>2, <2>1, <2>2, <2>7, UnmovedStep DEF Serving, Listing
<1> QED
  BY <1>3, <1>4, <1>5

LEMMA UnregisterMessages ==
  ASSUME RegistryInv, MessageInv,
         \/ Match("listener") \/ LoadCount("listener", "dec", "dec_store")
         \/ StoreDecrement("listener")
  PROVE  MessageInv'
<1>1. TypeOK /\ "listener" \in Changers /\ "listener" \in Threads /\ L.own = -1
  BY ThreadNames DEF RegistryInv, ThreadShape, ListenerShape
<1>2. Unmoved
  <2>1. Quiet /\ UNCHANGED <<name, addr>>
    BY DEF Match, LoadCount, StoreDecrement, registry
  <2> QED
    BY <2>1, QuietUnmoved
<1>3. CASE Returns("listener")
  <2>1. Rests("listener")
    BY <1>3 DEF Returns
  <2> QED
    BY <1>2, <2>1, ListenerRests
<1>4. CASE Match("listener") /\ Goes("listener", "zero_name")
  <2>1. L.pc = "match"
    BY <1>4 DEF Match, At
  <2>2. L'.pc = "zero_name" /\ L'.at = L.at /\ L'.arg = L.arg /\ L'.from = L.from
    BY <1>1, <1>4, GoesMoves DEF Pcs
  <2>3. name[L.at] = L.arg
    <3>1. CASE name[L.at] = Sought("listener")
      BY <1>1, <3>1, SlotFacts DEF Sought
    <3>2. CASE name[L.at] # Sought("listener")
      <4>1. SearchesOn("listener", Returns("listener"))
        BY <1>4, <3>2 DEF Match
      <4>2. Returns("listener") \/ L'.pc = L.pc
        BY <1>1, <4>1, SearchMoves
      <4>3. Returns("listener") => L'.pc = "rest"
        BY <1>1, ReturnsMoves, RestTyped
      <4> QED
        BY <2>1, <2>2, <4>2, <4>3
    <3> QED
      BY <3>1, <3>2
  <2>4. ListenerKnows'
    BY <1>2, <2>1, <2>2, <2>3 DEF ListenerKnows, MessageInv, Unmoved
  <2> QED
    BY <1>2, <2>2, <2>4, UnmovedStep DEF Serving, Listing
<1>5. CASE Match("listener") /\ ~Goes("listener", "zero_name") /\ ~Returns("listener")
  <2>1. L.pc = "match" /\ SearchesOn("listener", Returns("listener"))
    BY <1>5 DEF Match, At
  <2>2. L'.pc = L.pc /\ L'.from = L.from
    BY <1>1, <1>5, <2>1, SearchMoves
  <2>3. ListenerKnows'
    BY <1>2, <2>1, <2>2 DEF ListenerKnows, MessageInv, Unmoved
  <2> QED
    BY <1>2, <2>1, <2>2, <2>3, UnmovedStep DEF Serving, Listing
<1>6. CASE LoadCount("listener", "dec", "dec_store")
  <2>1. L'.pc = "dec_store"
    BY <1>1, <1>6, LoadCountMoves DEF Pcs
  <2> QED
    BY <1>2, <2>1, ListenerMovesOn DEF Serving, Listing
<1> QED
  BY <1>3, <1>4, <1>5, <1>6 DEF StoreDecrement

(* The steps that change the entries.                                      *)
LEMMA ZeroNameMessages ==
  ASSUME RegistryInv, MessageInv, NEW t \in Changers, ZeroName(t)
  PROVE  MessageInv'
<1>1. TypeOK
  BY DEF RegistryInv
<1>2. /\ th[t].pc = "zero_name" /\ t \in Threads /\ Moved(t) /\ th'[t].pc = "dec"
      /\ UNCHANGED <<addr, to_server, to_client, cpc, my_name>>
  BY <1>1, ZeroNameMoves
<1>3. PICK v \in Slots : v = th[t].at
  BY <1>1, ZeroNameMoves
<1>4. \A i \in Slots : name'[i] = IF i = v THEN NoName ELSE name[i]
  BY <1>1, <1>3, ZeroNameMoves
<1>5. /\ evicted \subseteq evicted'
      /\ t = "monitor" => name[v] \in evicted'
  BY <1>1, <1>3, ZeroNameMoves
<1>6. t = "monitor" => L' = L
  BY <1>2, ThreadNames DEF Moved
<1>7. t = "listener" => name[v] \in GivenUp' \cup {NoName}
  <2> SUFFICES ASSUME t = "listener", name[v] # NoName PROVE name[v] \in GivenUp'
    OBVIOUS
  <2>1. name[v] = L.arg /\ cpc[L.from] = "interrupted"
    BY <1>2, <1>3 DEF MessageInv, ListenerKnows
  <2>2. L.from \in Clients /\ L.arg = my_name[L.from]
    BY <1>2 DEF RegistryInv, ThreadShape, ListenerShape
  <2> QED
    BY <1>2, <2>1, <2>2 DEF GivenUp
<1>8. ASSUME NEW n \in Names, Known(n) PROVE Known(n)'
  <2>1. n # NoName
    BY SlotFacts
  <2>2. GivenUp \subseteq GivenUp'
    BY <1>2, <1>5 DEF GivenUp
  <2>3. n = name[v] => n \in GivenUp'
    BY <1>5, <1>7, <2>1, ThreadNames DEF GivenUp
  <2> QED
    BY <1>4, <1>8, <2>2, <2>3 DEF Known
<1>9. \A type, c : (Sent(type, c)' <=> Sent(type, c)) /\ (Due(type, c)' <=> Due(type, c))
  BY <1>2 DEF Sent, Due
<1>10. NamesKnown'
  BY <1>1, <1>2, <1>8, <1>9, NamesKnownKept DEF MessageInv
<1>11. ListenerKnows'
  <2>1. CASE t = "listener"
    BY <1>2, <2>1 DEF ListenerKnows
  <2>2. CASE t = "monitor"
    <3>1. L.pc # "rest" => L.arg \in Names
      BY <1>1, Typed DEF PartsTyped, RegistryInv, ThreadShape, ListenerShape
    <3>2. L.pc = "set_addr" => L.avail \in Slots
      BY DEF RegistryInv, ThreadShape, ListenerShape, Filling
    <3>3. L \in Locals
      BY <1>1, Typed, ThreadNames
    <3>4. L.pc = "match_ping" => Known(L.arg)'
      <4> SUFFICES ASSUME L.pc = "match_ping" PROVE Known(L.arg)'
        OBVIOUS
      <4>1. PICK n \in Names : n = L.arg
        BY <3>1
      <4>2. Known(n)'
        BY <1>8, <4>1 DEF MessageInv, ListenerKnows
      <4> QED
        BY <1>6, <2>2, <4>1, <4>2 DEF Known, GivenUp
    <3>5. L.pc = "match_ping" => \A j \in Slots : j < L.at => name'[j] # L.arg
      BY <1>4, <3>1, SlotFacts DEF MessageInv, ListenerKnows
    <3>6. L.pc = "set_addr" => name'[L.avail] = L.arg \/ L.arg \in evicted'
      BY <1>4, <1>5, <2>2, <3>2 DEF MessageInv, ListenerKnows
    <3>7. L.pc = "zero_name" => name'[L.at] \in {L.arg, NoName}
      BY <1>4, <3>3 DEF MessageInv, ListenerKnows, Locals
    <3> QED
      BY <1>2, <1>6, <2>2, <3>4, <3>5, <3>6, <3>7 DEF ListenerKnows, MessageInv
  <2> QED
    BY <2>1, <2>2, ThreadNames
<1>12. SocketsSound'
  BY <1>2 DEF MessageInv, SocketsSound
<1>13. ASSUME NEW c \in Clients PROVE AsksOnce(c)'
  <2>1. Served(c)' => Served(c)
    BY <1>2, <1>6, ThreadNames DEF Served, Serving
  <2>2. Listed(c)' => Listed(c)
    BY <1>2, <1>6, ThreadNames DEF Listed, Listing
  <2> QED
    BY <1>2, <1>9, <2>1, <2>2, AsksOnceKept DEF MessageInv, TurnedAway
<1> QED
  BY <1>10, <1>11, <1>12, <1>13 DEF MessageInv

LEMMA SetNameMessages ==
  ASSUME RegistryInv, MessageInv, SetName
  PROVE  MessageInv'
<1>1. /\ TypeOK /\ L.pc = "set_name" /\ L.arg \in Names /\ name[L.avail] = NoName
      /\ L'.pc = "set_addr" /\ L'.from = L.from /\ L'.arg = L.arg /\ L'.avail = L.avail
      /\ UNCHANGED <<addr, evicted, to_server, to_client, cpc, my_name>>
  BY SetNameMoves
<1>2. PICK v \in Slots : v = L.avail
  BY SetNameMoves
<1>3. PICK m \in Names : m = L.arg
  BY <1>1
<1>4. \A i \in Slots : name'[i] = IF i = v THEN m ELSE name[i]
  BY <1>2, <1>3, SetNameMoves
<1>5. ASSUME NEW n \in Names, Known(n) PROVE Known(n)'
  <2>1. n # NoName /\ GivenUp' = GivenUp
    BY <1>1, SlotFacts DEF GivenUp
  <2> QED
    BY <1>1, <1>2, <1>4, <1>5, <2>1 DEF Known
<1>6. \A type, c : (Sent(type, c)' <=> Sent(type, c)) /\ (Due(type, c)' <=> Due(type, c))
  BY <1>1 DEF Sent, Due
<1>7. NamesKnown'
  BY <1>1, <1>5, <1>6, NamesKnownKept DEF MessageInv
<1>8. ListenerKnows'
  BY <1>1, <1>2, <1>3, <1>4 DEF ListenerKnows
<1>9. SocketsSound'
  BY <1>1 DEF MessageInv, SocketsSound
<1>10. ASSUME NEW c \in Clients PROVE AsksOnce(c)'
  <2>1. (Served(c)' => Served(c)) /\ (Listed(c)' => Listed(c))
    BY <1>1 DEF Served, Serving, Listed, Listing
  <2> QED
    BY <1>1, <1>6, <2>1, AsksOnceKept DEF MessageInv, TurnedAway
<1> QED
  BY <1>7, <1>8, <1>9, <1>10 DEF MessageInv

LEMMA SetAddrMessages ==
  ASSUME RegistryInv, MessageInv, SetAddr
  PROVE  MessageInv'
<1>1. /\ TypeOK /\ L.pc = "set_addr" /\ L.arg = my_name[L.from]
      /\ L'.pc = "set_responsive" /\ L'.from = L.from /\ L'.arg = L.arg
      /\ UNCHANGED <<name, evicted, to_server, to_client, cpc, my_name>>
  BY SetAddrMoves
<1>2. PICK v \in Slots : v = L.avail
  BY SetAddrMoves
<1>3. PICK d \in Clients : d = L.from
  BY SetAddrMoves
<1>4. \A i \in Slots : addr'[i] = IF i = v THEN d ELSE addr[i]
  BY <1>2, <1>3, SetAddrMoves
<1>5. \A n : Known(n)' <=> Known(n)
  BY <1>1 DEF Known, GivenUp
<1>6. Known(my_name[d])
  BY <1>1, <1>2, <1>3 DEF MessageInv, ListenerKnows, Known, GivenUp
<1>7. \A i \in Slots : addr'[i] = addr[i] \/ Known(my_name[addr[i]])'
  <2> SUFFICES ASSUME NEW i \in Slots, addr'[i] # addr[i] PROVE Known(my_name[addr[i]])'
    OBVIOUS
  <2>1. addr'[i] = d
    BY <1>4
  <2> QED
    BY <1>1, <1>6, <2>1 DEF Known, GivenUp
<1>8. \A type, c : (Sent(type, c)' <=> Sent(type, c)) /\ (Due(type, c)' <=> Due(type, c))
  BY <1>1 DEF Sent, Due
<1>9. NamesKnown'
  BY <1>1, <1>5, <1>7, <1>8, NamesKnownKept DEF MessageInv
<1>10. ListenerKnows'
  BY <1>1 DEF ListenerKnows
<1>11. SocketsSound'
  BY <1>1 DEF MessageInv, SocketsSound
<1>12. ASSUME NEW c \in Clients PROVE AsksOnce(c)'
  <2>1. ~Served(c)'
    BY <1>1 DEF Served, Serving
  <2>2. TurnedAway(c)' <=> TurnedAway(c)
    BY <1>1, <1>8 DEF TurnedAway
  <2>3. CASE c = d
    <3>1. Served(c) /\ AsksOnce(c)
      BY <1>1, <1>3, <2>3 DEF Served, Serving, MessageInv
    <3>2. ~Sent("REGISTER", c)' /\ ~TurnedAway(c)' /\ cpc'[c] # "start"
      BY <1>1, <1>8, <2>2, <3>1 DEF AsksOnce
    <3> QED
      BY <2>1, <3>2 DEF AsksOnce
  <2>4. CASE c # d
    <3>1. Listed(c)' => Listed(c)
      BY <1>1, <1>3, <1>4, <2>4 DEF Listed, Listing
    <3> QED
      BY <1>1, <1>8, <2>1, <2>2, <3>1, AsksOnceKept DEF MessageInv
  <2> QED
    BY <2>3, <2>4
<1> QED
  BY <1>9, <1>10, <1>11, <1>12 DEF MessageInv

(* The messages the server sends.                                          *)
LEMMA DueAppended ==
  ASSUME TypeOK, NEW c \in Clients, NEW type \in Answers,
         to_client' = [to_client EXCEPT ![c] = Append(@, type)] \/ UNCHANGED to_client
  PROVE  \A a : \A d \in Clients : Due(a, d)' => Due(a, d) \/ (a = type /\ d = c)
<1> SUFFICES ASSUME NEW a, NEW d \in Clients, Due(a, d)', ~Due(a, d) PROVE a = type /\ d = c
  OBVIOUS
<1>1. to_client \in [Clients -> Seq(Answers)]
  BY Typed DEF PartsTyped, OthersTyped
<1>2. PICK k \in 1..Len(to_client'[d]) : to_client'[d][k] = a
  BY DEF Due
<1>3. to_client'[d] # to_client[d]
  BY <1>2 DEF Due
<1>4. d = c /\ to_client'[c] = Append(to_client[c], type)
  BY <1>1, <1>3
<1>5. /\ Len(Append(to_client[c], type)) = Len(to_client[c]) + 1
      /\ \A i \in 1..Len(to_client[c]) : Append(to_client[c], type)[i] = to_client[c][i]
      /\ Append(to_client[c], type)[Len(to_client[c]) + 1] = type
  BY <1>1, AppendProperties
<1>6. Len(to_client[c]) \in Nat
  BY <1>1, LenProperties
<1>7. CASE k = Len(to_client[c]) + 1
  BY <1>2, <1>4, <1>5, <1>7
<1>8. CASE k # Len(to_client[c]) + 1
  <2>1. k \in 1..Len(to_client[c])
    BY <1>2, <1>4, <1>5, <1>6, <1>8
  <2> QED
    BY <1>2, <1>4, <1>5, <2>1 DEF Due
<1> QED
  BY <1>7, <1>8

LEMMA SentMessages ==
  ASSUME RegistryInv, MessageInv, NEW c \in Clients, NEW type \in Answers,
         to_client' = [to_client EXCEPT ![c] = Append(@, type)] \/ UNCHANGED to_client,
         UNCHANGED <<name, addr, evicted, to_server, cpc, my_name>>,
         L' = L \/ L' = Rest,
         type = "PING" => Known(my_name[c]),
         type = "NAME_TAKEN" => Served(c) /\ L' = Rest
  PROVE  MessageInv'
<1>1. TypeOK
  BY DEF RegistryInv
<1>2. \A a : \A d \in Clients : Due(a, d)' => Due(a, d) \/ (a = type /\ d = c)
  BY <1>1, DueAppended
<1>3. \A a, d : Sent(a, d)' <=> Sent(a, d)
  BY DEF Sent
<1>4. \A n : Known(n)' <=> Known(n)
  BY DEF Known, GivenUp
<1>5. NamesKnown'
  BY <1>1, <1>2, <1>3, <1>4, NamesKnownKept DEF MessageInv
<1>6. ListenerKnows'
  <2>1. CASE L' = Rest
    BY <2>1, RestTyped DEF ListenerKnows
  <2>2. CASE L' = L
    BY <1>4, <2>2 DEF ListenerKnows, MessageInv, Known, GivenUp
  <2> QED
    BY <2>1, <2>2
<1>7. SocketsSound'
  BY DEF MessageInv, SocketsSound
<1>8. ASSUME NEW d \in Clients PROVE AsksOnce(d)'
  <2>1. (Served(d)' => Served(d)) /\ (Listed(d)' => Listed(d))
    BY RestTyped DEF Served, Serving, Listed, Listing
  <2>2. CASE type = "NAME_TAKEN" /\ d = c
    <3>1. AsksOnce(d) /\ Served(d)
      BY <2>2 DEF MessageInv
    <3>2. ~Served(d)'
      BY <2>2, RestTyped DEF Served, Serving
    <3> QED
      BY <1>3, <2>1, <3>1, <3>2 DEF AsksOnce
  <2>3. CASE ~(type = "NAME_TAKEN" /\ d = c)
    <3>1. TurnedAway(d)' => TurnedAway(d)
      BY <1>2, <2>3 DEF TurnedAway
    <3> QED
      BY <1>3, <2>1, <3>1, AsksOnceKept DEF MessageInv
  <2> QED
    BY <2>2, <2>3
<1> QED
  BY <1>5, <1>6, <1>7, <1>8 DEF MessageInv

(* A send either ends the server or brings a message on its way.           *)
LEMMA SendMessages ==
  ASSUME RegistryInv, MessageInv, NEW c \in Clients \cup {NoClient}, NEW type \in Answers,
         NEW ACTION goesOn, SendTo(c, type, goesOn),
         goesOn => L' = L \/ L' = Rest,
         c \in Clients /\ type = "PING" => Known(my_name[c]),
         goesOn /\ type = "NAME_TAKEN" => Served(c) /\ L' = Rest
  PROVE  MessageInv'
<1>1. CASE Falls("unaddressed") \/ Falls("refused")
  BY <1>1, FallsMessages DEF Causes
<1>2. CASE /\ c \in Clients /\ goesOn /\ Noted
           /\ UNCHANGED <<name, addr, responsive, client_count, op_id, fate, evicted, to_server,
                          cpc, my_name>>
           /\ \/ to_client' = [to_client EXCEPT ![c] = Append(@, type)]
              \/ UNCHANGED to_client
  BY <1>2, SentMessages
<1> QED
  BY <1>1, <1>2, SendMoves DEF RegistryInv

LEMMA ListenerSends ==
  ASSUME RegistryInv, MessageInv, Refuse \/ Acknowledge
  PROVE  MessageInv'
<1>1. TypeOK /\ L.pc \in {"refuse", "ack"}
  BY DEF RegistryInv, Refuse, Acknowledge, ListenerAt, At
<1>2. PICK c \in Clients : c = L.from
  BY <1>1 DEF RegistryInv, ThreadShape, ListenerShape
<1>3. Rests("listener") => L' = Rest
  BY <1>1, RestsMoves, ThreadNames
<1>4. CASE Refuse
  <2>1. SendTo(c, "NAME_TAKEN", Rests("listener")) /\ Served(c)
    BY <1>2, <1>4 DEF Refuse, ListenerAt, At, Served, Serving
  <2> QED
    BY <1>2, <1>3, <2>1, SendMessages DEF Answers
<1>5. CASE Acknowledge
  <2>1. SendTo(c, "REGISTER_ACK", Rests("listener"))
    BY <1>2, <1>5 DEF Acknowledge
  <2> QED
    BY <1>2, <1>3, <2>1, SendMessages DEF Answers
<1> QED
  BY <1>4, <1>5

LEMMA SendPingMessages == RegistryInv /\ MessageInv /\ SendPing => MessageInv'
<1> SUFFICES ASSUME RegistryInv, MessageInv, SendPing PROVE MessageInv'
  OBVIOUS
<1>1. TypeOK /\ M.pc = "ping" /\ M.own \in Slots
  BY DEF RegistryInv, ThreadShape, MonitorShape, SendPing, MonitorAt, At
<1>2. PICK c \in Clients \cup {NoClient} : c = addr[M.own]
  BY <1>1, Typed DEF PartsTyped
<1>3. SendTo(c, "PING", Goes("monitor", "mark"))
  BY <1>2 DEF SendPing
<1>4. Goes("monitor", "mark") => L' = L
  BY <1>1, MonitorMoves DEF Pcs
<1>5. c \in Clients => Known(my_name[c])
  BY <1>1, <1>2 DEF MessageInv, NamesKnown
<1> QED
  BY <1>3, <1>4, <1>5, SendMessages DEF Answers

LEMMA SendRequestMessages == RegistryInv /\ MessageInv /\ SendRequest => MessageInv'
<1> SUFFICES ASSUME RegistryInv, MessageInv, SendRequest PROVE MessageInv'
  OBVIOUS
<1>1. TypeOK /\ R \in Locals
  BY Typed, ThreadNames DEF RegistryInv
<1>2. PICK c \in Clients \cup {NoClient} : c = addr[R.at]
  BY <1>1, Typed DEF PartsTyped, Locals
<1>3. SendTo(c, "ARITH", Rests("reader"))
  BY <1>2 DEF SendRequest
<1>4. Rests("reader") => L' = L
  BY <1>1, RestsMoves, ThreadNames DEF Moved
<1> QED
  BY <1>3, <1>4, SendMessages DEF Answers

(* A message that is received is no longer on its way.                     *)
LEMMA SentRemoved ==
  ASSUME TypeOK, NEW f \in Families, NEW k \in 1..Len(to_server[f]),
         to_server' = [to_server EXCEPT ![f] = RemoveAt(@, k)]
  PROVE  /\ \A g \in Families : g # f => to_server'[g] = to_server[g]
         /\ \A j \in 1..Len(to_server'[f]) :
                \E i \in 1..Len(to_server[f]) : i # k /\ to_server'[f][j] = to_server[f][i]
         /\ \A a, c : Sent(a, c)' => Sent(a, c)
<1>1. to_server \in [Families -> Seq(Messages)]
  BY Typed DEF PartsTyped, OthersTyped
<1>2. Len(to_server[f]) \in Nat /\ k \in Nat
  BY <1>1, LenProperties
<1>3. to_server'[f] = RemoveAt(to_server[f], k) /\ \A g \in Families : g # f => to_server'[g] = to_server[g]
  BY <1>1
<1>4. /\ Len(to_server'[f]) = Len(to_server[f]) - 1
      /\ \A j \in 1..(Len(to_server[f]) - 1) :
             to_server'[f][j] = to_server[f][IF j < k THEN j ELSE j + 1]
  BY <1>1, <1>3, RemoveAtFacts
<1>5. ASSUME NEW j \in 1..Len(to_server'[f])
      PROVE  \E i \in 1..Len(to_server[f]) : i # k /\ to_server'[f][j] = to_server[f][i]
  <2> DEFINE i == IF j < k THEN j ELSE j + 1
  <2>1. j \in 1..(Len(to_server[f]) - 1)
    BY <1>4
  <2>2. i \in 1..Len(to_server[f]) /\ i # k
    BY <1>2, <2>1
  <2>3. to_server'[f][j] = to_server[f][i]
    BY <1>4, <2>1
  <2> QED
    BY <2>2, <2>3
<1>6. ASSUME NEW a, NEW c, Sent(a, c)' PROVE Sent(a, c)
  <2>1. PICK g \in Families : \E j \in 1..Len(to_server'[g]) : to_server'[g][j] = Message(a, c)
    BY <1>6 DEF Sent, Message
  <2>2. CASE g = f
    <3>1. PICK j \in 1..Len(to_server'[f]) : to_server'[f][j] = Message(a, c)
      BY <2>1, <2>2
    <3>2. PICK i \in 1..Len(to_server[f]) : to_server'[f][j] = to_server[f][i]
      BY <1>5, <3>1
    <3> QED
      BY <3>1, <3>2 DEF Sent
  <2>3. CASE g # f
    BY <1>3, <2>1, <2>3 DEF Sent
  <2> QED
    BY <2>2, <2>3
<1> QED
  BY <1>3, <1>5, <1>6

LEMMA SocketsShrink ==
  ASSUME TypeOK, SocketsSound, NEW f \in Families, NEW k \in 1..Len(to_server[f]),
         to_server' = [to_server EXCEPT ![f] = RemoveAt(@, k)]
  PROVE  /\ SocketsSound'
         /\ \A c : to_server[f][k] = Message("REGISTER", c) => ~Sent("REGISTER", c)'
<1>1. to_server \in [Families -> Seq(Messages)]
  BY Typed DEF PartsTyped, OthersTyped
<1>2. Len(to_server[f]) \in Nat /\ k \in Nat
  BY <1>1, LenProperties
<1>3. to_server'[f] = RemoveAt(to_server[f], k) /\ \A g \in Families : g # f => to_server'[g] = to_server[g]
  BY <1>1
<1> DEFINE was(j) == IF j < k THEN j ELSE j + 1
<1>4. /\ Len(to_server'[f]) = Len(to_server[f]) - 1
      /\ \A j \in 1..(Len(to_server[f]) - 1) : to_server'[f][j] = to_server[f][was(j)]
  BY <1>1, <1>3, RemoveAtFacts
<1>5. \A j \in 1..Len(to_server'[f]) :
          was(j) \in 1..Len(to_server[f]) /\ was(j) # k /\ to_server'[f][j] = to_server[f][was(j)]
  BY <1>2, <1>4
<1>6. \A i, j \in 1..Len(to_server'[f]) : was(i) = was(j) => i = j
  BY <1>2, <1>4
<1> HIDE DEF was
<1>7. SocketsSound'
  <2> SUFFICES ASSUME NEW g \in Families, NEW j \in 1..Len(to_server'[g])
               PROVE  /\ g = Family(to_server'[g][j].from)
                      /\ to_server'[g][j].type = "REGISTER" =>
                             \A l \in 1..Len(to_server'[g]) :
                                 to_server'[g][l] = to_server'[g][j] => l = j
    BY DEF SocketsSound, Family
  <2>1. CASE g = f
    <3>1. /\ was(j) \in 1..Len(to_server[f]) /\ to_server'[f][j] = to_server[f][was(j)]
          /\ \A l \in 1..Len(to_server'[f]) :
                 was(l) \in 1..Len(to_server[f]) /\ to_server'[f][l] = to_server[f][was(l)]
      BY <1>5, <2>1
    <3>2. /\ f = Family(to_server[f][was(j)].from)
          /\ to_server[f][was(j)].type = "REGISTER" =>
                 \A l \in 1..Len(to_server[f]) : to_server[f][l] = to_server[f][was(j)] => l = was(j)
      BY <3>1 DEF SocketsSound
    <3> QED
      BY <1>6, <2>1, <3>1, <3>2, SMTT(40)
  <2>2. CASE g # f
    BY <1>3, <2>2 DEF SocketsSound
  <2> QED
    BY <2>1, <2>2
<1>8. ASSUME NEW c, to_server[f][k] = Message("REGISTER", c), Sent("REGISTER", c)' PROVE FALSE
  <2>1. PICK g \in Families : \E j \in 1..Len(to_server'[g]) : to_server'[g][j] = Message("REGISTER", c)
    BY <1>8 DEF Sent, Message
  <2>2. PICK j \in 1..Len(to_server'[g]) : to_server'[g][j] = Message("REGISTER", c)
    BY <2>1
  <2>3. Message("REGISTER", c).from = c /\ Message("REGISTER", c).type = "REGISTER"
    BY DEF Message
  <2>4. f = Family(c) /\ g = Family(c)
    <3>1. f = Family(to_server[f][k].from)
      BY DEF SocketsSound
    <3>2. g = Family(to_server'[g][j].from)
      BY <1>7, <2>2 DEF SocketsSound, Family
    <3> QED
      BY <1>8, <2>2, <2>3, <3>1, <3>2
  <2>5. to_server'[f][j] = to_server[f][was(j)] /\ was(j) \in 1..Len(to_server[f]) /\ was(j) # k
    BY <1>5, <2>2, <2>4
  <2>6. to_server[f][was(j)] = to_server[f][k]
    BY <1>8, <2>2, <2>4, <2>5
  <2> QED
    BY <1>8, <2>3, <2>5, <2>6 DEF SocketsSound
<1> QED
  BY <1>7, <1>8

LEMMA ReceiveMessages ==
  ASSUME RegistryInv, MessageInv, NEW f \in Families, Receive(f)
  PROVE  MessageInv'
<1>1. TypeOK /\ ListenerShape /\ L.pc = "rest" /\ SocketsSound /\ my_name \in [Clients -> Names]
  BY Typed DEF RegistryInv, ThreadShape, MessageInv, Receive, ListenerAt, At, PartsTyped
<1>2. UNCHANGED <<name, addr, evicted, to_client, cpc, my_name>>
  BY <1>1, ReceiveMoves
<1>3. PICK k \in 1..Len(to_server[f]) : Received(f, k)
  BY <1>1, ReceiveMoves
<1>4. PICK m \in Messages : m = to_server[f][k]
  BY <1>3 DEF Received
<1>5. to_server' = [to_server EXCEPT ![f] = RemoveAt(@, k)]
  BY <1>3 DEF Received
<1>6. /\ m.type \in {"REGISTER", "UNREGISTER", "PING", "RESULT"} /\ m.from \in Clients
      /\ Sent(m.type, m.from) /\ m = Message(m.type, m.from)
  <2>1. m.type \in {"REGISTER", "UNREGISTER", "PING", "RESULT"} /\ m.from \in Clients
    BY DEF Messages
  <2>2. m = Message(m.type, m.from)
    BY DEF Messages, Message
  <2> QED
    BY <1>4, <2>1, <2>2 DEF Sent
<1>7. /\ L'.at = 0
      /\ m.type = "RESULT" => L' = L
      /\ m.type # "RESULT" => L'.from = m.from /\ L'.arg = my_name[m.from]
      /\ m.type = "REGISTER" => L'.pc = "full"
      /\ m.type = "UNREGISTER" => L'.pc = "match"
      /\ m.type = "PING" => L'.pc = "match_ping"
  BY <1>2, <1>3, <1>4 DEF Received
<1>8. SocketsSound' /\ \A a, c : Sent(a, c)' => Sent(a, c)
  BY <1>1, <1>5, SocketsShrink, SentRemoved
<1>9. \A a, c : Due(a, c)' <=> Due(a, c)
  BY <1>2 DEF Due
<1>10. \A n : Known(n)' <=> Known(n)
  BY <1>2 DEF Known, GivenUp
<1>11. NamesKnown'
  BY <1>1, <1>2, <1>8, <1>9, <1>10, NamesKnownKept DEF MessageInv
<1>12. ListenerKnows'
  <2>1. CASE m.type = "PING"
    <3>1. PICK n \in Names : n = my_name[m.from]
      BY <1>1, <1>6
    <3>2. Known(n)'
      BY <1>6, <1>10, <2>1, <3>1 DEF MessageInv, NamesKnown
    <3>3. L'.arg = n /\ L'.pc = "match_ping"
      BY <1>7, <2>1, <3>1
    <3>4. Known(L.arg)'
      BY <3>2, <3>3 DEF Known, GivenUp
    <3>5. \A j \in Slots : ~(j < L'.at)
      BY <1>7, SlotFacts
    <3> QED
      BY <3>3, <3>4, <3>5 DEF ListenerKnows
  <2>2. CASE m.type = "UNREGISTER"
    BY <1>2, <1>6, <1>7, <2>2 DEF MessageInv, NamesKnown, ListenerKnows
  <2>3. CASE m.type \in {"REGISTER", "RESULT"}
    BY <1>1, <1>7, <2>3 DEF ListenerKnows
  <2> QED
    BY <1>6, <2>1, <2>2, <2>3
<1>13. ASSUME NEW c \in Clients PROVE AsksOnce(c)'
  <2>1. Listed(c)' => Listed(c)
    BY <1>1, <1>2, <1>6, <1>7 DEF Listed, Listing
  <2>2. TurnedAway(c)' <=> TurnedAway(c)
    BY <1>2, <1>9 DEF TurnedAway
  <2>3. CASE m.type = "REGISTER" /\ c = m.from
    <3>1. Sent("REGISTER", c) /\ AsksOnce(c)
      BY <1>6, <2>3 DEF MessageInv
    <3>2. ~Sent("REGISTER", c)'
      BY <1>1, <1>4, <1>5, <1>6, <2>3, SocketsShrink
    <3> QED
      BY <1>2, <2>1, <2>2, <3>1, <3>2 DEF AsksOnce
  <2>4. CASE ~(m.type = "REGISTER" /\ c = m.from)
    <3>1. ~Served(c)'
      BY <1>1, <1>6, <1>7, <2>4 DEF Served, Serving
    <3> QED
      BY <1>2, <1>8, <2>1, <2>2, <3>1, AsksOnceKept DEF MessageInv
  <2> QED
    BY <2>3, <2>4
<1> QED
  BY <1>8, <1>11, <1>12, <1>13 DEF MessageInv

(* The messages a client sends and takes.                                  *)
LEMMA SentAppended ==
  ASSUME TypeOK, NEW c \in Clients, NEW type \in {"REGISTER", "UNREGISTER", "PING", "RESULT"},
         Says(c, type) \/ UNCHANGED to_server, SocketsSound,
         type = "REGISTER" => ~Sent("REGISTER", c)
  PROVE  /\ SocketsSound'
         /\ \A a, d : Sent(a, d)' => Sent(a, d) \/ (a = type /\ d = c)
<1> DEFINE f == Family(c)
           m == Message(type, c)
<1>1. CASE UNCHANGED to_server
  BY <1>1 DEF SocketsSound, Sent
<1>2. CASE to_server' = [to_server EXCEPT ![f] = Append(@, m)]
  <2>1. to_server \in [Families -> Seq(Messages)]
    BY Typed DEF PartsTyped, OthersTyped
  <2>2. f \in Families /\ m \in Messages /\ m.type = type /\ m.from = c
    BY DEF Family, Families, Message, Messages
  <2>3. PICK n \in Nat : n = Len(to_server[f])
    BY <2>1, <2>2, LenProperties
  <2> HIDE DEF f
  <2>4. /\ to_server'[f] = Append(to_server[f], m)
        /\ \A g \in Families : g # f => to_server'[g] = to_server[g]
    BY <1>2, <2>1, <2>2
  <2>5. /\ Len(to_server'[f]) = n + 1
        /\ \A i \in 1..n : to_server'[f][i] = to_server[f][i]
        /\ to_server'[f][n + 1] = m
    BY <2>1, <2>2, <2>3, <2>4, AppendProperties
  <2>6. \A i \in 1..n : i \in 1..Len(to_server[f]) /\ to_server[f][i] \in Messages
    BY <2>1, <2>2, <2>3, ElementOfSeq
  <2>7. \A j \in 1..(n + 1) : j \in 1..n \/ j = n + 1
    OBVIOUS
  <2>8. ASSUME NEW a, NEW d, Sent(a, d)', ~Sent(a, d) PROVE a = type /\ d = c
    <3>1. PICK g \in Families : \E j \in 1..Len(to_server'[g]) : to_server'[g][j] = Message(a, d)
      BY <2>8 DEF Sent, Message
    <3>2. PICK j \in 1..Len(to_server'[g]) : to_server'[g][j] = Message(a, d)
      BY <3>1
    <3>3. g = f
      BY <2>4, <2>8, <3>2 DEF Sent
    <3>4. j = n + 1
      BY <2>2, <2>5, <2>6, <2>7, <2>8, <3>2, <3>3 DEF Sent
    <3> QED
      BY <2>5, <3>2, <3>3, <3>4 DEF Message
  <2>9. type = "REGISTER" => \A i \in 1..n : to_server[f][i] # m
    BY <2>2, <2>3, <2>6 DEF Sent
  <2>10. SocketsSound'
    <3> SUFFICES ASSUME NEW g \in Families, NEW j \in 1..Len(to_server'[g])
                 PROVE  /\ g = Family(to_server'[g][j].from)
                        /\ to_server'[g][j].type = "REGISTER" =>
                               \A l \in 1..Len(to_server'[g]) :
                                   to_server'[g][l] = to_server'[g][j] => l = j
      BY DEF SocketsSound, Family
    <3>1. CASE g # f
      BY <2>4, <3>1 DEF SocketsSound
    <3>2. CASE g = f /\ j = n + 1
      <4>1. f = Family(m.from)
        BY <2>2 DEF f
      <4>2. ASSUME m.type = "REGISTER", NEW l \in 1..(n + 1), to_server'[f][l] = m PROVE l = n + 1
        BY <2>2, <2>5, <2>7, <2>9, <4>2
      <4> QED
        BY <2>5, <3>2, <4>1, <4>2
    <3>3. CASE g = f /\ j \in 1..n
      <4>1. /\ f = Family(to_server[f][j].from)
            /\ to_server[f][j].type = "REGISTER" =>
                   \A l \in 1..n : to_server[f][l] = to_server[f][j] => l = j
        BY <2>2, <2>3, <3>3 DEF SocketsSound
      <4>2. to_server[f][j].type = "REGISTER" => to_server[f][j] # m
        BY <2>2, <2>9, <3>3
      <4> QED
        BY <2>5, <2>7, <3>3, <4>1, <4>2
    <3> QED
      BY <2>5, <2>7, <3>1, <3>2, <3>3
  <2> QED
    BY <2>8, <2>10
<1> QED
  BY <1>1, <1>2, SaysFacts

LEMMA ClientMessages ==
  ASSUME RegistryInv, MessageInv, NEW c \in Clients, OfClient(c),
         NEW type \in {"REGISTER", "UNREGISTER", "PING", "RESULT"},
         Says(c, type) \/ UNCHANGED to_server,
         \A a : \A d \in Clients : Due(a, d)' => Due(a, d),
         \A d \in Clients : d # c => cpc'[d] = cpc[d],
         cpc[c] # "interrupted", cpc'[c] # "start",
         cpc'[c] = "turned_away" => Due("NAME_TAKEN", c),
         type = "REGISTER" => cpc[c] = "start",
         type = "UNREGISTER" => cpc'[c] = "interrupted",
         type = "PING" => Due("PING", c)
  PROVE  MessageInv'
<1>1. TypeOK /\ UNCHANGED <<name, addr, th, evicted, my_name>>
  BY DEF OfClient, RegistryInv, registry
<1>2. AsksOnce(c) /\ SocketsSound
  BY DEF MessageInv
<1>3. type = "REGISTER" => ~Sent("REGISTER", c) /\ ~Served(c) /\ ~Listed(c) /\ ~TurnedAway(c)
  BY <1>2 DEF AsksOnce
<1>4. SocketsSound' /\ \A a, d : Sent(a, d)' => Sent(a, d) \/ (a = type /\ d = c)
  BY <1>1, <1>2, <1>3, SentAppended
<1>5. \A d \in Clients : cpc[d] = "interrupted" => cpc'[d] = "interrupted"
  OBVIOUS
<1>6. \A n : Known(n) => Known(n)'
  <2>1. GivenUp \subseteq GivenUp'
    BY <1>1, <1>5 DEF GivenUp
  <2> QED
    BY <1>1, <2>1 DEF Known
<1>7. NamesKnown'
  BY <1>1, <1>4, <1>5, <1>6, NamesKnownKept DEF MessageInv
<1>8. ListenerKnows'
  <2>1. Known(L.arg) => Known(L.arg)'
    BY <1>1, <1>6 DEF Known, GivenUp
  <2>2. L.pc # "rest" => L.from \in Clients
    BY DEF RegistryInv, ThreadShape, ListenerShape
  <2> QED
    BY <1>1, <1>5, <2>1, <2>2 DEF MessageInv, ListenerKnows
<1>9. ASSUME NEW d \in Clients PROVE AsksOnce(d)'
  <2>1. (Served(d)' <=> Served(d)) /\ (Listed(d)' <=> Listed(d))
    BY <1>1 DEF Served, Listed
  <2>2. TurnedAway(d)' => TurnedAway(d)
    BY DEF TurnedAway
  <2>3. cpc[d] # "start" => cpc'[d] # "start"
    OBVIOUS
  <2>4. CASE d = c /\ type = "REGISTER"
    <3>1. ~Served(c)' /\ ~Listed(c)' /\ ~TurnedAway(c)'
      BY <1>3, <2>1, <2>2, <2>4
    <3> QED
      BY <2>4, <3>1 DEF AsksOnce
  <2>5. CASE ~(d = c /\ type = "REGISTER")
    <3>1. Sent("REGISTER", d)' => Sent("REGISTER", d)
      BY <1>4, <2>5
    <3> QED
      BY <2>1, <2>2, <2>3, <3>1, AsksOnceKept DEF MessageInv
  <2> QED
    BY <2>4, <2>5
<1> QED
  BY <1>4, <1>7, <1>8, <1>9 DEF MessageInv

LEMMA TakesDue ==
  ASSUME TypeOK, NEW c \in Clients, NEW k \in 1..Len(to_client[c]), Takes(c, k)
  PROVE  \A a : \A d \in Clients : Due(a, d)' => Due(a, d)
<1> SUFFICES ASSUME NEW a, NEW d \in Clients, Due(a, d)' PROVE Due(a, d)
  OBVIOUS
<1>1. to_client \in [Clients -> Seq(Answers)] /\ Len(to_client[c]) \in Nat /\ k \in Nat
  BY Typed, LenProperties DEF PartsTyped, OthersTyped
<1>2. to_client'[c] = RemoveAt(to_client[c], k) /\ \A e \in Clients : e # c => to_client'[e] = to_client[e]
  BY <1>1 DEF Takes
<1>3. PICK j \in 1..Len(to_client'[d]) : to_client'[d][j] = a
  BY DEF Due
<1>4. CASE d # c
  BY <1>2, <1>3, <1>4 DEF Due
<1>5. CASE d = c
  <2> DEFINE i == IF j < k THEN j ELSE j + 1
  <2>1. /\ Len(to_client'[c]) = Len(to_client[c]) - 1
        /\ \A l \in 1..(Len(to_client[c]) - 1) :
               to_client'[c][l] = to_client[c][IF l < k THEN l ELSE l + 1]
    BY <1>1, <1>2, RemoveAtFacts
  <2>2. j \in 1..(Len(to_client[c]) - 1)
    BY <1>3, <1>5, <2>1
  <2>3. i \in 1..Len(to_client[c]) /\ to_client'[c][j] = to_client[c][i]
    BY <1>1, <2>1, <2>2
  <2> QED
    BY <1>3, <1>5, <2>3 DEF Due
<1> QED
  BY <1>4, <1>5

LEMMA ClientsMessages == RegistryInv /\ MessageInv /\ (\E c \in Clients : client(c)) => MessageInv'
<1> SUFFICES ASSUME RegistryInv, MessageInv, NEW c \in Clients, client(c) PROVE MessageInv'
  OBVIOUS
<1>1. TypeOK
  BY DEF RegistryInv
<1>2. CASE Register(c)
  <2>1. cpc[c] = "start" /\ cpc'[c] = "register" /\ \A d \in Clients : d # c => cpc'[d] = cpc[d]
    BY <1>1, <1>2, ClientAtFacts, ClientPcsFacts DEF Register
  <2>2. OfClient(c) /\ Says(c, "REGISTER") /\ UNCHANGED to_client
    BY <1>2 DEF Register
  <2>3. \A a : \A d \in Clients : Due(a, d)' => Due(a, d)
    BY <2>2 DEF Due
  <2> QED
    BY <2>1, <2>2, <2>3, ClientMessages
<1>3. CASE ReceiveResult(c)
  <2>1. PICK k \in 1..Len(to_client[c]) :
            /\ Takes(c, k)
            /\ ClientAt(c, "register",
                        IF to_client[c][k] = "NAME_TAKEN" THEN "turned_away" ELSE "listen")
    BY <1>3 DEF ReceiveResult
  <2>2. OfClient(c) /\ UNCHANGED to_server
    BY <1>3 DEF ReceiveResult
  <2>3. \A a : \A d \in Clients : Due(a, d)' => Due(a, d)
    BY <1>1, <2>1, TakesDue
  <2>4. /\ cpc[c] = "register" /\ \A d \in Clients : d # c => cpc'[d] = cpc[d]
        /\ cpc'[c] = IF to_client[c][k] = "NAME_TAKEN" THEN "turned_away" ELSE "listen"
    BY <1>1, <2>1, ClientAtFacts, ClientPcsFacts
  <2>5. cpc'[c] = "turned_away" => Due("NAME_TAKEN", c)
    BY <2>4 DEF Due
  <2> QED
    BY <2>2, <2>3, <2>4, <2>5, ClientMessages
<1>4. CASE Listen(c)
  <2>1. PICK k \in 1..Len(to_client[c]) :
            /\ Takes(c, k)
            /\ \/ /\ to_client[c][k] = "PING"
                  /\ ClientAt(c, "listen", "listen") /\ Says(c, "PING")
               \/ ClientAt(c, "listen", "listen") /\ Says(c, "RESULT")
               \/ ClientAt(c, "listen", "killed") /\ UNCHANGED to_server
               \/ ClientAt(c, "listen", "listen") /\ UNCHANGED to_server
    BY <1>4 DEF Listen
  <2>2. OfClient(c)
    BY <1>4 DEF Listen
  <2>3. \A a : \A d \in Clients : Due(a, d)' => Due(a, d)
    BY <1>1, <2>1, TakesDue
  <2>4. /\ cpc[c] = "listen" /\ cpc'[c] \in {"listen", "killed"}
        /\ \A d \in Clients : d # c => cpc'[d] = cpc[d]
    BY <1>1, <2>1, ClientAtFacts, ClientPcsFacts
  <2>5. CASE to_client[c][k] = "PING" /\ Says(c, "PING")
    <3>1. Due("PING", c)
      BY <2>5 DEF Due
    <3> QED
      BY <2>2, <2>3, <2>4, <2>5, <3>1, ClientMessages
  <2>6. CASE Says(c, "RESULT") \/ UNCHANGED to_server
    BY <2>2, <2>3, <2>4, <2>6, ClientMessages
  <2> QED
    BY <2>1, <2>5, <2>6
<1>5. CASE Interrupt(c) \/ Killed(c)
  <2>1. PICK how \in {"interrupted", "killed"} :
            /\ Leaves(c, how)
            /\ \/ how = "interrupted" /\ Says(c, "UNREGISTER")
               \/ UNCHANGED to_server
    BY <1>5 DEF Interrupt, Killed
  <2>2. /\ OfClient(c) /\ to_client' = [to_client EXCEPT ![c] = <<>>]
    BY <2>1 DEF Leaves
  <2>3. PICK from \in {"register", "listen"} : ClientAt(c, from, how)
    BY <2>1 DEF Leaves
  <2>4. how \in ClientPcs
    BY ClientPcsFacts
  <2>5. cpc[c] = from /\ cpc'[c] = how /\ \A d \in Clients : d # c => cpc'[d] = cpc[d]
    BY <1>1, <2>3, <2>4, ClientAtFacts
  <2>6. \A a : \A d \in Clients : Due(a, d)' => Due(a, d)
    <3> SUFFICES ASSUME NEW a, NEW d \in Clients, Due(a, d)' PROVE Due(a, d)
      OBVIOUS
    <3>1. to_client \in [Clients -> Seq(Answers)]
      BY <1>1, Typed DEF PartsTyped, OthersTyped
    <3>2. to_client'[d] = <<>> \/ to_client'[d] = to_client[d]
      BY <2>2, <3>1
    <3> QED
      BY <3>2 DEF Due
  <2>7. CASE how = "interrupted" /\ Says(c, "UNREGISTER")
    BY <2>2, <2>3, <2>5, <2>6, <2>7, ClientMessages
  <2>8. CASE UNCHANGED to_server
    BY <2>2, <2>3, <2>5, <2>6, <2>8, ClientMessages
  <2> QED
    BY <2>1, <2>7, <2>8
<1>6. CASE Hang(c)
  <2>1. /\ OfClient(c) /\ UNCHANGED to_server /\ UNCHANGED to_client
    BY <1>6 DEF Hang, network
  <2>2. cpc[c] = "listen" /\ cpc'[c] = "hung" /\ \A d \in Clients : d # c => cpc'[d] = cpc[d]
    BY <1>1, <1>6, ClientAtFacts, ClientPcsFacts DEF Hang
  <2>3. \A a : \A d \in Clients : Due(a, d)' => Due(a, d)
    BY <2>1 DEF Due
  <2> QED
    BY <2>1, <2>2, <2>3, ClientMessages
<1> QED
  BY <1>2, <1>3, <1>4, <1>5, <1>6 DEF client
-----------------------------------------------------------------------------
DatagramInv == RegistryInv /\ MessageInv

LEMMA InitDatagramInv == Init => DatagramInv
<1> SUFFICES ASSUME Init PROVE RegistryInv /\ MessageInv
  BY DEF DatagramInv
<1>1. RegistryInv
  BY InitRegistryInv
<1>2. /\ L.pc = "rest" /\ \A i \in Slots : addr[i] = NoClient
      /\ \A f \in Families : to_server[f] = <<>>
      /\ \A c \in Clients : to_client[c] = <<>> /\ cpc[c] = "start"
  BY ThreadNames, RestTyped DEF Init
<1>3. \A a : \A c \in Clients : ~Sent(a, c) /\ ~Due(a, c)
  BY <1>2 DEF Sent, Due
<1>4. NamesKnown /\ ListenerKnows /\ SocketsSound
  BY <1>2, <1>3, SlotFacts DEF NamesKnown, ListenerKnows, SocketsSound
<1>5. ASSUME NEW c \in Clients PROVE AsksOnce(c)
  BY <1>2, <1>3, SlotFacts DEF AsksOnce, Served, Serving, Listed, Listing, TurnedAway
<1> QED
  BY <1>1, <1>4, <1>5 DEF MessageInv

LEMMA ListenerMessages == RegistryInv /\ MessageInv /\ listener => MessageInv'
<1> SUFFICES ASSUME RegistryInv, MessageInv, listener PROVE MessageInv'
  OBVIOUS
<1>1. CASE Falls("full") \/ Falls("late")
  BY <1>1, FallsMessages DEF Causes
<1>2. CASE \E f \in Families : Receive(f)
  BY <1>2, ReceiveMessages
<1>3. CASE handle_unregister("listener")
  BY <1>3, UnregisterMessages, ZeroNameMessages, ThreadNames DEF handle_unregister
<1>4. CASE handle_register
  BY <1>1, <1>4, RegisterMessages, ListenerSends, SetNameMessages, SetAddrMessages
     DEF handle_register
<1>5. CASE MatchPing \/ Answered
  BY <1>1, <1>5, PingMessages
<1> QED
  BY <1>2, <1>3, <1>4, <1>5 DEF listener

LEMMA MonitorsMessages == RegistryInv /\ MessageInv /\ monitor => MessageInv'
BY MonitorMessages, SendPingMessages, ZeroNameMessages, ThreadNames DEF monitor, handle_unregister

LEMMA DatagramInvPreserved == DatagramInv /\ [Next]_vars => DatagramInv'
<1> SUFFICES ASSUME RegistryInv, MessageInv, [Next]_vars PROVE RegistryInv' /\ MessageInv'
  BY DEF DatagramInv
<1>1. RegistryInv'
  BY RegistryInvPreserved
<1>2. CASE reader
  BY <1>1, <1>2, ReaderMessages, SendRequestMessages DEF reader
<1>3. CASE Down \/ UNCHANGED vars
  <2>1. UNCHANGED <<name, addr, th, evicted, to_server, to_client, cpc, my_name>>
    BY <1>3 DEF Down, vars, registry, network, clientVars
  <2>2. Unmoved /\ L' = L
    BY <2>1 DEF Unmoved
  <2>3. MessageInv'
    BY <2>2, OtherThreadStep
  <2> QED
    BY <1>1, <2>3
<1>4. CASE listener \/ monitor \/ \E c \in Clients : client(c)
  BY <1>1, <1>4, ListenerMessages, MonitorsMessages, ClientsMessages
<1> QED
  BY <1>1, <1>2, <1>3, <1>4 DEF Next

(* Why a step ends the server.                                             *)
HasCause ==
    /\ fate' = "late" => L.arg \in GivenUp
    /\ fate' = "refused" => \E c \in Local : cpc[c] \in {"interrupted", "killed"}
    /\ fate' = "unaddressed" => L.pc = "set_addr"
    /\ fate' = "full" => overlapped

(* A local client the server writes to, and that is gone, was not turned   *)
(* away.                                                                   *)
LEMMA SendCause ==
  ASSUME TypeOK, NEW c \in Clients \cup {NoClient}, NEW type \in Answers, NEW ACTION goesOn,
         SendTo(c, type, goesOn), fate = "none",
         c \in Clients => ~TurnedAway(c), c = NoClient => L.pc = "set_addr"
  PROVE  HasCause
<1>1. CASE c = NoClient /\ Falls("unaddressed")
  BY <1>1 DEF HasCause, Falls
<1>2. CASE c \in Local /\ cpc[c] \in Gone /\ Falls("refused")
  <2>1. cpc[c] \in {"interrupted", "killed"}
    BY <1>2, DatagramAssumption DEF TurnedAway, Gone
  <2> QED
    BY <1>2, <2>1 DEF HasCause, Falls
<1>3. CASE UNCHANGED fate
  BY <1>3 DEF HasCause
<1> QED
  BY <1>1, <1>2, <1>3, SendMoves

LEMMA LateCause == RegistryInv /\ MessageInv /\ MatchPing => HasCause
<1> SUFFICES ASSUME RegistryInv, MessageInv, MatchPing PROVE HasCause
  OBVIOUS
<1>1. L.pc = "match_ping" /\ fate = "none"
  BY DEF MatchPing, ListenerAt, At, Up
<1>2. CASE name[L.at] # L.arg /\ L.at + 1 = MaxClients /\ Falls("late")
  <2>1. Known(L.arg) /\ \A j \in Slots : j < L.at => name[j] # L.arg
    BY <1>1 DEF MessageInv, ListenerKnows
  <2>2. L \in Locals
    BY Typed, ThreadNames DEF RegistryInv
  <2>3. \A j \in Slots : j < L.at \/ j = L.at
    BY <1>2, <2>2, SlotFacts DEF Locals, Slots
  <2>4. L.arg \in GivenUp
    BY <1>2, <2>1, <2>3 DEF Known
  <2> QED
    BY <1>2, <2>4 DEF HasCause, Falls
<1>3. CASE UNCHANGED fate
  BY <1>1, <1>3 DEF HasCause
<1> QED
  BY <1>2, <1>3 DEF MatchPing, Quiet

LEMMA FullCause == RegistryInv /\ Compare => HasCause
<1> SUFFICES ASSUME RegistryInv, Compare PROVE HasCause
  OBVIOUS
<1>1. L.pc = "compare" /\ fate = "none"
  BY DEF Compare, ListenerAt, At, Up
<1>2. CASE L.at + 1 = MaxClients /\ L.avail = -1 /\ Falls("full")
  <2>1. L \in Locals
    BY Typed, ThreadNames DEF RegistryInv
  <2>2. ~\E j \in Slots : j > L.at
    BY <1>2, <2>1, SlotFacts DEF Locals, Slots
  <2>3. ~Clean
    BY <1>1, <1>2, <2>2 DEF RegistryInv, RoomAhead
  <2>4. ~Overlap
    BY <1>1 DEF Overlap, Changing, Removing, Adding
  <2> QED
    BY <1>2, <2>3, <2>4 DEF Clean, HasCause, Falls
<1>3. CASE UNCHANGED fate
  BY <1>1, <1>3 DEF HasCause
<1> QED
  BY <1>2, <1>3 DEF Compare, Quiet

LEMMA AnswerCause == RegistryInv /\ MessageInv /\ (Refuse \/ Acknowledge) => HasCause
<1> SUFFICES ASSUME RegistryInv, MessageInv, Refuse \/ Acknowledge PROVE HasCause
  OBVIOUS
<1>1. TypeOK /\ L.pc \in {"refuse", "ack"} /\ fate = "none"
  BY DEF RegistryInv, Refuse, Acknowledge, ListenerAt, At, Up
<1>2. PICK c \in Clients : c = L.from
  BY <1>1 DEF RegistryInv, ThreadShape, ListenerShape
<1>3. AsksOnce(c) /\ (Served(c) \/ Listed(c)) /\ c # NoClient
  BY <1>1, <1>2, SlotFacts DEF MessageInv, Served, Serving, Listed, Listing
<1>4. ~TurnedAway(c)
  BY <1>3 DEF AsksOnce
<1>5. PICK type \in {"NAME_TAKEN", "REGISTER_ACK"} : SendTo(c, type, Rests("listener"))
  BY <1>2 DEF Refuse, Acknowledge
<1> QED
  BY <1>1, <1>3, <1>4, <1>5, SendCause DEF Answers

(* The address in an entry is a listed client's.                           *)
LEMMA EntryCause ==
  ASSUME RegistryInv, MessageInv, NEW i \in Slots, Addressed(i), fate = "none",
         NEW type \in Answers, NEW ACTION goesOn, SendTo(addr[i], type, goesOn)
  PROVE  HasCause
<1>1. TypeOK
  BY DEF RegistryInv
<1>2. PICK c \in Clients \cup {NoClient} : c = addr[i]
  BY <1>1, Typed DEF PartsTyped
<1>3. c \in Clients => ~TurnedAway(c)
  BY <1>2 DEF MessageInv, AsksOnce, Listed
<1>4. c = NoClient => L.pc = "set_addr"
  BY <1>2, SlotFacts DEF Addressed
<1> QED
  BY <1>1, <1>2, <1>3, <1>4, SendCause

LEMMA PingCause == RegistryInv /\ MessageInv /\ SendPing => HasCause
<1> SUFFICES ASSUME RegistryInv, MessageInv, SendPing PROVE HasCause
  OBVIOUS
<1>1. M.pc = "ping" /\ fate = "none" /\ M.own \in Slots /\ Addressed(M.own)
  BY DEF RegistryInv, ThreadShape, MonitorShape, EntriesSound, SendPing, MonitorAt, At, Up
<1> QED
  BY <1>1, EntryCause DEF SendPing, Answers

LEMMA RequestCause == RegistryInv /\ MessageInv /\ SendRequest => HasCause
<1> SUFFICES ASSUME RegistryInv, MessageInv, SendRequest PROVE HasCause
  OBVIOUS
<1>1. R.pc = "send" /\ fate = "none" /\ Addressed(R.at)
  BY DEF RegistryInv, EntriesSound, SendRequest, At, Up
<1>2. R.at \in Slots
  BY Typed, ThreadNames DEF RegistryInv, Locals
<1> QED
  BY <1>1, <1>2, EntryCause DEF SendRequest, Answers

LEMMA StepCause == DatagramInv /\ Next => HasCause \/ UNCHANGED vars
<1> SUFFICES ASSUME RegistryInv, MessageInv, Next, ~UNCHANGED vars PROVE HasCause
  BY DEF DatagramInv
<1>1. CASE fate = "none" /\ UNCHANGED fate
  BY <1>1 DEF HasCause
<1>2. CASE listener
  <2>1. CASE \/ MatchPing \/ Compare \/ Refuse \/ Acknowledge
    BY <2>1, LateCause, FullCause, AnswerCause
  <2>2. CASE \/ \E f \in Families : Receive(f)
             \/ handle_unregister("listener") \/ Answered
             \/ RefuseFull \/ Scan \/ LoadCount("listener", "inc", "inc_store") \/ StoreIncrement
             \/ SetName \/ SetAddr \/ SetResponsive
    <3>1. fate = "none" /\ UNCHANGED fate
      BY <2>2 DEF Receive, handle_unregister, Match, ZeroName, LoadCount, StoreDecrement, Answered,
                  RefuseFull, Scan, StoreIncrement, SetName, SetAddr, SetResponsive, ListenerAt, At,
                  Up, Quiet
    <3> QED
      BY <1>1, <3>1
  <2> QED
    BY <1>2, <2>1, <2>2 DEF listener, handle_register
<1>3. CASE monitor
  <2>1. CASE Wake \/ Check \/ TestResponsive \/ MarkUnresponsive \/ handle_unregister("monitor")
    <3>1. fate = "none" /\ UNCHANGED fate
      BY <2>1 DEF Wake, Check, TestResponsive, MarkUnresponsive, handle_unregister, Match, ZeroName,
                  LoadCount, StoreDecrement, MonitorAt, At, Up, Quiet
    <3> QED
      BY <1>1, <3>1
  <2> QED
    BY <1>3, <2>1, PingCause DEF monitor
<1>4. CASE reader
  <2>1. CASE ReadLine \/ Pick
    BY <1>1, <2>1 DEF ReadLine, Pick, At, Up, Quiet
  <2> QED
    BY <1>4, <2>1, RequestCause DEF reader
<1>5. CASE \E c \in Clients : client(c)
  BY <1>1, <1>5
     DEF client, Register, ReceiveResult, Listen, Interrupt, Killed, Leaves, Hang, OfClient,
         ClientAt, Up
<1>6. CASE Down
  BY <1>6 DEF Down
<1> QED
  BY <1>2, <1>3, <1>4, <1>5, <1>6 DEF Next

(* The server ends only with a cause: on an answer to a ping, only if the  *)
(* monitor has removed a client of that name or one was interrupted; on a  *)
(* send, only to a local client that was interrupted or killed, or to an   *)
(* entry the listener has not finished; and it writes before the registry  *)
(* only after listener and monitor have changed it at a time.              *)
THEOREM DatagramFallsOnlyWithCause == Spec => FallsOnlyWithCause
<1>1. DatagramInv /\ [Next]_vars =>
          [/\ fate' = "late" => L.arg \in evicted \cup {my_name[c] : c \in
                                             {d \in Clients : cpc[d] = "interrupted"}}
           /\ fate' = "refused" => \E c \in Local : cpc[c] \in {"interrupted", "killed"}
           /\ fate' = "unaddressed" => L.pc = "set_addr"
           /\ fate' = "full" => overlapped]_vars
  BY StepCause DEF HasCause, GivenUp
<1> QED
  BY <1>1, InitDatagramInv, DatagramInvPreserved, PTL DEF Spec, FallsOnlyWithCause
=============================================================================

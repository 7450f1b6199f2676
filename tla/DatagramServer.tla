--------------------------- MODULE DatagramServer ---------------------------
(***************************************************************************)
(* The datagram server of lab10 zad2 and its clients.  As in zad1 three    *)
(* threads of the server share the registry without any lock; each action  *)
(* of a thread accesses it at most once.  Nothing tells the server that a  *)
(* client is gone, except that a local one cannot be sent to, and an       *)
(* answer to a ping is looked up by the name it carries.                   *)
(***************************************************************************)
EXTENDS Integers, Sequences, SequencesExt, FiniteSets

CONSTANTS
    Clients,
    Local,          \* those that use the UNIX socket, not the INET one
    Names,
    NoName,         \* the empty string
    NoClient,
    MaxClients,     \* the size of the registry
    Requests,       \* bound on the requests typed
    Interruptible,  \* the clients that may get ^C
    Killable,       \* those that may be killed
    Silent          \* those that may stop running

ASSUME DatagramAssumption ==
    /\ IsFiniteSet(Clients) /\ Local \subseteq Clients /\ NoClient \notin Clients
    /\ NoName \notin Names
    /\ MaxClients \in Nat \ {0} /\ Requests \in Nat
    /\ Interruptible \cup Killable \cup Silent \subseteq Clients

Slots == 0..(MaxClients - 1)
Threads == {"listener", "monitor", "reader"}
Families == {"UNIX", "INET"}
Family(c) == IF c \in Local THEN "UNIX" ELSE "INET"

VARIABLES
    name, addr, responsive,   \* clients[i]
    client_count,
    th,             \* every thread's position and local variables
    op_id,          \* requests typed
    fate,           \* why the server is gone, if it is
    evicted,        \* history: the names the monitor has removed
    overlapped,     \* history: two threads changed the registry at a time
    to_server,      \* the messages in each socket of the server
    to_client,      \* the messages on their way to every client
    cpc,            \* every client's position
    my_name         \* the name it was given

registry == <<name, addr, responsive, client_count>>
network == <<to_server, to_client>>
clientVars == <<cpc, my_name>>
vars == <<registry, th, op_id, fate, evicted, overlapped, network, clientVars>>

(* at: loop index; arg, own: the name handle_unregister looks for, given   *)
(* or read through a pointer into slot own; from: the sender; avail:       *)
(* available_idx; reg: client_count as loaded.                             *)
Rest == [pc |-> "rest", at |-> 0, arg |-> NoName, own |-> -1, from |-> NoClient,
         avail |-> -1, reg |-> 0]

Gone == {"interrupted", "killed", "turned_away"}

TypeOK ==
    /\ name \in [Slots -> Names \cup {NoName}]
    /\ addr \in [Slots -> Clients \cup {NoClient}]
    /\ responsive \in [Slots -> BOOLEAN]
    /\ client_count \in Int
    /\ th \in [Threads ->
           [pc: {"rest", "full", "scan", "compare", "refuse", "inc", "inc_store", "set_name",
                 "set_addr", "set_responsive", "ack", "match_ping", "answered", "match",
                 "zero_name", "dec", "dec_store", "check", "test", "ping", "mark", "pick", "send"},
            at: Slots, arg: Names \cup {NoName}, own: Slots \cup {-1},
            from: Clients \cup {NoClient}, avail: Slots \cup {-1}, reg: Int]]
    /\ op_id \in 0..Requests
    /\ fate \in {"none", "late", "refused", "unaddressed", "full"}
    /\ evicted \subseteq Names \cup {NoName}
    /\ overlapped \in BOOLEAN
    /\ to_server \in [Families ->
           Seq([type: {"REGISTER", "UNREGISTER", "PING", "RESULT"}, from: Clients])]
    /\ to_client \in [Clients -> Seq({"REGISTER_ACK", "NAME_TAKEN", "PING", "ARITH"})]
    /\ cpc \in [Clients -> {"start", "register", "listen", "hung"} \cup Gone]
    /\ my_name \in [Clients -> Names]

Init ==
    /\ name = [i \in Slots |-> NoName]
    /\ addr = [i \in Slots |-> NoClient]
    /\ responsive = [i \in Slots |-> FALSE]
    /\ client_count = 0
    /\ th = [t \in Threads |-> Rest]
    /\ op_id = 0
    /\ fate = "none" /\ evicted = {} /\ overlapped = FALSE
    /\ to_server = [f \in Families |-> <<>>]
    /\ to_client = [c \in Clients |-> <<>>]
    /\ cpc = [c \in Clients |-> "start"]
    /\ my_name \in [Clients -> Names]
-----------------------------------------------------------------------------
(* What all threads do.                                                    *)
Up == fate = "none"
At(t, p) == Up /\ th[t].pc = p
Goes(t, p) == th' = [th EXCEPT ![t].pc = p]
Rests(t) == th' = [th EXCEPT ![t] = Rest]

(* Back to the loop of the thread: for the monitor, to the next slot.      *)
Returns(t) ==
    IF t = "monitor" /\ th[t].own + 1 < MaxClients
    THEN th' = [th EXCEPT ![t] = [Rest EXCEPT !.pc = "check", !.own = th[t].own + 1]]
    ELSE Rests(t)

(* The next slot of a search, if there is one.                             *)
SearchesOn(t, otherwise) ==
    IF th[t].at + 1 = MaxClients THEN otherwise ELSE th' = [th EXCEPT ![t].at = @ + 1]

(* Positions where a thread changes the registry, or has decided to.       *)
Removing(t) == th[t].pc \in {"match", "zero_name", "dec", "dec_store"}
Adding == th["listener"].pc \in {"inc", "inc_store", "set_name", "set_addr", "set_responsive"}
Changing == Removing("listener") \/ Adding
Overlap == Changing /\ (Removing("monitor") \/ th["monitor"].pc = "test")
Noted == overlapped' = (overlapped \/ Overlap)

Quiet == Noted /\ UNCHANGED <<op_id, fate, evicted, network, clientVars>>

(* OK() or a signal ends the server and all it had.                        *)
Falls(why) ==
    /\ fate' = why
    /\ th' = [t \in Threads |-> Rest]
    /\ name' = [i \in Slots |-> NoName] /\ addr' = [i \in Slots |-> NoClient]
    /\ responsive' = [i \in Slots |-> FALSE] /\ client_count' = 0
    /\ op_id' = 0 /\ evicted' = {}
    /\ to_server' = [f \in Families |-> <<>>]
    /\ to_client' = [c \in Clients |-> <<>>]
    /\ UNCHANGED <<overlapped, clientVars>>

(* send_message.  No address, and a local client that is gone, are errors; *)
(* over INET a message may vanish, and is never missed.                    *)
SendTo(c, type, goesOn) ==
    \/ c = NoClient /\ Falls("unaddressed")
    \/ c \in Local /\ cpc[c] \in Gone /\ Falls("refused")
    \/ /\ c \in Clients
       /\ c \in Local => cpc[c] \notin Gone
       /\ \/ to_client' = [to_client EXCEPT ![c] = IF cpc[c] \in Gone THEN @ ELSE Append(@, type)]
          \/ c \notin Local /\ UNCHANGED to_client
       /\ goesOn /\ Noted
       /\ UNCHANGED <<registry, op_id, fate, evicted, to_server, clientVars>>
-----------------------------------------------------------------------------
(* handle_unregister(name), in the listener and in the monitor.            *)
Sought(t) == IF th[t].own \in Slots THEN name[th[t].own] ELSE th[t].arg

Match(t) ==
    /\ At(t, "match")
    /\ IF name[th[t].at] = Sought(t) THEN Goes(t, "zero_name") ELSE SearchesOn(t, Returns(t))
    /\ Quiet /\ UNCHANGED registry

ZeroName(t) ==
    /\ At(t, "zero_name") /\ Goes(t, "dec")
    /\ name' = [name EXCEPT ![th[t].at] = NoName]
    /\ evicted' = IF t = "monitor" THEN evicted \cup {name[th[t].at]} ELSE evicted
    /\ Noted
    /\ UNCHANGED <<addr, responsive, client_count, op_id, fate, network, clientVars>>

(* ++client_count and --client_count: a load and a store.                  *)
LoadCount(t, from, to) ==
    /\ At(t, from)
    /\ th' = [th EXCEPT ![t].pc = to, ![t].reg = client_count]
    /\ Quiet /\ UNCHANGED registry

(* Mutant: no break.                                                       *)
StoreDecrementNoBreak(t) ==
    /\ At(t, "dec_store")
    /\ IF th[t].at + 1 = MaxClients THEN Returns(t)
       ELSE th' = [th EXCEPT ![t].pc = "match", ![t].at = @ + 1]
    /\ client_count' = th[t].reg - 1
    /\ Quiet /\ UNCHANGED <<name, addr, responsive>>

StoreDecrement(t) ==
    /\ At(t, "dec_store") /\ Returns(t)
    /\ client_count' = th[t].reg - 1
    /\ Quiet /\ UNCHANGED <<name, addr, responsive>>

handle_unregister(t) ==
    Match(t) \/ ZeroName(t) \/ LoadCount(t, "dec", "dec_store") \/ StoreDecrement(t)
-----------------------------------------------------------------------------
(* The listener.                                                           *)
L == th["listener"]
ListenerAt(p) == At("listener", p)

(* epoll_wait, read_message and the switch of process_message: the next    *)
(* message of the UNIX socket, or any of the INET socket.  handle_result   *)
(* only prints.                                                            *)
Receive(f) ==
    /\ ListenerAt("rest")
    /\ \E k \in 1..Len(to_server[f]) :
           LET m == to_server[f][k]
               handler == CASE m.type = "REGISTER" -> "full"
                            [] m.type = "UNREGISTER" -> "match"
                            [] m.type = "PING" -> "match_ping"
                            [] m.type = "RESULT" -> "rest"
           IN  /\ f = "UNIX" => k = 1
               /\ to_server' = [to_server EXCEPT ![f] = RemoveAt(@, k)]
               /\ IF handler = "rest" THEN UNCHANGED th
                  ELSE th' = [th EXCEPT !["listener"].pc = handler,
                                        !["listener"].arg = my_name[m.from],
                                        !["listener"].from = m.from]
    /\ Noted
    /\ UNCHANGED <<registry, op_id, fate, evicted, to_client, clientVars>>

(* handle_register: no answer if the registry is full.                     *)
RefuseFull ==
    /\ ListenerAt("full")
    /\ IF client_count >= MaxClients THEN Rests("listener") ELSE Goes("listener", "scan")
    /\ Quiet /\ UNCHANGED registry

(* The loop, which remembers the first unused slot and compares the names  *)
(* in the others; i is the next slot.                                      *)
ScansOn(i, available_idx) ==
    th' = [th EXCEPT !["listener"] =
               [@ EXCEPT !.pc = IF i < MaxClients THEN "scan" ELSE "inc",
                         !.at = IF i < MaxClients THEN i ELSE 0,
                         !.avail = available_idx]]

Scan ==
    /\ ListenerAt("scan")
    /\ IF L.avail = -1 /\ name[L.at] = NoName THEN ScansOn(L.at + 1, L.at)
                                              ELSE Goes("listener", "compare")
    /\ Quiet /\ UNCHANGED registry

(* With no slot left clients[-1] is written, which the sanitizer that the  *)
(* Makefile builds in does not let pass.                                   *)
Compare ==
    /\ ListenerAt("compare")
    /\ IF name[L.at] # L.arg /\ L.at + 1 = MaxClients /\ L.avail = -1 THEN Falls("full")
       ELSE /\ IF name[L.at] = L.arg THEN Goes("listener", "refuse") ELSE ScansOn(L.at + 1, L.avail)
            /\ Quiet /\ UNCHANGED registry

(* Mutant: NAME_TAKEN is not sent.                                         *)
RefuseSilently == ListenerAt("refuse") /\ Rests("listener") /\ Quiet /\ UNCHANGED registry

Refuse == ListenerAt("refuse") /\ SendTo(L.from, "NAME_TAKEN", Rests("listener"))

(* The client is counted before its entry is written, and its name is      *)
(* there before its address.                                               *)
StoreIncrement ==
    /\ ListenerAt("inc_store") /\ Goes("listener", "set_name")
    /\ client_count' = L.reg + 1
    /\ Quiet /\ UNCHANGED <<name, addr, responsive>>

SetName ==
    /\ ListenerAt("set_name") /\ Goes("listener", "set_addr")
    /\ name' = [name EXCEPT ![L.avail] = L.arg]
    /\ Quiet /\ UNCHANGED <<addr, responsive, client_count>>

SetAddr ==
    /\ ListenerAt("set_addr") /\ Goes("listener", "set_responsive")
    /\ addr' = [addr EXCEPT ![L.avail] = L.from]
    /\ Quiet /\ UNCHANGED <<name, responsive, client_count>>

SetResponsive ==
    /\ ListenerAt("set_responsive") /\ Goes("listener", "ack")
    /\ responsive' = [responsive EXCEPT ![L.avail] = TRUE]
    /\ Quiet /\ UNCHANGED <<name, addr, client_count>>

Acknowledge == ListenerAt("ack") /\ SendTo(L.from, "REGISTER_ACK", Rests("listener"))

handle_register ==
    \/ RefuseFull \/ Scan \/ Compare \/ Refuse
    \/ LoadCount("listener", "inc", "inc_store") \/ StoreIncrement
    \/ SetName \/ SetAddr \/ SetResponsive \/ Acknowledge

(* Mutant: the search ends a slot early.                                   *)
MatchPingShort ==
    /\ ListenerAt("match_ping")
    /\ \/ /\ name[L.at] = L.arg
          /\ Goes("listener", "answered") /\ Quiet /\ UNCHANGED registry
       \/ /\ name[L.at] # L.arg /\ L.at + 2 < MaxClients
          /\ SearchesOn("listener", FALSE) /\ Quiet /\ UNCHANGED registry
       \/ /\ name[L.at] # L.arg /\ L.at + 2 >= MaxClients
          /\ Falls("late")

(* find_client_by_name; handle_ping uses what it returns, NULL or not.     *)
MatchPing ==
    /\ ListenerAt("match_ping")
    /\ \/ /\ name[L.at] = L.arg
          /\ Goes("listener", "answered") /\ Quiet /\ UNCHANGED registry
       \/ /\ name[L.at] # L.arg /\ L.at + 1 < MaxClients
          /\ SearchesOn("listener", FALSE) /\ Quiet /\ UNCHANGED registry
       \/ /\ name[L.at] # L.arg /\ L.at + 1 = MaxClients
          /\ Falls("late")

Answered ==
    /\ ListenerAt("answered") /\ Rests("listener")
    /\ responsive' = [responsive EXCEPT ![L.at] = TRUE]
    /\ Quiet /\ UNCHANGED <<name, addr, client_count>>

listener ==
    \/ \E f \in Families : Receive(f)
    \/ handle_register \/ handle_unregister("listener") \/ MatchPing \/ Answered
-----------------------------------------------------------------------------
(* The monitor; own is its loop index.                                     *)
M == th["monitor"]
MonitorAt(p) == At("monitor", p)

(* sleep(PING_PERIOD) is over.                                             *)
Wake ==
    /\ MonitorAt("rest")
    /\ th' = [th EXCEPT !["monitor"].pc = "check", !["monitor"].own = 0]
    /\ Quiet /\ UNCHANGED registry

Check ==
    /\ MonitorAt("check")
    /\ IF name[M.own] = NoName THEN Returns("monitor") ELSE Goes("monitor", "test")
    /\ Quiet /\ UNCHANGED registry

TestResponsive ==
    /\ MonitorAt("test")
    /\ Goes("monitor", IF responsive[M.own] THEN "ping" ELSE "match")
    /\ Quiet /\ UNCHANGED registry

SendPing == MonitorAt("ping") /\ SendTo(addr[M.own], "PING", Goes("monitor", "mark"))

(* Mutant: the entry is not marked.                                        *)
MarkUnresponsiveNot ==
    /\ MonitorAt("mark") /\ Returns("monitor")
    /\ Quiet /\ UNCHANGED registry

MarkUnresponsive ==
    /\ MonitorAt("mark") /\ Returns("monitor")
    /\ responsive' = [responsive EXCEPT ![M.own] = FALSE]
    /\ Quiet /\ UNCHANGED <<name, addr, client_count>>

monitor ==
    \/ Wake \/ Check \/ TestResponsive \/ SendPing \/ MarkUnresponsive
    \/ handle_unregister("monitor")
-----------------------------------------------------------------------------
(* The reader.                                                             *)
R == th["reader"]

(* getline, tokenize and the test in get_random_client; the slot is any.   *)
ReadLine ==
    /\ At("reader", "rest")
    /\ op_id < Requests
    /\ op_id' = op_id + 1
    /\ IF client_count < 1 THEN UNCHANGED th
       ELSE \E i \in Slots : th' = [th EXCEPT !["reader"].pc = "pick", !["reader"].at = i]
    /\ UNCHANGED <<registry, fate, evicted, overlapped, network, clientVars>>

(* It goes round until it finds a client.                                  *)
Pick ==
    /\ At("reader", "pick")
    /\ IF name[R.at] = NoName THEN th' = [th EXCEPT !["reader"].at = (@ + 1) % MaxClients]
       ELSE Goes("reader", "send")
    /\ Quiet /\ UNCHANGED registry

SendRequest == At("reader", "send") /\ SendTo(addr[R.at], "ARITH", Rests("reader"))

reader == ReadLine \/ Pick \/ SendRequest
-----------------------------------------------------------------------------
(* The clients.                                                            *)
ClientAt(c, from, to) == Up /\ cpc[c] = from /\ cpc' = [cpc EXCEPT ![c] = to]

Says(c, type) ==
    LET f == Family(c)
    IN  \/ to_server' = [to_server EXCEPT ![f] = Append(@, [type |-> type, from |-> c])]
        \/ f = "INET" /\ UNCHANGED to_server

OfClient(c) == Noted /\ UNCHANGED <<registry, th, op_id, fate, evicted, my_name>>

(* The socket is opened and connected, and do_register sends REGISTER.     *)
Register(c) ==
    /\ ClientAt(c, "start", "register")
    /\ Says(c, "REGISTER")
    /\ OfClient(c) /\ UNCHANGED to_client

(* recv: the next message, over INET any of those on their way.            *)
Takes(c, k) ==
    /\ k \in 1..Len(to_client[c])
    /\ c \in Local => k = 1
    /\ to_client' = [to_client EXCEPT ![c] = RemoveAt(@, k)]

(* The answer to REGISTER; whatever is not NAME_TAKEN will do.             *)
ReceiveResult(c) ==
    /\ \E k \in 1..Len(to_client[c]) :
           /\ Takes(c, k)
           /\ ClientAt(c, "register",
                       IF to_client[c][k] = "NAME_TAKEN" THEN "turned_away" ELSE "listen")
    /\ OfClient(c) /\ UNCHANGED to_server

(* One round of do_listen.  A request may be a division by zero.           *)
Listen(c) ==
    /\ \E k \in 1..Len(to_client[c]) :
           LET m == to_client[c][k]
           IN  /\ Takes(c, k)
               /\ \/ m = "PING" /\ ClientAt(c, "listen", "listen") /\ Says(c, "PING")
                  \/ m = "ARITH" /\ ClientAt(c, "listen", "listen") /\ Says(c, "RESULT")
                  \/ m = "ARITH" /\ ClientAt(c, "listen", "killed") /\ UNCHANGED to_server
                  \/ /\ m \notin {"PING", "ARITH"}
                     /\ ClientAt(c, "listen", "listen") /\ UNCHANGED to_server
    /\ OfClient(c)

(* What was sent to a client that is gone is gone.                         *)
Leaves(c, how) ==
    /\ \E from \in {"register", "listen"} : ClientAt(c, from, how)
    /\ to_client' = [to_client EXCEPT ![c] = <<>>]
    /\ OfClient(c)

(* SIGINT: UNREGISTER is sent, for a name that may be another client's.    *)
Interrupt(c) == c \in Interruptible /\ Leaves(c, "interrupted") /\ Says(c, "UNREGISTER")

Killed(c) == c \in Killable /\ Leaves(c, "killed") /\ UNCHANGED to_server

(* The client stops running with its socket open.                          *)
Hang(c) ==
    /\ c \in Silent
    /\ ClientAt(c, "listen", "hung")
    /\ OfClient(c) /\ UNCHANGED network

client(c) ==
    \/ Register(c) \/ ReceiveResult(c) \/ Listen(c)
    \/ Interrupt(c) \/ Killed(c) \/ Hang(c)
-----------------------------------------------------------------------------
Down == ~Up /\ UNCHANGED vars

Next ==
    \/ listener \/ monitor \/ reader
    \/ \E c \in Clients : client(c)
    \/ Down

Spec == Init /\ [][Next]_vars

(* The listener's and the monitor's threads run, sleeps end, and           *)
(* epoll_wait, which takes the ready sockets in turn, comes to the UNIX    *)
(* socket in the end.                                                      *)
Fairness == WF_vars(listener) /\ WF_vars(monitor) /\ SF_vars(Receive("UNIX"))

FairSpec == Spec /\ Fairness
-----------------------------------------------------------------------------
Used == {i \in Slots : name[i] # NoName}

(* However listener and monitor overlap, no two entries have one name, and *)
(* each has the address of a client of its name, but the one the listener  *)
(* has just named.  As long as they have not worked on the registry at the *)
(* same time, client_count counts the entries between their changes.       *)
NamesUnique == \A i, j \in Slots : name[i] = name[j] /\ name[i] # NoName => i = j

RegistrySound ==
    /\ NamesUnique
    /\ \A i \in Used : \/ L.pc = "set_addr" /\ L.avail = i
                       \/ addr[i] \in Clients /\ name[i] = my_name[addr[i]]
    /\ ~overlapped /\ ~Changing /\ ~Removing("monitor") => client_count = Cardinality(Used)

(* What can end the server.  An answer to a ping: only if the monitor has  *)
(* removed the client of that name, or a client of that name was           *)
(* interrupted.  A send: only to a local client that was interrupted or    *)
(* killed, or to an entry the listener has not finished.  A write before   *)
(* the registry: only after two threads changed it at a time.              *)
FallsOnlyWithCause ==
    [][/\ fate' = "late" => L.arg \in evicted \cup {my_name[c] : c \in
                                   {d \in Clients : cpc[d] = "interrupted"}}
       /\ fate' = "refused" => \E c \in Local : cpc[c] \in {"interrupted", "killed"}
       /\ fate' = "unaddressed" => L.pc = "set_addr"
       /\ fate' = "full" => overlapped]_vars

(* A client that stops running is removed in the end.                      *)
SilentRemoved ==
    \A c \in Silent :
        cpc[c] = "hung" ~> (~Up \/ overlapped \/ \A i \in Used : addr[i] # c)

(* A local client that registers is answered, unless the registry was full *)
(* meanwhile.                                                              *)
RegistrationAnswered ==
    \A c \in Local :
        cpc[c] = "register" ~> \/ cpc[c] # "register" \/ to_client[c] # <<>>
                               \/ ~Up \/ client_count >= MaxClients
=============================================================================

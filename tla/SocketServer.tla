---------------------------- MODULE SocketServer ----------------------------
(***************************************************************************)
(* The stream socket server of lab10 zad1 and its clients.  Three threads  *)
(* of the server share the registry of clients without any lock: the       *)
(* listener handles messages, the reader sends requests typed by the user, *)
(* the monitor pings every client and removes the ones that did not        *)
(* answer.  Each action of a thread accesses the registry at most once.    *)
(*                                                                         *)
(* From the server to a client a connection is a stream of units of 16     *)
(* bytes, because the client does not read message by message.             *)
(***************************************************************************)
EXTENDS Integers, Sequences, FiniteSets

CONSTANTS
    Clients,
    Names,
    NoName,         \* the empty string
    NoClient,
    MaxClients,     \* the size of the registry
    Requests,       \* bound on the requests typed
    LeastCount,     \* bound below which the monitor is not followed
    Interruptible,  \* the clients that may get ^C
    Killable,       \* those that may be killed
    Silent          \* the clients that may stop running

ASSUME SocketAssumption ==
    /\ IsFiniteSet(Clients) /\ NoClient \notin Clients
    /\ NoName \notin Names
    /\ MaxClients \in Nat \ {0}
    /\ Requests \in Nat
    /\ LeastCount \in Int
    /\ Interruptible \subseteq Clients /\ Killable \subseteq Clients /\ Silent \subseteq Clients

Slots == 0..(MaxClients - 1)

(* Descriptors of connections; 0 is standard input and an unused slot.     *)
Fds == 1..Cardinality(Clients)
Threads == {"listener", "monitor", "reader"}

Register == "REGISTER"
Unregister == "UNREGISTER"
Ping == <<"PING", "rest">>
Ack == <<"REGISTER_ACK", "rest">>
NameTaken == <<"NAME_TAKEN", "rest">>
Arith == <<"ARITH", "rest", "rest">>

VARIABLES
    name, socket, responsive,   \* clients[i]
    client_count,
    th,             \* every thread's position and local variables
    op_id,          \* requests typed
    stdin_open,
    up,             \* the server runs
    overlapped,     \* history: two threads changed the registry at a time
    peer,           \* whose connection a descriptor is
    backlog,        \* connections not accepted
    to_server,      \* messages on their way, per client
    to_client,      \* units on their way, per client
    cpc,            \* every client's position
    my_name,        \* the name it was given
    signalled       \* the clients that got ^C

registry == <<name, socket, responsive, client_count>>
network == <<peer, backlog, to_server, to_client>>
clientVars == <<cpc, my_name, signalled>>
inputVars == <<op_id, stdin_open>>
vars == <<registry, th, inputVars, up, overlapped, network, clientVars>>

(* at: loop index; arg, own: the name handle_unregister looks for, given   *)
(* or read through a pointer into slot own; fd: descriptor of the event,   *)
(* or the one to send to or to close; reg: client_count as loaded.         *)
Rest == [pc |-> "rest", at |-> 0, arg |-> NoName, own |-> -1, fd |-> 0, avail |-> -1, reg |-> 0]

TypeOK ==
    /\ name \in [Slots -> Names \cup {NoName}]
    /\ socket \in [Slots -> Fds \cup {0}]
    /\ responsive \in [Slots -> BOOLEAN]
    /\ client_count \in Int
    /\ th \in [Threads ->
           [pc: {"rest", "recv", "find", "anonymous", "full", "scan", "compare", "refuse",
                 "set_name", "set_socket", "set_responsive", "inc", "inc_store", "ack",
                 "match_ping", "answered", "match", "fetch_victim", "close", "zero_socket",
                 "zero_name", "dec", "dec_store", "check", "test", "fetch", "ping", "mark",
                 "pick", "fetch_socket", "send"},
            at: Slots, arg: Names \cup {NoName}, own: Slots \cup {-1},
            fd: Fds \cup {0}, avail: Slots \cup {-1}, reg: Int]]
    /\ op_id \in 0..Requests
    /\ stdin_open \in BOOLEAN /\ up \in BOOLEAN /\ overlapped \in BOOLEAN
    /\ peer \in [Fds -> Clients \cup {NoClient}]
    /\ backlog \subseteq Clients
    /\ to_server \in [Clients -> Seq({"REGISTER", "UNREGISTER", "PING", "RESULT"})]
    /\ to_client \in [Clients -> Seq({"REGISTER_ACK", "NAME_TAKEN", "PING", "ARITH", "rest"})]
    /\ cpc \in [Clients -> {"start", "register", "listen", "hung", "left"}]
    /\ my_name \in [Clients -> Names \cup {NoName}]
    /\ signalled \subseteq Interruptible

Init ==
    /\ name = [i \in Slots |-> NoName]
    /\ socket = [i \in Slots |-> 0]
    /\ responsive = [i \in Slots |-> FALSE]
    /\ client_count = 0
    /\ th = [t \in Threads |-> Rest]
    /\ op_id = 0
    /\ stdin_open = TRUE
    /\ up = TRUE
    /\ overlapped = FALSE
    /\ peer = [f \in Fds |-> NoClient]
    /\ backlog = {}
    /\ to_server = [c \in Clients |-> <<>>]
    /\ to_client = [c \in Clients |-> <<>>]
    /\ cpc = [c \in Clients |-> "start"]
    /\ my_name = [c \in Clients |-> NoName]
    /\ signalled = {}
-----------------------------------------------------------------------------
(* What all threads do.                                                    *)
At(t, p) == up /\ th[t].pc = p
Goes(t, p) == th' = [th EXCEPT ![t].pc = p]
Rests(t) == th' = [th EXCEPT ![t] = Rest]


(* Back to the loop of the thread: for the monitor, to the next slot.      *)
Returns(t) ==
    IF t = "monitor"
    THEN th' = [th EXCEPT ![t] =
                    IF th[t].own + 1 = MaxClients THEN Rest
                    ELSE [Rest EXCEPT !.pc = "check", !.own = th[t].own + 1]]
    ELSE Rests(t)

(* The next slot of a search, if there is one.                             *)
SearchesOn(t, otherwise) ==
    IF th[t].at + 1 = MaxClients THEN otherwise ELSE th' = [th EXCEPT ![t].at = @ + 1]

(* Positions where a thread changes the registry, or has decided to.       *)
Removing(t) == th[t].pc \in {"match", "fetch_victim", "close", "zero_socket", "zero_name",
                             "dec", "dec_store"}
Adding == th["listener"].pc \in {"set_name", "set_socket", "set_responsive", "inc", "inc_store"}
Changing == Removing("listener") \/ Adding
Overlap == Changing /\ (Removing("monitor") \/ th["monitor"].pc = "test")
Noted == overlapped' = (overlapped \/ Overlap')

(* OK() and SIGPIPE end the server: its threads, its memory and its        *)
(* descriptors are gone.                                                   *)
Fails ==
    /\ up' = FALSE
    /\ th' = [t \in Threads |-> Rest]
    /\ name' = [i \in Slots |-> NoName] /\ socket' = [i \in Slots |-> 0]
    /\ responsive' = [i \in Slots |-> FALSE] /\ client_count' = 0
    /\ op_id' = 0 /\ stdin_open' = FALSE
    /\ peer' = [f \in Fds |-> NoClient] /\ backlog' = {}
    /\ to_server' = [c \in Clients |-> <<>>]
    /\ to_client' = [c \in Clients |-> <<>>]
    /\ UNCHANGED <<overlapped, clientVars>>

Open(fd) == fd # 0 /\ peer[fd] # NoClient

(* send_message: descriptor 0 is no socket and a closed one is nothing; if *)
(* the client is gone the send fails, or goes nowhere.                     *)
SendTo(fd, units, goesOn) ==
    \/ /\ Open(fd) => cpc[peer[fd]] = "left"
       /\ Fails
    \/ /\ Open(fd)
       /\ to_client' = IF cpc[peer[fd]] = "left" THEN to_client
                       ELSE [to_client EXCEPT ![peer[fd]] = @ \o units]
       /\ goesOn /\ Noted
       /\ UNCHANGED <<registry, inputVars, up, peer, backlog, to_server, clientVars>>

(* shutdown and close; descriptor 0 is standard input.                     *)
Close(fd) ==
    /\ peer' = [f \in Fds |-> IF f = fd THEN NoClient ELSE peer[f]]
    /\ to_server' = IF Open(fd) THEN [to_server EXCEPT ![peer[fd]] = <<>>] ELSE to_server
    /\ stdin_open' = (stdin_open /\ fd # 0)
    /\ Noted
    /\ UNCHANGED <<registry, op_id, up, backlog, to_client, clientVars>>

Local == Noted /\ UNCHANGED <<inputVars, up, network, clientVars>>
-----------------------------------------------------------------------------
(* handle_unregister(name), in the listener and in the monitor.            *)
Sought(t) == IF th[t].own \in Slots THEN name[th[t].own] ELSE th[t].arg

Match(t) ==
    /\ At(t, "match")
    /\ IF name[th[t].at] = Sought(t) THEN Goes(t, "fetch_victim") ELSE SearchesOn(t, Returns(t))
    /\ Local /\ UNCHANGED registry

FetchVictim(t) ==
    /\ At(t, "fetch_victim")
    /\ th' = [th EXCEPT ![t].pc = "close", ![t].fd = socket[th[t].at]]
    /\ Local /\ UNCHANGED registry

CloseVictim(t) == At(t, "close") /\ Goes(t, "zero_socket") /\ Close(th[t].fd)

ZeroSocket(t) ==
    /\ At(t, "zero_socket") /\ Goes(t, "zero_name")
    /\ socket' = [socket EXCEPT ![th[t].at] = 0]
    /\ Local /\ UNCHANGED <<name, responsive, client_count>>

ZeroName(t) ==
    /\ At(t, "zero_name") /\ Goes(t, "dec")
    /\ name' = [name EXCEPT ![th[t].at] = NoName]
    /\ Local /\ UNCHANGED <<socket, responsive, client_count>>

(* --client_count: a load and a store.                                     *)
LoadCount(t, from, to) ==
    /\ At(t, from)
    /\ th' = [th EXCEPT ![t].pc = to, ![t].reg = client_count]
    /\ Local /\ UNCHANGED registry

StoreDecrement(t) ==
    /\ At(t, "dec_store") /\ Returns(t)
    /\ client_count' = th[t].reg - 1
    /\ Local /\ UNCHANGED <<name, socket, responsive>>

handle_unregister(t) ==
    \/ Match(t) \/ FetchVictim(t) \/ CloseVictim(t) \/ ZeroSocket(t) \/ ZeroName(t)
    \/ LoadCount(t, "dec", "dec_store") \/ StoreDecrement(t)
-----------------------------------------------------------------------------
(* The listener.                                                           *)
L == th["listener"]
ListenerAt(p) == At("listener", p)

(* accept_connection: the lowest free descriptor.                          *)
Accept ==
    /\ ListenerAt("rest")
    /\ \E c \in backlog, f \in Fds :
           /\ peer[f] = NoClient /\ \A g \in 1..(f - 1) : peer[g] # NoClient
           /\ peer' = [peer EXCEPT ![f] = c]
           /\ backlog' = backlog \ {c}
    /\ UNCHANGED <<registry, th, inputVars, up, overlapped, to_server, to_client, clientVars>>

(* epoll_wait returns a descriptor with a message or whose client is gone. *)
EpollWait ==
    /\ ListenerAt("rest")
    /\ \E f \in Fds :
           /\ Open(f)
           /\ to_server[peer[f]] # <<>> \/ cpc[peer[f]] = "left"
           /\ th' = [th EXCEPT !["listener"].pc = "recv", !["listener"].fd = f]
    /\ Local /\ UNCHANGED registry

(* read_message and the switch of process_message.                         *)
ReadMessage ==
    /\ ListenerAt("recv")
    /\ Open(L.fd)
    /\ LET c == peer[L.fd]
           m == Head(to_server[c])
           named(p) == th' = [th EXCEPT !["listener"].pc = p, !["listener"].arg = my_name[c]]
       IN  /\ to_server[c] # <<>>
           /\ to_server' = [to_server EXCEPT ![c] = Tail(@)]
           /\ \/ m = "REGISTER" /\ named("full")
              \/ m = "UNREGISTER" /\ named("match")
              \/ m = "PING" /\ Goes("listener", "match_ping")
              \/ m = "RESULT" /\ Rests("listener")
    /\ Noted
    /\ UNCHANGED <<registry, inputVars, up, peer, backlog, to_client, clientVars>>

(* End of file; a client that left with data unread resets the connection, *)
(* and so does recv on a descriptor the monitor has closed: OK() exits.    *)
ReadEnd ==
    /\ ListenerAt("recv")
    /\ Open(L.fd) => to_server[peer[L.fd]] = <<>>
    /\ \/ Open(L.fd) /\ Goes("listener", "find") /\ Local /\ UNCHANGED registry
       \/ (Open(L.fd) => to_client[peer[L.fd]] # <<>>) /\ Fails

(* find_client_by_socket.                                                  *)
Find ==
    /\ ListenerAt("find")
    /\ IF socket[L.at] = L.fd
       THEN th' = [th EXCEPT !["listener"] = [@ EXCEPT !.pc = "match", !.at = 0, !.own = L.at]]
       ELSE SearchesOn("listener", Goes("listener", "anonymous"))
    /\ Local /\ UNCHANGED registry

CloseAnonymous == ListenerAt("anonymous") /\ Rests("listener") /\ Close(L.fd)

(* handle_register.                                                        *)
RefuseFull ==
    /\ ListenerAt("full")
    /\ IF client_count >= MaxClients THEN Rests("listener") ELSE Goes("listener", "scan")
    /\ Local /\ UNCHANGED registry

(* The loop, which remembers the first unused slot and compares the names  *)
(* in the others; i is the next slot.                                      *)
ScansOn(i, available_idx) ==
    th' = [th EXCEPT !["listener"] =
               [@ EXCEPT !.pc = IF i < MaxClients THEN "scan" ELSE "set_name",
                         !.at = IF i < MaxClients THEN i ELSE 0,
                         !.avail = available_idx]]

Scan ==
    /\ ListenerAt("scan")
    /\ IF L.avail = -1 /\ socket[L.at] = 0 THEN ScansOn(L.at + 1, L.at)
                                           ELSE Goes("listener", "compare")
    /\ Local /\ UNCHANGED registry

(* Mutant: a name that is taken is accepted.                               *)
CompareNot ==
    /\ ListenerAt("compare")
    /\ IF L.at + 1 = MaxClients /\ L.avail = -1 THEN Fails
       ELSE ScansOn(L.at + 1, L.avail) /\ Local /\ UNCHANGED registry

(* With no slot left clients[-1] is written, which the sanitizer that the  *)
(* Makefile builds in does not let pass.                                   *)
Compare ==
    /\ ListenerAt("compare")
    /\ IF name[L.at] # L.arg /\ L.at + 1 = MaxClients /\ L.avail = -1 THEN Fails
       ELSE /\ IF name[L.at] = L.arg THEN Goes("listener", "refuse") ELSE ScansOn(L.at + 1, L.avail)
            /\ Local /\ UNCHANGED registry

Refuse == ListenerAt("refuse") /\ SendTo(L.fd, NameTaken, Rests("listener"))

SetName ==
    /\ ListenerAt("set_name") /\ Goes("listener", "set_socket")
    /\ name' = [name EXCEPT ![L.avail] = L.arg]
    /\ Local /\ UNCHANGED <<socket, responsive, client_count>>

SetSocket ==
    /\ ListenerAt("set_socket") /\ Goes("listener", "set_responsive")
    /\ socket' = [socket EXCEPT ![L.avail] = L.fd]
    /\ Local /\ UNCHANGED <<name, responsive, client_count>>

SetResponsive ==
    /\ ListenerAt("set_responsive") /\ Goes("listener", "inc")
    /\ responsive' = [responsive EXCEPT ![L.avail] = TRUE]
    /\ Local /\ UNCHANGED <<name, socket, client_count>>

StoreIncrement ==
    /\ ListenerAt("inc_store") /\ Goes("listener", "ack")
    /\ client_count' = L.reg + 1
    /\ Local /\ UNCHANGED <<name, socket, responsive>>

Acknowledge == ListenerAt("ack") /\ SendTo(L.fd, Ack, Rests("listener"))

handle_register ==
    \/ RefuseFull \/ Scan \/ Compare \/ Refuse \/ SetName \/ SetSocket \/ SetResponsive
    \/ LoadCount("listener", "inc", "inc_store") \/ StoreIncrement \/ Acknowledge

(* handle_ping.                                                            *)
MatchPing ==
    /\ ListenerAt("match_ping")
    /\ IF socket[L.at] = L.fd THEN Goes("listener", "answered")
       ELSE SearchesOn("listener", Rests("listener"))
    /\ Local /\ UNCHANGED registry

Answered ==
    /\ ListenerAt("answered") /\ Rests("listener")
    /\ responsive' = [responsive EXCEPT ![L.at] = TRUE]
    /\ Local /\ UNCHANGED <<name, socket, client_count>>

listener ==
    \/ Accept \/ EpollWait \/ ReadMessage \/ ReadEnd \/ Find \/ CloseAnonymous
    \/ handle_register \/ handle_unregister("listener") \/ MatchPing \/ Answered
-----------------------------------------------------------------------------
(* The monitor; own is its loop index.                                     *)
M == th["monitor"]
MonitorAt(p) == At("monitor", p)

(* sleep(PING_PERIOD) is over.                                             *)
Wake ==
    /\ MonitorAt("rest")
    /\ client_count >= LeastCount
    /\ th' = [th EXCEPT !["monitor"].pc = "check", !["monitor"].own = 0]
    /\ Local /\ UNCHANGED registry

Check ==
    /\ MonitorAt("check")
    /\ IF socket[M.own] = 0 THEN Returns("monitor") ELSE Goes("monitor", "test")
    /\ Local /\ UNCHANGED registry

(* Mutant: an unresponsive client is skipped.                              *)
TestResponsiveSkips ==
    /\ MonitorAt("test")
    /\ IF responsive[M.own] THEN Goes("monitor", "fetch") ELSE Returns("monitor")
    /\ Local /\ UNCHANGED registry

TestResponsive ==
    /\ MonitorAt("test")
    /\ Goes("monitor", IF responsive[M.own] THEN "fetch" ELSE "match")
    /\ Local /\ UNCHANGED registry

FetchSocket ==
    /\ MonitorAt("fetch")
    /\ th' = [th EXCEPT !["monitor"].pc = "ping", !["monitor"].fd = socket[M.own]]
    /\ Local /\ UNCHANGED registry

SendPing == MonitorAt("ping") /\ SendTo(M.fd, Ping, Goes("monitor", "mark"))

MarkUnresponsive ==
    /\ MonitorAt("mark") /\ Returns("monitor")
    /\ responsive' = [responsive EXCEPT ![M.own] = FALSE]
    /\ Local /\ UNCHANGED <<name, socket, client_count>>

monitor ==
    \/ Wake \/ Check \/ TestResponsive \/ FetchSocket \/ SendPing \/ MarkUnresponsive
    \/ handle_unregister("monitor")
-----------------------------------------------------------------------------
(* The reader.                                                             *)
R == th["reader"]

(* getline and the test in get_random_client; the slot is any.             *)
ReadLine ==
    /\ At("reader", "rest") /\ stdin_open
    /\ op_id < Requests
    /\ op_id' = op_id + 1
    /\ IF client_count < 1 THEN UNCHANGED th
       ELSE \E i \in Slots : th' = [th EXCEPT !["reader"].pc = "pick", !["reader"].at = i]
    /\ UNCHANGED <<registry, stdin_open, up, overlapped, network, clientVars>>

(* getline fails.                                                          *)
InputGone ==
    /\ At("reader", "rest") /\ ~stdin_open
    /\ Fails

Pick ==
    /\ At("reader", "pick")
    /\ IF socket[R.at] = 0 THEN th' = [th EXCEPT !["reader"].at = (@ + 1) % MaxClients]
       ELSE Goes("reader", "fetch_socket")
    /\ Local /\ UNCHANGED registry

FetchChosen ==
    /\ At("reader", "fetch_socket")
    /\ th' = [th EXCEPT !["reader"].pc = "send", !["reader"].fd = socket[R.at]]
    /\ Local /\ UNCHANGED registry

SendRequest == At("reader", "send") /\ SendTo(R.fd, Arith, Rests("reader"))

reader == ReadLine \/ InputGone \/ Pick \/ FetchChosen \/ SendRequest
-----------------------------------------------------------------------------
(* The clients.                                                            *)
Connected(c) == c \in backlog \/ \E f \in Fds : peer[f] = c

ClientAt(c, from, to) == up /\ cpc[c] = from /\ cpc' = [cpc EXCEPT ![c] = to]

(* The client is given a name, connects, and do_register sends REGISTER.   *)
Connect(c) ==
    /\ ClientAt(c, "start", "register")
    /\ \E n \in Names : my_name' = [my_name EXCEPT ![c] = n]
    /\ backlog' = backlog \cup {c}
    /\ to_server' = [to_server EXCEPT ![c] = <<Register>>]
    /\ UNCHANGED <<registry, th, inputVars, up, overlapped, peer, to_client, signalled>>

(* recv of at most n units: those that are there, not a message.           *)
Receives(c, n) ==
    LET k == IF Len(to_client[c]) < n THEN Len(to_client[c]) ELSE n
    IN  /\ to_client[c] # <<>>
        /\ to_client' = [to_client EXCEPT ![c] = SubSeq(@, k + 1, Len(@))]

(* The answer to REGISTER; whatever is not NAME_TAKEN will do.             *)
ReceiveResult(c) ==
    /\ Connected(c) /\ Receives(c, 2)
    /\ ClientAt(c, "register", IF Head(to_client[c]) = "NAME_TAKEN" THEN "left" ELSE "listen")
    /\ UNCHANGED <<registry, th, inputVars, up, overlapped, peer, backlog, to_server, my_name, signalled>>

(* One round of do_listen.  A request may be a division by zero.           *)
Listen(c) ==
    /\ Connected(c) /\ Receives(c, 3)
    /\ LET m == Head(to_client[c])
           answers(a) == /\ to_server' = [to_server EXCEPT ![c] = Append(@, a)]
                         /\ ClientAt(c, "listen", "listen")
       IN  \/ m = "PING" /\ answers("PING")
           \/ m = "ARITH" /\ answers("RESULT")
           \/ m = "ARITH" /\ ClientAt(c, "listen", "left") /\ UNCHANGED to_server
           \/ m \notin {"PING", "ARITH"} /\ ClientAt(c, "listen", "listen") /\ UNCHANGED to_server
    /\ UNCHANGED <<registry, th, inputVars, up, overlapped, peer, backlog, my_name, signalled>>

(* The server has closed the connection: recv or send tells.               *)
ServerClosed(c) ==
    /\ ~Connected(c)
    /\ \E from \in {"register", "listen"} : ClientAt(c, from, "left")
    /\ UNCHANGED <<registry, th, inputVars, up, overlapped, network, my_name, signalled>>

(* SIGINT: UNREGISTER is sent, and the client stays.                       *)
Interrupt(c) ==
    /\ up /\ c \in Interruptible \ signalled /\ Connected(c)
    /\ cpc[c] \in {"register", "listen"}
    /\ signalled' = signalled \cup {c}
    /\ to_server' = [to_server EXCEPT ![c] = Append(@, Unregister)]
    /\ UNCHANGED <<registry, th, inputVars, up, overlapped, peer, backlog, to_client, cpc, my_name>>

Killed(c) ==
    /\ c \in Killable
    /\ \E from \in {"register", "listen"} : ClientAt(c, from, "left")
    /\ UNCHANGED <<registry, th, inputVars, up, overlapped, network, my_name, signalled>>

(* The client stops running with its connection open.                      *)
Hang(c) ==
    /\ c \in Silent
    /\ ClientAt(c, "listen", "hung")
    /\ UNCHANGED <<registry, th, inputVars, up, overlapped, network, my_name, signalled>>

client(c) ==
    \/ Connect(c) \/ ReceiveResult(c) \/ Listen(c) \/ ServerClosed(c)
    \/ Interrupt(c) \/ Killed(c) \/ Hang(c)
-----------------------------------------------------------------------------
(* The server is gone, or the count has fallen below the bound.            *)
Halted == (~up \/ client_count < LeastCount) /\ UNCHANGED vars

Next ==
    \/ listener \/ monitor \/ reader
    \/ \E c \in Clients : client(c)
    \/ Halted

Spec == Init /\ [][Next]_vars

(* The monitor's thread runs, and its sleep ends.                          *)
FairSpec == Spec /\ WF_vars(monitor)
-----------------------------------------------------------------------------
Used == {i \in Slots : socket[i] # 0}

(* No two entries of the registry have one name: although it searches a    *)
(* registry that the monitor changes meanwhile, the listener overlooks no  *)
(* client of that name.  As long as the two have not worked on the         *)
(* registry at the same time, it is sound between their changes:           *)
(* client_count counts the entries, each has a connection of its own, the  *)
(* one of a client of that name, and unused slots have no name.            *)
NamesUnique ==
    \A i, j \in Slots : name[i] = name[j] /\ name[i] # NoName => i = j

RegistrySound ==
    /\ NamesUnique
    /\ ~overlapped /\ ~Changing /\ ~Removing("monitor") =>
           /\ client_count = Cardinality(Used)
           /\ \A i \in Used : Open(socket[i]) /\ name[i] = my_name[peer[socket[i]]]
           /\ \A i, j \in Used : socket[i] = socket[j] => i = j
           /\ \A i \in Slots \ Used : name[i] = NoName

(* A client that stops running is removed in the end.                      *)
SilentRemoved ==
    \A c \in Clients :
        cpc[c] = "hung" ~> (~up \/ overlapped \/ \A i \in Used : peer[socket[i]] # c)

(* The client in slot i has handled all that the server sent it, and the   *)
(* server all that it answered.                                            *)
UpToDate(c) ==
    /\ cpc[c] = "listen" /\ c \notin signalled
    /\ to_client[c] = <<>> /\ to_server[c] = <<>>
    /\ L.pc = "rest"

(* "Client did not respond to ping, removing": a client the monitor        *)
(* decides to remove has not answered everything it was sent.              *)
OnlySilentRemoved ==
    [][MonitorAt("test") /\ M'.pc = "match" /\ Open(socket[M.own]) =>
           ~UpToDate(peer[socket[M.own]])]_vars
=============================================================================

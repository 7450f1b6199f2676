--------------------------- MODULE SleepingBarber ---------------------------
(***************************************************************************)
(* The barber shop of lab7: one barber process and a set of client         *)
(* processes that share a memory segment (barber state, barber's chair,    *)
(* waiting queue) and a set of counting semaphores.  zad1 builds it on     *)
(* System V IPC, zad2 on POSIX semaphores; the two differ only in how a    *)
(* client's own semaphore is named, which is the constant ClientKey.       *)
(*                                                                         *)
(* One action per stretch of code up to and including its next semaphore   *)
(* operation.  The stores before the operation are to data that the lock   *)
(* held at that point protects; the one store to shared memory made        *)
(* without a lock (client_sit emptying the chair) is an action of its own. *)
(***************************************************************************)
EXTENDS Integers, Sequences

CONSTANTS
    Clients,     \* process ids of the clients (client.c main forks them)
    Chairs,      \* barber's argument: length of the waiting queue
    Repeats,     \* client's argument: haircuts every client wants
    ClientKey    \* name of each client's own semaphore, by process id

(* ftok() keeps the low eight bits of the project id it is given.          *)
FtokKey(pid) == pid % 256
(* zad2 spells the whole process id into the name, past the shared SEMS=7. *)
NameKey(pid) == 7 + pid
(* FTOK_PROJ_ID: the key of the shared semaphore set.                      *)
MainKey == 1

Keys == {ClientKey[c] : c \in Clients} \cup {MainKey}

ASSUME ClientsAssumption == Clients \subseteq Nat \ {0}
ASSUME ParamAssumption == Chairs \in Nat /\ Repeats \in Nat
ASSUME KeyAssumption == ClientKey \in [Clients -> Nat]

NoClient == -1

(* No two clients, and no client and the shop, share a semaphore name.     *)
DistinctKeys ==
    /\ \A c, d \in Clients : ClientKey[c] = ClientKey[d] => c = d
    /\ \A c \in Clients : ClientKey[c] # MainKey

Sems == {"QUEUE_LOCK", "BARBER_STATE_LOCK", "CUSTOMER_AVAIL",
         "CURRENT_SEATED", "FINISHED", "LEFT"}

BarberStates == {"unset", "SLEEPING", "INVITING", "CUTTING", "WAKING"}

BarberPCs == {"sleep", "wait_customer", "wait_woken_seated", "lock_after_sleep",
              "cut", "finish", "wait_left", "lock_after_cut", "peek",
              "invite", "lock_queue", "pop", "get_client_sem", "call",
              "wait_invited_seated", "lock_after_invite"}

ClientPCs == {"outside", "look", "release_woken", "lock_woken", "check_queue",
              "reject", "release_queued", "get_own_sem",
              "wait_invitation", "remove_sem", "lock_invited", "sit",
              "seated", "wait_finished", "leave", "left", "exited"}

VARIABLES
    bpc,            \* the barber's position in dispatch()
    cpc,            \* every client's position in dispatch()
    b_state,        \* shm->b_state
    seated_client,  \* shm->seated_client
    queue,          \* shm->queue[0 .. queue_length - 1]
    sem,            \* values of the shared semaphores
    semset,         \* FALSE once the shared set has been removed
    invited,        \* values of the clients' semaphores, by key
    handle,         \* the semaphore a client holds the identifier of
    bhandle,        \* the semaphore the barber holds the identifier of
    next_client,    \* barber_invite's local variable
    repeats         \* haircuts every client still wants

barberVars == <<bpc, bhandle, next_client>>
clientVars == <<cpc, handle, repeats>>
shop == <<b_state, seated_client, queue>>
semVars == <<sem, semset, invited>>
vars == <<barberVars, clientVars, shop, semVars>>

Handles == {"none", "main", "live", "stale"}

TypeOK ==
    /\ bpc \in BarberPCs
    /\ cpc \in [Clients -> ClientPCs]
    /\ b_state \in BarberStates
    /\ seated_client \in Clients \cup {NoClient}
    /\ queue \in Seq(Clients)
    /\ sem \in [Sems -> Nat]
    /\ semset \in BOOLEAN
    /\ invited \in [Keys -> Nat]
    /\ handle \in [Clients -> Handles]
    /\ bhandle \in Handles
    /\ next_client \in Clients \cup {NoClient}
    /\ repeats \in [Clients -> 0..Repeats]

(* barber.c main(): the queue lock is free, everything else is zero.       *)
Init ==
    /\ bpc = "sleep"
    /\ cpc = [c \in Clients |-> "outside"]
    /\ b_state = "unset"
    /\ seated_client = NoClient
    /\ queue = <<>>
    /\ sem = [s \in Sems |-> IF s = "QUEUE_LOCK" THEN 1 ELSE 0]
    /\ semset = TRUE
    /\ invited = [k \in Keys |-> 0]
    /\ handle = [c \in Clients |-> "none"]
    /\ bhandle = "none"
    /\ next_client = NoClient
    /\ repeats = [c \in Clients |-> Repeats]

-----------------------------------------------------------------------------
(* semsignal and semwait.  OK() only tests for values below -1, so on a    *)
(* removed set, where semop returns -1, both return as if they had worked. *)
Signal(s) == sem' = IF semset THEN [sem EXCEPT ![s] = @ + 1] ELSE sem

Wait(s) == IF semset THEN sem[s] > 0 /\ sem' = [sem EXCEPT ![s] = @ - 1]
                     ELSE sem' = sem

(* get_client_sem: semget with IPC_CREAT finds or creates the set of a key.*)
GetClientSem(key) == IF key = MainKey /\ semset THEN "main" ELSE "live"

(* Signalling and waiting on semaphore CLIENT_INVITED (number 0) of the    *)
(* set h refers to; number 0 of the shared set is QUEUE_LOCK.              *)
SignalInvited(h, key) ==
    \/ h = "main" /\ Signal("QUEUE_LOCK") /\ UNCHANGED invited
    \/ h = "live" /\ invited' = [invited EXCEPT ![key] = @ + 1] /\ UNCHANGED sem
    \/ h = "stale" /\ UNCHANGED <<sem, invited>>

WaitInvited(h, key) ==
    \/ h = "main" /\ Wait("QUEUE_LOCK") /\ UNCHANGED invited
    \/ /\ h = "live" /\ invited[key] > 0
       /\ invited' = [invited EXCEPT ![key] = @ - 1]
       /\ UNCHANGED sem
    \/ h = "stale" /\ UNCHANGED <<sem, invited>>
-----------------------------------------------------------------------------
(* The barber.  barber_sleep, barber_cut and barber_invite each return the *)
(* state dispatch() enters next, holding BARBER_STATE_LOCK.                *)
BarberAt(from, to) == bpc = from /\ bpc' = to

BarberWait(from, s, to) ==
    /\ BarberAt(from, to)
    /\ Wait(s)
    /\ UNCHANGED <<bhandle, next_client, clientVars, shop, semset, invited>>

BarberSignal(from, state, s, to) ==
    /\ BarberAt(from, to)
    /\ b_state' = state
    /\ Signal(s)
    /\ UNCHANGED <<bhandle, next_client, clientVars, seated_client, queue, semset, invited>>

BarberSleep ==
    \/ BarberSignal("sleep", "SLEEPING", "BARBER_STATE_LOCK", "wait_customer")
    \/ BarberWait("wait_customer", "CUSTOMER_AVAIL", "wait_woken_seated")
    \/ BarberWait("wait_woken_seated", "CURRENT_SEATED", "lock_after_sleep")
    \/ BarberWait("lock_after_sleep", "BARBER_STATE_LOCK", "cut")

(* peek_queue() reads the queue without QUEUE_LOCK.                        *)
PeekQueue ==
    /\ bpc = "peek"
    /\ bpc' = IF queue = <<>> THEN "sleep" ELSE "invite"
    /\ UNCHANGED <<bhandle, next_client, clientVars, shop, semVars>>

(* Mutant: the barber forgets to retake BARBER_STATE_LOCK before peeking.  *)
BarberCutUnlockedPeek ==
    \/ BarberSignal("cut", "CUTTING", "BARBER_STATE_LOCK", "finish")
    \/ BarberSignal("finish", b_state, "FINISHED", "wait_left")
    \/ BarberWait("wait_left", "LEFT", "peek")
    \/ PeekQueue

BarberCut ==
    \/ BarberSignal("cut", "CUTTING", "BARBER_STATE_LOCK", "finish")
    \/ BarberSignal("finish", b_state, "FINISHED", "wait_left")
    \/ BarberWait("wait_left", "LEFT", "lock_after_cut")
    \/ BarberWait("lock_after_cut", "BARBER_STATE_LOCK", "peek")
    \/ PeekQueue

(* Mutant: the newest client is popped instead of the oldest.              *)
PopNewestClient ==
    /\ BarberAt("pop", "get_client_sem")
    /\ next_client' = IF queue = <<>> THEN NoClient ELSE queue[Len(queue)]
    /\ queue' = IF queue = <<>> THEN queue ELSE SubSeq(queue, 1, Len(queue) - 1)
    /\ Signal("QUEUE_LOCK")
    /\ UNCHANGED <<bhandle, clientVars, b_state, seated_client, semset, invited>>

PopClient ==
    /\ BarberAt("pop", "get_client_sem")
    /\ next_client' = IF queue = <<>> THEN NoClient ELSE Head(queue)
    /\ queue' = IF queue = <<>> THEN queue ELSE Tail(queue)
    /\ Signal("QUEUE_LOCK")
    /\ UNCHANGED <<bhandle, clientVars, b_state, seated_client, semset, invited>>

BarberGetClientSem ==
    /\ BarberAt("get_client_sem", "call")
    /\ bhandle' = GetClientSem(ClientKey[next_client])
    /\ UNCHANGED <<next_client, clientVars, shop, semVars>>

BarberCall ==
    /\ BarberAt("call", "wait_invited_seated")
    /\ SignalInvited(bhandle, ClientKey[next_client])
    /\ bhandle' = "none"
    /\ UNCHANGED <<next_client, clientVars, shop, semset>>

BarberInvite ==
    \/ BarberSignal("invite", "INVITING", "BARBER_STATE_LOCK", "lock_queue")
    \/ BarberWait("lock_queue", "QUEUE_LOCK", "pop")
    \/ PopClient
    \/ BarberGetClientSem
    \/ BarberCall
    \/ BarberWait("wait_invited_seated", "CURRENT_SEATED", "lock_after_invite")
    \/ BarberWait("lock_after_invite", "BARBER_STATE_LOCK", "cut")

Barber == BarberSleep \/ BarberCut \/ BarberInvite
-----------------------------------------------------------------------------
(* A client: client_come_in, client_enqueue and client_sit.                *)
ClientAt(c, from, to) == cpc[c] = from /\ cpc' = [cpc EXCEPT ![c] = to]

ClientWait(c, from, s, to) ==
    /\ ClientAt(c, from, to)
    /\ Wait(s)
    /\ UNCHANGED <<handle, repeats, barberVars, shop, semset, invited>>

ClientSignal(c, from, s, to) ==
    /\ ClientAt(c, from, to)
    /\ Signal(s)
    /\ UNCHANGED <<handle, repeats, barberVars, shop, semset, invited>>

(* dispatch(), OUTSIDE: a client that wants no more haircuts exits.        *)
ClientExit(c) ==
    /\ repeats[c] = 0
    /\ ClientAt(c, "outside", "exited")
    /\ UNCHANGED <<handle, repeats, barberVars, shop, semVars>>

(* Mutant: without "b_state = WAKING" a second client wakes him as well.   *)
WakeBarberTwice(c) ==
    /\ b_state = "SLEEPING"
    /\ ClientAt(c, "look", "release_woken")
    /\ Signal("CUSTOMER_AVAIL")
    /\ UNCHANGED <<handle, repeats, barberVars, shop, semset, invited>>

WakeBarber(c) ==
    /\ b_state = "SLEEPING"
    /\ ClientAt(c, "look", "release_woken")
    /\ b_state' = "WAKING"
    /\ Signal("CUSTOMER_AVAIL")
    /\ UNCHANGED <<handle, repeats, barberVars, seated_client, queue, semset, invited>>

(* Mutant: the queue is examined without its lock.                         *)
LookAtQueueUnlocked(c) ==
    /\ b_state # "SLEEPING"
    /\ ClientAt(c, "look", "check_queue")
    /\ UNCHANGED <<handle, repeats, barberVars, shop, semVars>>

(* Any other state: take QUEUE_LOCK too, still holding BARBER_STATE_LOCK.  *)
LookAtQueue(c) ==
    /\ b_state # "SLEEPING"
    /\ ClientWait(c, "look", "QUEUE_LOCK", "check_queue")

(* Mutant: one client too many is let in.                                  *)
QueueOverFull == Len(queue) = Chairs + 1

QueueFull == Len(queue) = Chairs

(* Mutants: a client turned away keeps QUEUE_LOCK; a client comes back     *)
(* although it wants no more haircuts.                                     *)
ClientComeInKeepsLock(c) ==
    \/ repeats[c] # 0 /\ ClientWait(c, "outside", "BARBER_STATE_LOCK", "look")
    \/ WakeBarber(c)
    \/ ClientSignal(c, "release_woken", "BARBER_STATE_LOCK", "lock_woken")
    \/ ClientWait(c, "lock_woken", "BARBER_STATE_LOCK", "sit")
    \/ LookAtQueue(c)
    \/ QueueFull /\ ClientSignal(c, "check_queue", "BARBER_STATE_LOCK", "outside")

ClientComeInAgain(c) ==
    \/ ClientWait(c, "outside", "BARBER_STATE_LOCK", "look")
    \/ WakeBarber(c)
    \/ ClientSignal(c, "release_woken", "BARBER_STATE_LOCK", "lock_woken")
    \/ ClientWait(c, "lock_woken", "BARBER_STATE_LOCK", "sit")
    \/ LookAtQueue(c)
    \/ QueueFull /\ ClientSignal(c, "check_queue", "BARBER_STATE_LOCK", "reject")
    \/ ClientSignal(c, "reject", "QUEUE_LOCK", "outside")

ClientComeIn(c) ==
    \/ repeats[c] # 0 /\ ClientWait(c, "outside", "BARBER_STATE_LOCK", "look")
    \/ WakeBarber(c)
    \/ ClientSignal(c, "release_woken", "BARBER_STATE_LOCK", "lock_woken")
    \/ ClientWait(c, "lock_woken", "BARBER_STATE_LOCK", "sit")
    \/ LookAtQueue(c)
    \/ QueueFull /\ ClientSignal(c, "check_queue", "BARBER_STATE_LOCK", "reject")
    \/ ClientSignal(c, "reject", "QUEUE_LOCK", "outside")

PushClient(c) ==
    /\ ~QueueFull
    /\ ClientAt(c, "check_queue", "release_queued")
    /\ queue' = Append(queue, c)
    /\ Signal("QUEUE_LOCK")
    /\ UNCHANGED <<handle, repeats, barberVars, b_state, seated_client, semset, invited>>

GetOwnSem(c) ==
    /\ ClientAt(c, "get_own_sem", "wait_invitation")
    /\ handle' = [handle EXCEPT ![c] = GetClientSem(ClientKey[c])]
    /\ UNCHANGED <<repeats, barberVars, shop, semVars>>

WaitInvitation(c) ==
    /\ ClientAt(c, "wait_invitation", "remove_sem")
    /\ WaitInvited(handle[c], ClientKey[c])
    /\ UNCHANGED <<handle, repeats, barberVars, shop, semset>>

(* IPC_RMID removes the whole set: whoever still holds its identifier is   *)
(* left with a stale one, and a later semget makes a fresh set.            *)
RemoveSem(c) ==
    LET key == ClientKey[c]
        gone == handle[c] = "live"
    IN  /\ ClientAt(c, "remove_sem", "lock_invited")
        /\ semset' = (semset /\ handle[c] # "main")
        /\ invited' = IF gone THEN [invited EXCEPT ![key] = 0] ELSE invited
        /\ handle' = [d \in Clients |->
              IF d = c THEN "none"
              ELSE IF gone /\ ClientKey[d] = key /\ handle[d] = "live" THEN "stale"
              ELSE handle[d]]
        /\ bhandle' = IF gone /\ bhandle = "live" /\ ClientKey[next_client] = key
                      THEN "stale" ELSE bhandle
        /\ UNCHANGED <<sem, bpc, next_client, repeats, shop>>

ClientEnqueue(c) ==
    \/ PushClient(c)
    \/ ClientSignal(c, "release_queued", "BARBER_STATE_LOCK", "get_own_sem")
    \/ GetOwnSem(c)
    \/ WaitInvitation(c)
    \/ RemoveSem(c)
    \/ ClientWait(c, "lock_invited", "BARBER_STATE_LOCK", "sit")

SitDown(c) ==
    /\ ClientAt(c, "sit", "seated")
    /\ seated_client' = c
    /\ Signal("BARBER_STATE_LOCK")
    /\ UNCHANGED <<handle, repeats, barberVars, b_state, queue, semset, invited>>

HaircutDone(c) ==
    /\ ClientAt(c, "wait_finished", "leave")
    /\ Wait("FINISHED")
    /\ repeats' = [repeats EXCEPT ![c] = @ - 1]
    /\ UNCHANGED <<handle, barberVars, shop, semset, invited>>

LeaveChair(c) ==
    /\ ClientAt(c, "leave", "left")
    /\ seated_client' = NoClient
    /\ UNCHANGED <<handle, repeats, barberVars, b_state, queue, semVars>>

(* Mutant: the barber is told before the chair is empty.                   *)
ClientSitLeavesLate(c) ==
    \/ SitDown(c)
    \/ ClientSignal(c, "seated", "CURRENT_SEATED", "wait_finished")
    \/ HaircutDone(c)
    \/ ClientSignal(c, "leave", "LEFT", "left")
    \/ /\ ClientAt(c, "left", "outside")
       /\ seated_client' = NoClient
       /\ UNCHANGED <<handle, repeats, barberVars, b_state, queue, semVars>>

ClientSit(c) ==
    \/ SitDown(c)
    \/ ClientSignal(c, "seated", "CURRENT_SEATED", "wait_finished")
    \/ HaircutDone(c)
    \/ LeaveChair(c)
    \/ ClientSignal(c, "left", "LEFT", "outside")

Client(c) == ClientExit(c) \/ ClientComeIn(c) \/ ClientEnqueue(c) \/ ClientSit(c)

(* client.c main() has waited for its children; the barber sleeps on.      *)
ShopClosed ==
    /\ \A c \in Clients : cpc[c] = "exited"
    /\ bpc = "wait_customer"
    /\ UNCHANGED vars

Next == Barber \/ (\E c \in Clients : Client(c)) \/ ShopClosed

Spec == Init /\ [][Next]_vars

(* Linux serves the waiters of a System V semaphore first come first       *)
(* served, so a process that waits on a semaphore that is signalled again  *)
(* and again is not passed over for ever.                                  *)
Fairness == SF_vars(Barber) /\ \A c \in Clients : SF_vars(Client(c))

FairSpec == Spec /\ Fairness
-----------------------------------------------------------------------------
(* Who is where: the clients in the queue, the clients whose turn it is    *)
(* (woken the barber or popped from the queue, not yet served), and those  *)
(* on the way out of the chair.                                            *)
Waiting == {queue[i] : i \in 1..Len(queue)}

Queued(c) == cpc[c] \in {"release_queued", "get_own_sem", "wait_invitation"}

Called == {c \in Clients :
              \/ cpc[c] \in {"release_woken", "lock_woken", "remove_sem", "lock_invited",
                             "sit", "seated", "wait_finished"}
              \/ Queued(c) /\ c \notin Waiting}

Leaving == {c \in Clients : cpc[c] \in {"leave", "left"}}

(* The assert()s of barber.c and client.c, at the positions that run them. *)
AssertsHold ==
    /\ bpc \in {"lock_after_sleep", "cut"} => seated_client > 0
    /\ bpc \in {"lock_after_cut", "invite"} => seated_client <= 0
    /\ bpc = "lock_after_invite" => seated_client = next_client
    /\ \A c \in Clients : cpc[c] = "sit" => seated_client <= 0

(* Mutual exclusion: each lock has at most one holder.  BARBER_STATE_LOCK  *)
(* protects b_state and the chair, QUEUE_LOCK the queue; the step size of  *)
(* this module rests on it.                                                *)
BarberHolds == [s \in {"BARBER_STATE_LOCK", "QUEUE_LOCK"} |->
    IF s = "QUEUE_LOCK" THEN {"pop"} ELSE {"sleep", "cut", "peek", "invite"}]

ClientHolds == [s \in {"BARBER_STATE_LOCK", "QUEUE_LOCK"} |->
    IF s = "QUEUE_LOCK" THEN {"check_queue", "reject"}
    ELSE {"look", "release_woken", "check_queue", "release_queued", "sit"}]

LockExclusive(s) ==
    /\ \A c \in Clients : cpc[c] \in ClientHolds[s] =>
          /\ bpc \notin BarberHolds[s]
          /\ sem[s] = 0
          /\ \A d \in Clients : cpc[d] \in ClientHolds[s] => d = c
    /\ bpc \in BarberHolds[s] => sem[s] = 0
    /\ sem[s] \in {0, 1}

MutualExclusion == LockExclusive("BARBER_STATE_LOCK") /\ LockExclusive("QUEUE_LOCK")

(* No lost wake-up: whenever the barber has declared himself asleep and    *)
(* nobody has woken him, nobody is waiting.                                *)
NoLostWakeup == b_state = "SLEEPING" => queue = <<>> /\ Called = {}

(* What barber_cut's comment claims for reading the queue without its      *)
(* lock: what the barber saw in peek_queue() still holds when he acts.     *)
PeekStillTrue ==
    /\ bpc = "sleep" => queue = <<>>
    /\ bpc \in {"invite", "lock_queue", "pop"} => queue # <<>>

(* The queue never holds more clients than there are chairs, holds nobody  *)
(* twice, and only clients that wait for an invitation.                    *)
QueueSound ==
    /\ Len(queue) <= Chairs
    /\ \A i, j \in 1..Len(queue) : queue[i] = queue[j] => i = j
    /\ \A c \in Waiting : Queued(c)

-----------------------------------------------------------------------------
(* The inductive invariant behind the properties above, for distinct keys. *)
(* Whoever is being looked after (called or leaving) is alone, and fixes   *)
(* where the barber can be; each semaphore is a token that says where both *)
(* sides of a hand-over stand.                                             *)
InCare == Called \cup Leaving

AwaitsSeat == {"wait_customer", "wait_woken_seated", "wait_invited_seated"}

Settled(c) == seated_client = c /\ cpc[c] = "wait_finished"

OneInCare == \A c, d \in InCare : c = d

ChairOccupied ==
    \A c \in Clients :
        seated_client = c <=> cpc[c] \in {"seated", "wait_finished", "leave"}

ClientPhase ==
    \A c \in Clients :
        /\ cpc[c] \in {"release_woken", "lock_woken"} =>
               bpc \in {"wait_customer", "wait_woken_seated"}
        /\ cpc[c] \in {"remove_sem", "lock_invited"} => bpc = "wait_invited_seated"
        /\ Queued(c) /\ c \notin Waiting =>
               bpc \in {"get_client_sem", "call", "wait_invited_seated"}
        /\ cpc[c] \in {"sit", "seated"} => bpc \in AwaitsSeat
        /\ cpc[c] = "wait_finished" =>
               \/ bpc \in AwaitsSeat /\ sem["CURRENT_SEATED"] = 1
               \/ bpc \in {"lock_after_sleep", "lock_after_invite", "cut", "finish"}
               \/ bpc = "wait_left" /\ sem["FINISHED"] = 1
        /\ c \in Leaving => bpc = "wait_left" /\ sem["FINISHED"] = 0
        /\ c \in InCare => b_state # "SLEEPING"
        /\ c \in InCare /\ bpc \in {"get_client_sem", "call", "wait_invited_seated",
                                    "lock_after_invite"} => next_client = c
        /\ cpc[c] \notin {"outside", "leave", "left", "exited"} => repeats[c] > 0
        /\ cpc[c] = "check_queue" => b_state # "SLEEPING"

BarberPhase ==
    /\ b_state = "SLEEPING" => bpc = "wait_customer"
    /\ bpc \in {"lock_after_sleep", "lock_after_invite", "cut", "finish"} =>
           \E c \in Clients : Settled(c)
    /\ bpc \in {"get_client_sem", "call", "wait_invited_seated", "lock_after_invite"} =>
           next_client \in Clients
    /\ bpc \in {"get_client_sem", "call"} => Queued(next_client) /\ next_client \notin Waiting

Tokens ==
    /\ \A s \in Sems : sem[s] \in {0, 1}
    /\ sem["CUSTOMER_AVAIL"] = 1 => bpc = "wait_customer" /\ b_state # "SLEEPING"
    /\ sem["CURRENT_SEATED"] = 1 => bpc \in AwaitsSeat /\ \E c \in Clients : Settled(c)
    /\ sem["FINISHED"] = 1 => bpc = "wait_left"
    /\ sem["LEFT"] = 1 => bpc = "wait_left" /\ sem["FINISHED"] = 0 /\ InCare = {}

Invitations ==
    \A k \in Keys : invited[k] # 0 =>
        /\ invited[k] = 1
        /\ bpc = "wait_invited_seated"
        /\ next_client \in Clients /\ k = ClientKey[next_client]
        /\ Queued(next_client) /\ next_client \notin Waiting

HandlesValid ==
    /\ semset
    /\ bhandle = IF bpc = "call" THEN "live" ELSE "none"
    /\ \A c \in Clients :
           handle[c] = IF cpc[c] \in {"wait_invitation", "remove_sem"} THEN "live" ELSE "none"

IInv ==
    /\ TypeOK
    /\ MutualExclusion
    /\ NoLostWakeup
    /\ PeekStillTrue
    /\ QueueSound
    /\ OneInCare
    /\ ChairOccupied
    /\ ClientPhase
    /\ BarberPhase
    /\ Tokens
    /\ Invitations
    /\ HandlesValid
-----------------------------------------------------------------------------
(* The semaphore-level program implements BarberShop: clients are called   *)
(* in the order they queued, one at a time, each served Repeats times.     *)
Shop == INSTANCE BarberShop WITH
    waiting <- queue,
    called <- Called,
    remaining <- repeats,
    asleep <- (b_state = "SLEEPING")

ImplementsShop == Shop!ShopSpec

(* Every client gets all its haircuts and leaves: nobody is turned away    *)
(* for ever, stuck in the queue or on a lock.                              *)
EveryoneServed == \A c \in Clients : <>(cpc[c] = "exited")
=============================================================================

----------------------------- MODULE CondBuffer -----------------------------
(***************************************************************************)
(* lab9 zad1: the producers and consumers of SemBuffer, kept apart by one  *)
(* mutex and one condition variable that producers waiting for an empty    *)
(* slot and consumers waiting for a filled one share.  The slots have      *)
(* mutexes of their own, taken inside the big one.                         *)
(***************************************************************************)
EXTENDS InputFile, FiniteSets

CONSTANTS
    Consumers,    \* consumer threads
    Slots,        \* buffor_size
    TTLs,         \* the values of thread_ttl to consider; 0 means no limit
    MaxSpurious   \* bound on the wake-ups that nobody asked for

ASSUME CondBufferAssumption ==
    /\ Producers \cap Consumers = {}
    /\ IsFiniteSet(Producers) /\ IsFiniteSet(Consumers)
    /\ Slots \in Nat \ {0}
    /\ TTLs \subseteq Nat
    /\ MaxSpurious \in Nat

Threads == Producers \cup Consumers
SlotIds == 0..(Slots - 1)
NoLine == <<>>
Nobody == "nobody"

ASSUME NobodyAssumption == Nobody \notin Threads

VARIABLES
    thread_ttl,   \* from the config file
    buffer,       \* buff.buffer, NoLine for NULL
    next_read,    \* buff.next_read
    next_write,   \* buff.next_write
    filled_slots,
    mutex,        \* who holds filled_slots_mutex
    waiters,      \* threads asleep on filled_slots_cond
    slot_owner,   \* who holds each slot's mutex
    pc, pos,      \* every thread's position and its local pos
    at,           \* lines each producer has read from its file
    printed,      \* standard output: the matching lines
    spurious      \* spurious wake-ups so far

ring == <<buffer, next_read, next_write, filled_slots>>
sync == <<mutex, waiters, slot_owner, spurious>>
vars == <<thread_ttl, ring, sync, pc, pos, at, printed>>

PCs == {"loop", "lock_mutex", "check", "waiting", "give_up", "lock_slot",
        "examine", "store", "leave", "done", "timed_out"}

TypeOK ==
    /\ thread_ttl \in TTLs
    /\ buffer \in [SlotIds -> Lines \cup {NoLine}]
    /\ next_read \in SlotIds
    /\ next_write \in SlotIds
    /\ filled_slots \in 0..Slots
    /\ mutex \in Threads \cup {Nobody}
    /\ waiters \subseteq Threads
    /\ slot_owner \in [SlotIds -> Threads \cup {Nobody}]
    /\ pc \in [Threads -> PCs]
    /\ pos \in [Threads -> SlotIds]
    /\ at \in [Producers -> 0..Len(LineLengths)]
    /\ printed \in Seq(Lines)
    /\ spurious \in 0..MaxSpurious

Init ==
    /\ thread_ttl \in TTLs
    /\ buffer = [i \in SlotIds |-> NoLine]
    /\ next_read = 0 /\ next_write = 0
    /\ filled_slots = 0
    /\ mutex = Nobody
    /\ waiters = {}
    /\ slot_owner = [i \in SlotIds |-> Nobody]
    /\ pc = [t \in Threads |-> "loop"]
    /\ pos = [t \in Threads |-> 0]
    /\ at = [p \in Producers |-> 0]
    /\ printed = <<>>
    /\ spurious = 0

Goes(t, from, to) == pc[t] = from /\ pc' = [pc EXCEPT ![t] = to]

Step(i) == (i + 1) % Slots

(* filled_slots == buffor_size for a producer, == 0 for a consumer.        *)
MustWait(t) == filled_slots = IF t \in Producers THEN Slots ELSE 0
-----------------------------------------------------------------------------
(* The loop condition: with a time limit, the deadline may have passed.    *)
LifetimeOver(t) ==
    /\ thread_ttl # 0
    /\ Goes(t, "loop", "done")
    /\ UNCHANGED <<thread_ttl, ring, sync, pos, at, printed>>

GetLine(p) ==
    /\ at[p] < Len(LineLengths)
    /\ Goes(p, "loop", "lock_mutex")
    /\ at' = [at EXCEPT ![p] = @ + 1]
    /\ UNCHANGED <<thread_ttl, ring, sync, pos, printed>>

EndOfFile(p) ==
    /\ at[p] = Len(LineLengths)
    /\ Goes(p, "loop", "done")
    /\ UNCHANGED <<thread_ttl, ring, sync, pos, at, printed>>

NextPortion(c) ==
    /\ Goes(c, "loop", "lock_mutex")
    /\ UNCHANGED <<thread_ttl, ring, sync, pos, at, printed>>

LockMutex(t) ==
    /\ mutex = Nobody
    /\ Goes(t, "lock_mutex", "check")
    /\ mutex' = t
    /\ UNCHANGED <<thread_ttl, ring, waiters, slot_owner, spurious, pos, at, printed>>

(* pthread_cond_wait or pthread_cond_timedwait: gives the mutex up and     *)
(* falls asleep in one step.                                               *)
CondWait(t) ==
    /\ MustWait(t)
    /\ Goes(t, "check", "waiting")
    /\ mutex' = Nobody
    /\ waiters' = waiters \cup {t}
    /\ UNCHANGED <<thread_ttl, ring, slot_owner, spurious, pos, at, printed>>

SpuriousWakeUp(t) ==
    /\ t \in waiters /\ spurious < MaxSpurious
    /\ waiters' = waiters \ {t}
    /\ spurious' = spurious + 1
    /\ UNCHANGED <<thread_ttl, ring, mutex, slot_owner, pc, pos, at, printed>>

(* Mutant: "if" for "while", the woken thread does not look again.         *)
WakeUpTrusting(t) ==
    /\ t \notin waiters /\ mutex = Nobody
    /\ Goes(t, "waiting", "lock_slot")
    /\ mutex' = t
    /\ pos' = [pos EXCEPT ![t] = IF t \in Producers THEN next_write ELSE next_read]
    /\ UNCHANGED <<thread_ttl, ring, waiters, slot_owner, spurious, at, printed>>

(* A woken thread takes the mutex again and goes back to the while.        *)
WakeUp(t) ==
    /\ t \notin waiters /\ mutex = Nobody
    /\ Goes(t, "waiting", "check")
    /\ mutex' = t
    /\ UNCHANGED <<thread_ttl, ring, waiters, slot_owner, spurious, pos, at, printed>>

(* The deadline passes: the thread no longer waits for a broadcast but,    *)
(* inside pthread_cond_timedwait, for the mutex.                           *)
Timeout(t) ==
    /\ thread_ttl # 0
    /\ t \in waiters
    /\ Goes(t, "waiting", "give_up")
    /\ waiters' = waiters \ {t}
    /\ UNCHANGED <<thread_ttl, ring, mutex, slot_owner, spurious, pos, at, printed>>

(* It exits without looking at filled_slots again; a producer's line is    *)
(* dropped.  The mutex is taken and released with nothing in between.      *)
Exit(t) ==
    /\ mutex = Nobody
    /\ Goes(t, "give_up", "timed_out")
    /\ UNCHANGED <<thread_ttl, ring, sync, pos, at, printed>>
-----------------------------------------------------------------------------
(* Inside the mutex.  size_t pos = buff.next_write, or buff.next_read.     *)
ReadPos(t) ==
    /\ ~MustWait(t)
    /\ Goes(t, "check", "lock_slot")
    /\ pos' = [pos EXCEPT ![t] = IF t \in Producers THEN next_write ELSE next_read]
    /\ UNCHANGED <<thread_ttl, ring, sync, at, printed>>

LockSlot(t) ==
    /\ slot_owner[pos[t]] = Nobody
    /\ Goes(t, "lock_slot", "examine")
    /\ slot_owner' = [slot_owner EXCEPT ![pos[t]] = t]
    /\ UNCHANGED <<thread_ttl, ring, mutex, waiters, spurious, pos, at, printed>>

(* A producer wants an empty slot, a consumer a filled one.                *)
Suits(t) == (buffer[pos[t]] = NoLine) <=> t \in Producers

(* Mutant: a consumer does not move next_read.                             *)
ExamineStuck(t) ==
    /\ pc[t] = "examine"
    /\ pc' = [pc EXCEPT ![t] = IF Suits(t) THEN "store" ELSE "lock_slot"]
    /\ slot_owner' = IF Suits(t) THEN slot_owner
                                 ELSE [slot_owner EXCEPT ![pos[t]] = Nobody]
    /\ pos' = IF Suits(t) THEN pos ELSE [pos EXCEPT ![t] = Step(@)]
    /\ next_write' = IF Suits(t) /\ t \in Producers THEN Step(pos[t]) ELSE next_write
    /\ UNCHANGED <<thread_ttl, buffer, next_read, filled_slots, mutex, waiters,
                   spurious, at, printed>>

(* The slot suits and is claimed, or is unlocked and the next one tried.   *)
Examine(t) ==
    /\ pc[t] = "examine"
    /\ pc' = [pc EXCEPT ![t] = IF Suits(t) THEN "store" ELSE "lock_slot"]
    /\ slot_owner' = IF Suits(t) THEN slot_owner
                                 ELSE [slot_owner EXCEPT ![pos[t]] = Nobody]
    /\ pos' = IF Suits(t) THEN pos ELSE [pos EXCEPT ![t] = Step(@)]
    /\ next_write' = IF Suits(t) /\ t \in Producers THEN Step(pos[t]) ELSE next_write
    /\ next_read' = IF Suits(t) /\ t \in Consumers THEN Step(pos[t]) ELSE next_read
    /\ UNCHANGED <<thread_ttl, buffer, filled_slots, mutex, waiters, spurious, at, printed>>

UnlockSlot(t) == slot_owner' = [slot_owner EXCEPT ![pos[t]] = Nobody]

WriteLine(p) ==
    /\ Goes(p, "store", "leave")
    /\ buffer' = [buffer EXCEPT ![pos[p]] = <<p, at[p]>>]
    /\ UnlockSlot(p)
    /\ UNCHANGED <<thread_ttl, next_read, next_write, filled_slots, mutex, waiters,
                   spurious, pos, at, printed>>

ConsumeLine(c) ==
    LET line == buffer[pos[c]]
    IN  /\ Goes(c, "store", "leave")
        /\ printed' = IF matching(line) THEN Append(printed, line) ELSE printed
        /\ buffer' = [buffer EXCEPT ![pos[c]] = NoLine]
        /\ UnlockSlot(c)
        /\ UNCHANGED <<thread_ttl, next_read, next_write, filled_slots, mutex, waiters,
                       spurious, pos, at>>

(* Mutant: pthread_cond_signal for pthread_cond_broadcast.                 *)
LeaveSignalOne(t) ==
    /\ Goes(t, "leave", "loop")
    /\ filled_slots' = IF t \in Producers THEN filled_slots + 1 ELSE filled_slots - 1
    /\ IF waiters = {} THEN UNCHANGED waiters
                       ELSE \E w \in waiters : waiters' = waiters \ {w}
    /\ mutex' = Nobody
    /\ UNCHANGED <<thread_ttl, buffer, next_read, next_write, slot_owner, spurious,
                   pos, at, printed>>

(* Mutant: the mutex stays locked.                                         *)
LeaveLocked(t) ==
    /\ Goes(t, "leave", "loop")
    /\ filled_slots' = IF t \in Producers THEN filled_slots + 1 ELSE filled_slots - 1
    /\ waiters' = {}
    /\ UNCHANGED <<thread_ttl, buffer, next_read, next_write, mutex, slot_owner, spurious,
                   pos, at, printed>>

(* Counts the slot, broadcasts and unlocks: the woken threads need the     *)
(* mutex, so nobody sees the steps apart.                                  *)
Leave(t) ==
    /\ Goes(t, "leave", "loop")
    /\ filled_slots' = IF t \in Producers THEN filled_slots + 1 ELSE filled_slots - 1
    /\ waiters' = {}
    /\ mutex' = Nobody
    /\ UNCHANGED <<thread_ttl, buffer, next_read, next_write, slot_owner, spurious,
                   pos, at, printed>>

Search(t) ==
    \/ LifetimeOver(t) \/ LockMutex(t) \/ CondWait(t) \/ WakeUp(t)
    \/ Timeout(t) \/ Exit(t)
    \/ ReadPos(t) \/ LockSlot(t) \/ Examine(t) \/ Leave(t)

produce(p) == GetLine(p) \/ EndOfFile(p) \/ WriteLine(p) \/ Search(p)

consume(c) == NextPortion(c) \/ ConsumeLine(c) \/ Search(c)

Finished(t) == pc[t] \in {"done", "timed_out"}

(* spawn() joins the threads; with no time limit it waits for the          *)
(* consumers for ever.                                                     *)
Joining ==
    /\ \A p \in Producers : Finished(p)
    /\ \A c \in Consumers :
           Finished(c) \/ (thread_ttl = 0 /\ c \in waiters /\ MustWait(c))
    /\ UNCHANGED vars

Next ==
    \/ \E p \in Producers : produce(p)
    \/ \E c \in Consumers : consume(c)
    \/ \E t \in Threads : SpuriousWakeUp(t)
    \/ Joining

Spec == Init /\ [][Next]_vars

(* The operating system keeps scheduling every thread that can run.  A     *)
(* mutex need not be fair: a thread takes it once per line and once per    *)
(* wake-up, so the others cannot overtake for ever.                        *)
FairSpec ==
    /\ Spec
    /\ \A p \in Producers : WF_vars(produce(p))
    /\ \A c \in Consumers : WF_vars(consume(c))
-----------------------------------------------------------------------------
(* A thread changes the ring, and takes slots, only inside the mutex.      *)
InMutex(t) == pc[t] \in {"check", "lock_slot", "examine", "store", "leave"}

(* A thread is half-way through moving a line in or out.                   *)
Changing(t) == pc[t] \in {"store", "leave"}

(* Between changes the filled slots are the filled_slots ones from         *)
(* next_read on, and next_write is the slot after them.                    *)
RingInOrder ==
    (\A t \in Threads : ~Changing(t)) =>
        /\ next_write = (next_read + filled_slots) % Slots
        /\ \A i \in SlotIds :
               buffer[(next_read + i) % Slots] # NoLine <=> i < filled_slots

(* Nobody sleeps on what has already happened: the shared condition        *)
(* variable loses no wake-up, though a broadcast wakes threads of both     *)
(* kinds and a woken one may find its slot gone.                           *)
NobodySleepsThrough == \A t \in waiters : MustWait(t)

(* The search loop never iterates and the slots' mutexes are always free:  *)
(* a thread that has waited for its turn finds its slot at once.           *)
SlotFoundAtOnce ==
    \A t \in Threads :
        /\ InMutex(t) => mutex = t
        /\ pc[t] \in {"lock_slot", "examine", "store"} => Suits(t)
        /\ pc[t] = "lock_slot" => slot_owner[pos[t]] = Nobody

(* Lines each producer has put in the buffer: all it read, but for the one *)
(* in its hand, which a timeout drops.                                     *)
Sent == [p \in Producers |->
    IF pc[p] \in {"loop", "done", "leave"} THEN at[p] ELSE at[p] - 1]

(* The slot of the oldest line, also while a consumer is taking it.        *)
OldestSlot ==
    IF \E c \in Consumers : pc[c] = "store"
    THEN pos[CHOOSE c \in Consumers : pc[c] = "store"]
    ELSE next_read

(* The ring implements a bounded first-in first-out queue of lines.        *)
Fifo == INSTANCE LineFifo WITH
    lines <- [i \in 1..Cardinality({j \in SlotIds : buffer[j] # NoLine}) |->
                  buffer[(OldestSlot + i - 1) % Slots]],
    sent <- Sent

ImplementsFifo == Fifo!FifoSpec

(* Without a time limit every matching line of every producer's file is    *)
(* printed in the end; with one every thread ends, and spawn() returns.   *)
EveryoneFinishes ==
    /\ thread_ttl = 0 =>
           <>(\A line \in Lines : matching(line) =>
                 \E i \in 1..Len(printed) : printed[i] = line)
    /\ thread_ttl # 0 => <>(\A t \in Threads : Finished(t))
=============================================================================

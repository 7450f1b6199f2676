----------------------------- MODULE SemBuffer ------------------------------
(***************************************************************************)
(* lab9 zad2: producer and consumer threads around a ring of buffor_size   *)
(* slots.  The counting semaphores free_slots and filled_slots admit       *)
(* threads to the ring; next_write and next_read, read and written with no *)
(* lock of their own, are only hints where to start searching; a binary    *)
(* semaphore per slot protects its contents.                               *)
(*                                                                         *)
(* produce() and consume() are the same dance with the roles "write" and   *)
(* "read" exchanged, so most actions serve both.  An action covers at most *)
(* one access to data that no held semaphore protects.                     *)
(***************************************************************************)
EXTENDS InputFile, FiniteSets

CONSTANTS
    Consumers,  \* consumer threads
    Slots,      \* buffor_size
    TTLs        \* the values of thread_ttl to consider; 0 means no limit

ASSUME SemBufferAssumption ==
    /\ Producers \cap Consumers = {}
    /\ IsFiniteSet(Producers) /\ IsFiniteSet(Consumers)
    /\ Slots \in Nat \ {0}
    /\ TTLs \subseteq Nat

Threads == Producers \cup Consumers
Roles == {"write", "read"}
SlotIds == 0..(Slots - 1)
NoLine == <<>>

role(t) == IF t \in Producers THEN "write" ELSE "read"
other(t) == IF t \in Producers THEN "read" ELSE "write"

VARIABLES
    thread_ttl,   \* from the config file
    buffer,       \* buff.buffer, NoLine for NULL
    next,         \* buff.next_write and buff.next_read
    tokens,       \* free_slots ("write") and filled_slots ("read")
    slot_locks,   \* the slots' binary semaphores
    pc, pos,      \* every thread's position and its local pos
    at,           \* lines each producer has read from its file
    printed       \* standard output: the matching lines

vars == <<thread_ttl, buffer, next, tokens, slot_locks, pc, pos, at, printed>>

PCs == {"loop", "wait", "read_pos", "lock", "examine", "store", "signal",
        "done", "timed_out"}

TypeOK ==
    /\ thread_ttl \in TTLs
    /\ buffer \in [SlotIds -> Lines \cup {NoLine}]
    /\ next \in [Roles -> SlotIds]
    /\ tokens \in [Roles -> 0..Slots]
    /\ slot_locks \in [SlotIds -> {0, 1}]
    /\ pc \in [Threads -> PCs]
    /\ pos \in [Threads -> SlotIds]
    /\ at \in [Producers -> 0..Len(LineLengths)]
    /\ printed \in Seq(Lines)

Init ==
    /\ thread_ttl \in TTLs
    /\ buffer = [i \in SlotIds |-> NoLine]
    /\ next = [r \in Roles |-> 0]
    /\ tokens = [r \in Roles |-> IF r = "write" THEN Slots ELSE 0]
    /\ slot_locks = [i \in SlotIds |-> 1]
    /\ pc = [t \in Threads |-> "loop"]
    /\ pos = [t \in Threads |-> 0]
    /\ at = [p \in Producers |-> 0]
    /\ printed = <<>>

Goes(t, from, to) == pc[t] = from /\ pc' = [pc EXCEPT ![t] = to]

Step(i) == (i + 1) % Slots
-----------------------------------------------------------------------------
(* The loop condition: with a time limit, the deadline may have passed.    *)
LifetimeOver(t) ==
    /\ thread_ttl # 0
    /\ Goes(t, "loop", "done")
    /\ UNCHANGED <<thread_ttl, buffer, next, tokens, slot_locks, pos, at, printed>>

GetLine(p) ==
    /\ at[p] < Len(LineLengths)
    /\ Goes(p, "loop", "wait")
    /\ at' = [at EXCEPT ![p] = @ + 1]
    /\ UNCHANGED <<thread_ttl, buffer, next, tokens, slot_locks, pos, printed>>

EndOfFile(p) ==
    /\ at[p] = Len(LineLengths)
    /\ Goes(p, "loop", "done")
    /\ UNCHANGED <<thread_ttl, buffer, next, tokens, slot_locks, pos, at, printed>>

NextPortion(c) ==
    /\ Goes(c, "loop", "wait")
    /\ UNCHANGED <<thread_ttl, buffer, next, tokens, slot_locks, pos, at, printed>>

(* semwait, or sem_timedwait, which fails only while there is no token.    *)
WaitToken(t) ==
    /\ tokens[role(t)] > 0
    /\ Goes(t, "wait", "read_pos")
    /\ tokens' = [tokens EXCEPT ![role(t)] = @ - 1]
    /\ UNCHANGED <<thread_ttl, buffer, next, slot_locks, pos, at, printed>>

Timeout(t) ==
    /\ thread_ttl # 0
    /\ tokens[role(t)] = 0
    /\ Goes(t, "wait", "timed_out")
    /\ UNCHANGED <<thread_ttl, buffer, next, tokens, slot_locks, pos, at, printed>>

(* pos = buff.next_write or buff.next_read: an unlocked read.              *)
ReadPos(t) ==
    /\ Goes(t, "read_pos", "lock")
    /\ pos' = [pos EXCEPT ![t] = next[role(t)]]
    /\ UNCHANGED <<thread_ttl, buffer, next, tokens, slot_locks, at, printed>>

LockSlot(t) ==
    /\ slot_locks[pos[t]] > 0
    /\ Goes(t, "lock", "examine")
    /\ slot_locks' = [slot_locks EXCEPT ![pos[t]] = @ - 1]
    /\ UNCHANGED <<thread_ttl, buffer, next, tokens, pos, at, printed>>

(* A producer wants an empty slot, a consumer a filled one.                *)
Suits(t) == (buffer[pos[t]] = NoLine) <=> t \in Producers

(* Mutant: the unsuitable slot stays locked.                               *)
SkipSlotLocked(t) ==
    /\ ~Suits(t)
    /\ Goes(t, "examine", "lock")
    /\ pos' = [pos EXCEPT ![t] = Step(@)]
    /\ UNCHANGED <<thread_ttl, buffer, next, tokens, slot_locks, at, printed>>

SkipSlot(t) ==
    /\ ~Suits(t)
    /\ Goes(t, "examine", "lock")
    /\ slot_locks' = [slot_locks EXCEPT ![pos[t]] = @ + 1]
    /\ pos' = [pos EXCEPT ![t] = Step(@)]
    /\ UNCHANGED <<thread_ttl, buffer, next, tokens, at, printed>>

(* Mutant: any slot will do.                                               *)
ClaimAnySlot(t) ==
    /\ Goes(t, "examine", "store")
    /\ next' = [next EXCEPT ![role(t)] = Step(pos[t])]
    /\ UNCHANGED <<thread_ttl, buffer, tokens, slot_locks, pos, at, printed>>

ClaimSlot(t) ==
    /\ Suits(t)
    /\ Goes(t, "examine", "store")
    /\ next' = [next EXCEPT ![role(t)] = Step(pos[t])]
    /\ UNCHANGED <<thread_ttl, buffer, tokens, slot_locks, pos, at, printed>>

WriteLine(p) ==
    /\ Goes(p, "store", "signal")
    /\ buffer' = [buffer EXCEPT ![pos[p]] = <<p, at[p]>>]
    /\ slot_locks' = [slot_locks EXCEPT ![pos[p]] = @ + 1]
    /\ UNCHANGED <<thread_ttl, next, tokens, pos, at, printed>>

(* Mutant: the slot is not emptied after its line was printed.             *)
ConsumeLineTwice(c) ==
    LET line == buffer[pos[c]]
    IN  /\ Goes(c, "store", "signal")
        /\ printed' = IF matching(line) THEN Append(printed, line) ELSE printed
        /\ slot_locks' = [slot_locks EXCEPT ![pos[c]] = @ + 1]
        /\ UNCHANGED <<thread_ttl, buffer, next, tokens, pos, at>>

ConsumeLine(c) ==
    LET line == buffer[pos[c]]
    IN  /\ Goes(c, "store", "signal")
        /\ printed' = IF matching(line) THEN Append(printed, line) ELSE printed
        /\ buffer' = [buffer EXCEPT ![pos[c]] = NoLine]
        /\ slot_locks' = [slot_locks EXCEPT ![pos[c]] = @ + 1]
        /\ UNCHANGED <<thread_ttl, next, tokens, pos, at>>

(* Mutant: the token goes back to the semaphore it came from.              *)
SignalOwn(t) ==
    /\ Goes(t, "signal", "loop")
    /\ tokens' = [tokens EXCEPT ![role(t)] = @ + 1]
    /\ UNCHANGED <<thread_ttl, buffer, next, slot_locks, pos, at, printed>>

(* A slot filled is a token for a consumer, a slot emptied one for a       *)
(* producer.                                                               *)
SignalOther(t) ==
    /\ Goes(t, "signal", "loop")
    /\ tokens' = [tokens EXCEPT ![other(t)] = @ + 1]
    /\ UNCHANGED <<thread_ttl, buffer, next, slot_locks, pos, at, printed>>

Search(t) ==
    \/ LifetimeOver(t) \/ WaitToken(t) \/ Timeout(t) \/ ReadPos(t)
    \/ LockSlot(t) \/ SkipSlot(t) \/ ClaimSlot(t) \/ SignalOther(t)

produce(p) == GetLine(p) \/ EndOfFile(p) \/ WriteLine(p) \/ Search(p)

consume(c) == NextPortion(c) \/ ConsumeLine(c) \/ Search(c)

Finished(t) == pc[t] \in {"done", "timed_out"}

(* spawn() joins the threads; with no time limit it waits for the          *)
(* consumers for ever.                                                     *)
Joining ==
    /\ \A p \in Producers : Finished(p)
    /\ \A c \in Consumers :
           Finished(c) \/ (thread_ttl = 0 /\ pc[c] = "wait" /\ tokens["read"] = 0)
    /\ UNCHANGED vars

Next ==
    \/ \E p \in Producers : produce(p)
    \/ \E c \in Consumers : consume(c)
    \/ Joining

Spec == Init /\ [][Next]_vars

(* The operating system keeps scheduling every thread that can run.        *)
FairSpec ==
    /\ Spec
    /\ \A p \in Producers : WF_vars(produce(p))
    /\ \A c \in Consumers : WF_vars(consume(c))
-----------------------------------------------------------------------------
Searching(t) == pc[t] \in {"read_pos", "lock", "examine", "store"}
HoldsSlot(t) == pc[t] \in {"examine", "store"}

(* A slot's semaphore is a lock, and whoever is about to fill or empty a   *)
(* slot holds it and finds the slot as it needs it: no line is overwritten,*)
(* no slot is emptied twice.                                               *)
SlotExclusive ==
    \A t \in Threads :
        /\ HoldsSlot(t) =>
               /\ slot_locks[pos[t]] = 0
               /\ \A u \in Threads : HoldsSlot(u) /\ pos[u] = pos[t] => u = t
        /\ pc[t] = "store" => Suits(t)

(* The tokens account for the slots: every empty slot is a free_slots      *)
(* token, on its way to a producer, or about to become one; likewise for   *)
(* the filled slots.  So whoever passed its semaphore has a slot to find.  *)
TokensMatchSlots ==
    LET count(S) == Cardinality(S)
        empty == {i \in SlotIds : buffer[i] = NoLine}
    IN  /\ count(empty) =
               tokens["write"] + count({p \in Producers : Searching(p)})
                               + count({c \in Consumers : pc[c] = "signal"})
        /\ count(SlotIds \ empty) =
               tokens["read"] + count({c \in Consumers : Searching(c)})
                              + count({p \in Producers : pc[p] = "signal"})

(* Lines each producer has put in the buffer: all it read, but for the one *)
(* in its hand, which a timeout drops.                                     *)
Sent == [p \in Producers |->
    IF Searching(p) \/ pc[p] \in {"wait", "timed_out"} THEN at[p] - 1 ELSE at[p]]

(* The ring implements a bounded bag of lines.                             *)
Bag == INSTANCE LineBag WITH
    lines <- {buffer[i] : i \in SlotIds} \ {NoLine},
    sent <- Sent

ImplementsBag == Bag!BagSpec

(* Without a time limit every matching line of every producer's file is    *)
(* printed in the end, for all that threads start their search at stale    *)
(* positions and may chase slots round the ring; with one every thread     *)
(* ends, and spawn() returns.                                              *)
EveryoneFinishes ==
    /\ thread_ttl = 0 =>
           <>(\A line \in Lines : matching(line) =>
                 \E i \in 1..Len(printed) : printed[i] = line)
    /\ thread_ttl # 0 => <>(\A t \in Threads : Finished(t))
=============================================================================

-------------------------- MODULE CondBufferProofs --------------------------
(***************************************************************************)
(* Proofs about CondBuffer, for any producers and consumers, any file, any *)
(* number of slots, any time limits and spurious wake-ups: the mutex keeps *)
(* the ring in order, the slots' own mutexes are never contended, nobody   *)
(* sleeps through a broadcast, and the ring implements LineFifo.           *)
(***************************************************************************)
EXTENDS CondBuffer, FiniteSetTheorems, SequenceTheorems, TLAPS

(* The slot b places after slot a, and how far slot j lies after slot a.   *)
Turn(a, b) == (a + b) % Slots
Dist(a, j) == IF j >= a THEN j - a ELSE j - a + Slots

(* The mutex is held by one of the threads S, which is at where.           *)
Doing(S, where) == mutex \in S /\ pc[mutex] = where

(* The lines in the buffer, also while filled_slots lags behind, and the   *)
(* slot of the oldest.                                                     *)
Held == filled_slots + (IF Doing(Producers, "leave") THEN 1 ELSE 0)
                     - (IF Doing(Consumers, "leave") THEN 1 ELSE 0)

Oldest == IF Doing(Consumers, "store") THEN pos[mutex] ELSE next_read

(* The mutex is a lock, only threads in pthread_cond_wait are asleep, and  *)
(* a slot's mutex belongs to the thread that examines or changes the slot. *)
Exclusion ==
    /\ \A t \in Threads : InMutex(t) <=> mutex = t
    /\ \A t \in waiters : pc[t] = "waiting"
    /\ \A t \in Threads : pc[t] \in {"examine", "store"} => slot_owner[pos[t]] = t
    /\ \A i \in SlotIds : slot_owner[i] # Nobody =>
           /\ slot_owner[i] = mutex
           /\ pc[mutex] \in {"examine", "store"} /\ pos[mutex] = i

(* Whoever is past getline() has read a line.                              *)
LineInHand == \A p \in Producers : pc[p] \notin {"loop", "done"} => at[p] >= 1

(* The lines lie in consecutive slots, next_read and next_write at their   *)
(* ends, a thread between two changes apart.                               *)
RingShape ==
    /\ Held \in 0..Slots
    /\ next_read = Turn(Oldest, IF Doing(Consumers, "store") THEN 1 ELSE 0)
    /\ next_write = Turn(Oldest, IF Doing(Producers, "store") THEN Held + 1 ELSE Held)
    /\ \A j \in SlotIds : buffer[j] # NoLine <=> Dist(Oldest, j) < Held

(* The thread in the mutex, once past its wait: there is a slot for it,    *)
(* and its pos is that slot.                                               *)
RightSlot ==
    \A t \in Threads :
        /\ pc[t] \in {"lock_slot", "examine", "store", "leave"} => ~MustWait(t)
        /\ pc[t] \in {"lock_slot", "examine", "store"} =>
               pos[t] = IF t \in Producers THEN Turn(Oldest, Held) ELSE Oldest

IInv ==
    /\ TypeOK
    /\ Exclusion
    /\ LineInHand
    /\ RingShape
    /\ RightSlot
    /\ NobodySleepsThrough
-----------------------------------------------------------------------------
LEMMA NoLineIsNone == NoLine \notin Lines
BY DEF NoLine, Lines

LEMMA FileLength == Len(LineLengths) \in Nat
BY FileAssumption

(* Going round the ring without %: sums stay below two turns.              *)
LEMMA TurnValue ==
  ASSUME NEW a \in SlotIds, NEW b \in 0..Slots
  PROVE  /\ Turn(a, b) = IF a + b < Slots THEN a + b ELSE a + b - Slots
         /\ Turn(a, b) \in SlotIds
<1>1. Slots \in Nat /\ Slots > 0 /\ a \in 0..(Slots - 1)
  BY CondBufferAssumption DEF SlotIds
<1>2. CASE a + b < Slots
  BY <1>1, <1>2 DEF Turn, SlotIds
<1>3. CASE a + b >= Slots
  <2>1. (a + b) % Slots = a + b - Slots
    BY <1>1, <1>3
  <2> QED
    BY <1>1, <1>3, <2>1 DEF Turn, SlotIds
<1> QED
  BY <1>1, <1>2, <1>3

(* Slot numbers are integers from 0 to Slots - 1.                          *)
LEMMA SlotRange ==
  /\ Slots \in Int /\ Slots >= 1 /\ 1 \in 0..Slots
  /\ \A i : i \in SlotIds <=> i \in Int /\ 0 <= i /\ i < Slots
  /\ \A i \in SlotIds : i \in 0..Slots /\ i + 1 \in 0..Slots
BY CondBufferAssumption DEF SlotIds

LEMMA DistValue ==
  ASSUME NEW a \in SlotIds, NEW j \in SlotIds
  PROVE  Dist(a, j) \in SlotIds /\ Turn(a, Dist(a, j)) = j
<1>1. Dist(a, j) \in SlotIds /\ Dist(a, j) \in 0..Slots
  BY SlotRange DEF Dist
<1>2. Turn(a, Dist(a, j)) = IF a + Dist(a, j) < Slots THEN a + Dist(a, j)
                                                      ELSE a + Dist(a, j) - Slots
  BY <1>1, TurnValue
<1> QED
  BY <1>1, <1>2, SlotRange DEF Dist

LEMMA TurnInjective ==
  ASSUME NEW a \in SlotIds, NEW b \in SlotIds
  PROVE  Dist(a, Turn(a, b)) = b
<1>1. /\ Turn(a, b) = IF a + b < Slots THEN a + b ELSE a + b - Slots
      /\ Turn(a, b) \in SlotIds
  BY TurnValue, SlotRange
<1> QED
  BY <1>1, SlotRange DEF Dist

(* One slot on, everything is one nearer, but for the slot left behind.    *)
LEMMA DistNext ==
  ASSUME NEW a \in SlotIds, NEW j \in SlotIds
  PROVE  Dist(Turn(a, 1), j) = IF j = a THEN Slots - 1 ELSE Dist(a, j) - 1
<1>1. /\ Turn(a, 1) = IF a + 1 < Slots THEN a + 1 ELSE a + 1 - Slots
      /\ Turn(a, 1) \in SlotIds
  BY TurnValue, SlotRange
<1> QED
  BY <1>1, SlotRange DEF Dist

LEMMA TurnTurn ==
  ASSUME NEW a \in SlotIds, NEW b \in SlotIds
  PROVE  /\ Turn(Turn(a, 1), b) = Turn(a, b + 1)
         /\ Turn(Turn(a, b), 1) = Turn(a, b + 1)
<1>1. /\ Turn(a, 1) = IF a + 1 < Slots THEN a + 1 ELSE a + 1 - Slots
      /\ Turn(a, b) = IF a + b < Slots THEN a + b ELSE a + b - Slots
      /\ Turn(a, 1) \in SlotIds /\ Turn(a, b) \in SlotIds
      /\ 1 \in 0..Slots /\ b + 1 \in 0..Slots /\ b \in 0..Slots
  BY TurnValue, SlotRange
<1>2. /\ Turn(a, b + 1) = IF a + (b + 1) < Slots THEN a + (b + 1) ELSE a + (b + 1) - Slots
      /\ Turn(Turn(a, 1), b) = IF Turn(a, 1) + b < Slots THEN Turn(a, 1) + b
                                                        ELSE Turn(a, 1) + b - Slots
      /\ Turn(Turn(a, b), 1) = IF Turn(a, b) + 1 < Slots THEN Turn(a, b) + 1
                                                        ELSE Turn(a, b) + 1 - Slots
  BY <1>1, TurnValue
<1> QED
  BY <1>1, <1>2, SlotRange

LEMMA NobodyIsNoThread ==
  /\ Nobody \notin Threads /\ Nobody \notin Producers /\ Nobody \notin Consumers
  /\ \A t \in Threads : t \in Producers \/ t \in Consumers
  /\ \A t \in Producers : t \in Threads /\ t \notin Consumers
  /\ \A t \in Consumers : t \in Threads /\ t \notin Producers
BY NobodyAssumption, CondBufferAssumption DEF Threads

(* Oldest is the OldestSlot of the refinement.                             *)
LEMMA OldestIsSlot ==
  ASSUME TypeOK, Exclusion
  PROVE  OldestSlot = Oldest /\ Oldest \in SlotIds
<1>1. \A c \in Consumers : pc[c] = "store" => c = mutex
  BY NobodyIsNoThread DEF Exclusion, InMutex
<1>2. CASE Doing(Consumers, "store")
  <2>1. (CHOOSE c \in Consumers : pc[c] = "store") = mutex
    BY <1>1, <1>2 DEF Doing
  <2> QED
    BY <1>2, <2>1, NobodyIsNoThread DEF OldestSlot, Oldest, Doing, TypeOK
<1>3. CASE ~Doing(Consumers, "store")
  BY <1>1, <1>3 DEF OldestSlot, Oldest, Doing, TypeOK
<1> QED
  BY <1>2, <1>3

(* The buffer's lines, oldest first, as a sequence.                        *)
FilledSlots == {j \in SlotIds : buffer[j] # NoLine}
LinesInOrder ==
    [i \in 1..Cardinality(FilledSlots) |-> buffer[(OldestSlot + i - 1) % Slots]]
Queue == [i \in 1..Held |-> buffer[Turn(Oldest, i - 1)]]

LEMMA FilledCount ==
  ASSUME TypeOK, Exclusion, RingShape
  PROVE  Cardinality(FilledSlots) = Held
<1> DEFINE f == [i \in 1..Held |-> Turn(Oldest, i - 1)]
<1>1. Held \in 0..Slots /\ Held \in Nat /\ Oldest \in SlotIds
  BY OldestIsSlot, CondBufferAssumption DEF RingShape
<1>2. \A i \in 1..Held : i - 1 \in SlotIds /\ i \in Int
  BY <1>1, CondBufferAssumption DEF SlotIds
<1>3. \A i \in 1..Held : /\ Turn(Oldest, i - 1) \in FilledSlots
                         /\ Dist(Oldest, Turn(Oldest, i - 1)) = i - 1
  <2> TAKE i \in 1..Held
  <2>1. Dist(Oldest, Turn(Oldest, i - 1)) = i - 1
    BY <1>1, <1>2, TurnInjective
  <2>2. Turn(Oldest, i - 1) \in SlotIds
    BY <1>1, <1>2, TurnValue, CondBufferAssumption DEF SlotIds
  <2>3. i - 1 < Held
    BY <1>1
  <2> QED
    BY <2>1, <2>2, <2>3 DEF FilledSlots, RingShape
<1>4. \A j \in FilledSlots : \E i \in 1..Held : Turn(Oldest, i - 1) = j
  <2> TAKE j \in FilledSlots
  <2>1. /\ j \in SlotIds /\ Dist(Oldest, j) \in SlotIds
        /\ Turn(Oldest, Dist(Oldest, j)) = j /\ Dist(Oldest, j) < Held
    BY <1>1, DistValue DEF FilledSlots, RingShape
  <2> DEFINE k == Dist(Oldest, j) + 1
  <2>2. k \in 1..Held /\ k - 1 = Dist(Oldest, j)
    BY <1>1, <2>1, SlotRange
  <2> HIDE DEF k
  <2>3. Turn(Oldest, k - 1) = j
    BY <2>1, <2>2
  <2> QED
    BY <2>2, <2>3
<1>5. f \in Bijection(1..Held, FilledSlots)
  <2>1. f \in [1..Held -> FilledSlots]
    BY <1>3
  <2>2. \A i, k \in 1..Held : f[i] = f[k] => i = k
    <3> TAKE i, k \in 1..Held
    <3>1. f[i] = f[k] => i - 1 = k - 1
      BY <1>3
    <3> QED
      BY <1>2, <3>1
  <2>3. \A j \in FilledSlots : \E i \in 1..Held : f[i] = j
    BY <1>4
  <2>4. DOMAIN f = 1..Held
    OBVIOUS
  <2> HIDE DEF f
  <2> QED
    BY <2>1, <2>2, <2>3, <2>4 DEF Bijection, Injection, IsInjective, Surjection
<1>6. ExistsBijection(1..Held, FilledSlots)
  BY <1>5 DEF ExistsBijection
<1> QED
  BY <1>1, <1>6, FS_CountingElements

LEMMA QueueIsLines == IInv => LinesInOrder = Queue
<1> SUFFICES ASSUME IInv PROVE LinesInOrder = Queue
  OBVIOUS
<1>1. /\ Cardinality(FilledSlots) = Held /\ OldestSlot = Oldest
      /\ Held \in Nat /\ Oldest \in Int
  BY FilledCount, OldestIsSlot, CondBufferAssumption DEF IInv, RingShape, SlotIds
<1>2. \A i \in 1..Held : (OldestSlot + i - 1) % Slots = Turn(Oldest, i - 1)
  <2> TAKE i \in 1..Held
  <2>1. OldestSlot + i - 1 = Oldest + (i - 1)
    BY <1>1
  <2> QED
    BY <2>1 DEF Turn
<1> QED
  BY <1>1, <1>2 DEF LinesInOrder, Queue

LEMMA QueueIsLinesNext == IInv' => LinesInOrder' = Queue'
<1>1. (IInv => LinesInOrder = Queue)'
  BY QueueIsLines, PTL
<1> QED
  BY <1>1
-----------------------------------------------------------------------------
LEMMA InitIInv == Init => IInv
<1> SUFFICES ASSUME Init PROVE IInv
  OBVIOUS
<1>1. /\ ~Doing(Producers, "leave") /\ ~Doing(Producers, "store")
      /\ ~Doing(Consumers, "leave") /\ ~Doing(Consumers, "store")
  BY NobodyIsNoThread DEF Init, Doing
<1>2. Held = 0 /\ Oldest = 0 /\ 0 \in SlotIds /\ 0 \in 0..Slots
  <2>1. filled_slots = 0 /\ next_read = 0
    BY DEF Init
  <2>2. Held = 0 /\ Oldest = 0
    BY <1>1, <2>1 DEF Held, Oldest
  <2> QED
    BY <2>2, SlotRange
<1>3. TypeOK
  BY <1>2, FileLength, CondBufferAssumption DEF Init, TypeOK, PCs
<1>4. Exclusion /\ LineInHand /\ RightSlot /\ NobodySleepsThrough
  BY NobodyIsNoThread
     DEF Init, Exclusion, InMutex, LineInHand, RightSlot, NobodySleepsThrough
<1>5. RingShape
  <2>1. Turn(0, 0) = 0
    BY <1>2, TurnValue, SlotRange
  <2>2. \A j \in SlotIds : ~(Dist(0, j) < 0)
    BY SlotRange DEF Dist
  <2> QED
    BY <1>1, <1>2, <2>1, <2>2 DEF Init, RingShape
<1> QED
  BY <1>3, <1>4, <1>5 DEF IInv

(* A step that moves no line is a stutter of the queue.                    *)
LEMMA QueueKept ==
  ASSUME IInv, IInv', Held' = Held, Oldest' = Oldest, Sent' = Sent,
         UNCHANGED <<buffer, printed>>
  PROVE  UNCHANGED Fifo!fifoVars
<1>1. Queue' = Queue
  BY DEF Queue
<1>2. LinesInOrder' = LinesInOrder
  BY <1>1, QueueIsLines, QueueIsLinesNext
<1> QED
  BY <1>2 DEF LinesInOrder, FilledSlots, Fifo!fifoVars

(* Steps of a thread outside the mutex that stays outside.                 *)
LEMMA OutsideStep ==
  ASSUME IInv, NEW t \in Threads,
         \/ LifetimeOver(t) \/ Timeout(t) \/ Exit(t) \/ SpuriousWakeUp(t)
         \/ t \in Producers /\ (GetLine(t) \/ EndOfFile(t))
         \/ t \in Consumers /\ NextPortion(t)
  PROVE  IInv' /\ UNCHANGED Fifo!fifoVars
<1> USE DEF Goes, ring, sync
<1>1. /\ UNCHANGED <<thread_ttl, ring, mutex, slot_owner, pos, printed>>
      /\ pc' = [pc EXCEPT ![t] = pc'[t]]
      /\ pc'[t] \in PCs
      /\ waiters' \subseteq waiters
      /\ t \in waiters' => pc'[t] = "waiting"
      /\ spurious' \in 0..MaxSpurious
      /\ ~InMutex(t) /\ pc'[t] \notin {"check", "lock_slot", "examine", "store", "leave"}
  <2>1. CASE SpuriousWakeUp(t)
    <3>1. pc[t] = "waiting"
      BY <2>1 DEF SpuriousWakeUp, IInv, Exclusion
    <3> QED
      BY <2>1, <3>1, CondBufferAssumption DEF SpuriousWakeUp, IInv, TypeOK, InMutex, PCs
  <2>2. CASE ~SpuriousWakeUp(t)
    BY <2>2 DEF IInv, TypeOK, LifetimeOver, Timeout, Exit, GetLine, EndOfFile, NextPortion,
           InMutex, PCs, Exclusion
  <2> QED
    BY <2>1, <2>2
<1>2. /\ t \in Producers =>
             /\ at' \in [Producers -> 0..Len(LineLengths)]
             /\ \A p \in Producers \ {t} : at'[p] = at[p]
             /\ Sent'[t] = Sent[t]
             /\ pc'[t] \notin {"loop", "done"} => at'[t] >= 1
      /\ t \notin Producers => at' = at
  <2>1. CASE SpuriousWakeUp(t)
    BY <2>1 DEF SpuriousWakeUp, IInv, TypeOK, LineInHand, Sent
  <2>2. CASE ~SpuriousWakeUp(t)
    BY <2>2, FileLength, CondBufferAssumption DEF IInv, TypeOK, LineInHand, Sent,
       LifetimeOver, Timeout, Exit, GetLine, EndOfFile, NextPortion
  <2> QED
    BY <2>1, <2>2
<1> HIDE DEF Goes
<1>3. \A u \in Threads : /\ u # t => pc'[u] = pc[u]
                         /\ InMutex(u)' <=> InMutex(u)
                         /\ InMutex(u) => pc'[u] = pc[u]
  BY <1>1 DEF IInv, TypeOK, InMutex
<1>4. TypeOK'
  BY <1>1, <1>2, NobodyIsNoThread DEF IInv, TypeOK
<1>5. Exclusion'
  <2>1. \A u \in waiters' : pc'[u] = "waiting"
    BY <1>1, <1>3 DEF IInv, Exclusion, TypeOK
  <2>2. \A u \in Threads : pc'[u] \in {"examine", "store"} => pc[u] \in {"examine", "store"}
    BY <1>3 DEF InMutex
  <2>3. ASSUME NEW i \in SlotIds, slot_owner[i] # Nobody
        PROVE  slot_owner[i] = mutex /\ pc'[mutex] \in {"examine", "store"} /\ pos[mutex] = i
    <3>1. /\ slot_owner[i] = mutex /\ pc[mutex] \in {"examine", "store"} /\ pos[mutex] = i
          /\ mutex \in Threads
      BY <2>3, <1>1 DEF IInv, Exclusion, TypeOK
    <3> QED
      BY <1>3, <3>1 DEF InMutex
  <2> QED
    BY <1>1, <1>3, <2>1, <2>2, <2>3 DEF IInv, Exclusion
<1>6. LineInHand' /\ Sent' = Sent
  BY <1>1, <1>2, <1>3, NobodyIsNoThread DEF IInv, LineInHand, Sent
<1>7. /\ Doing(Producers, "store")' <=> Doing(Producers, "store")
      /\ Doing(Consumers, "store")' <=> Doing(Consumers, "store")
      /\ Doing(Producers, "leave")' <=> Doing(Producers, "leave")
      /\ Doing(Consumers, "leave")' <=> Doing(Consumers, "leave")
  BY <1>1, <1>3, NobodyIsNoThread DEF IInv, Exclusion, Doing
<1>8. Held' = Held /\ Oldest' = Oldest
  BY <1>1, <1>7 DEF Held, Oldest
<1>9. RingShape' /\ NobodySleepsThrough'
  BY <1>1, <1>7, <1>8 DEF IInv, RingShape, NobodySleepsThrough, MustWait
<1>10. RightSlot'
  BY <1>1, <1>3, <1>8 DEF IInv, RightSlot, MustWait, InMutex
<1>11. IInv'
  BY <1>4, <1>5, <1>6, <1>9, <1>10 DEF IInv
<1> QED
  BY <1>1, <1>6, <1>8, <1>11, QueueKept

(* The mutex is taken, for the first time or on waking up, or given up     *)
(* for a wait: the ring is at rest.                                        *)
LEMMA MutexStep ==
  ASSUME IInv, NEW t \in Threads, LockMutex(t) \/ WakeUp(t) \/ CondWait(t)
  PROVE  IInv' /\ UNCHANGED Fifo!fifoVars
<1>1. /\ UNCHANGED <<thread_ttl, ring, slot_owner, spurious, pos, at, printed>>
      /\ pc[t] \in {"lock_mutex", "waiting", "check"} /\ pc'[t] \in {"check", "waiting"}
      /\ pc' = [pc EXCEPT ![t] = pc'[t]]
      /\ \/ mutex = Nobody /\ mutex' = t /\ pc'[t] = "check" /\ waiters' = waiters
            /\ t \notin waiters
         \/ mutex = t /\ mutex' = Nobody /\ pc'[t] = "waiting" /\ waiters' = waiters \cup {t}
            /\ MustWait(t)
  BY DEF IInv, TypeOK, Exclusion, InMutex, LockMutex, WakeUp, CondWait, Goes
<1>2. \A u \in Threads : /\ u # t => pc'[u] = pc[u]
                         /\ u # t => ~InMutex(u) /\ ~InMutex(u)'
                         /\ pc'[u] \notin {"lock_slot", "examine", "store", "leave"}
  BY <1>1, NobodyIsNoThread DEF IInv, TypeOK, Exclusion, InMutex
<1>3. \A i \in SlotIds : slot_owner[i] = Nobody
  BY <1>1, NobodyIsNoThread DEF IInv, TypeOK, Exclusion
<1>4. TypeOK'
  BY <1>1 DEF IInv, TypeOK, PCs, ring
<1>5. Exclusion'
  BY <1>1, <1>2, <1>3, NobodyIsNoThread DEF IInv, TypeOK, Exclusion, InMutex
<1>6. LineInHand' /\ Sent' = Sent
  BY <1>1, <1>2, NobodyIsNoThread DEF IInv, LineInHand, Sent
<1>7. /\ ~Doing(Producers, "store") /\ ~Doing(Consumers, "store")
      /\ ~Doing(Producers, "leave") /\ ~Doing(Consumers, "leave")
      /\ ~Doing(Producers, "store")' /\ ~Doing(Consumers, "store")'
      /\ ~Doing(Producers, "leave")' /\ ~Doing(Consumers, "leave")'
  BY <1>1, <1>2, NobodyIsNoThread DEF Doing
<1>8. Held' = Held /\ Oldest' = Oldest
  BY <1>1, <1>7 DEF Held, Oldest, ring
<1>9. RingShape' /\ NobodySleepsThrough' /\ RightSlot'
  BY <1>1, <1>2, <1>7, <1>8
     DEF IInv, RingShape, NobodySleepsThrough, MustWait, RightSlot, ring
<1>10. IInv'
  BY <1>4, <1>5, <1>6, <1>9 DEF IInv
<1> QED
  BY <1>1, <1>6, <1>8, <1>10, QueueKept DEF ring
-----------------------------------------------------------------------------
(* The thread in the mutex is alone there.                                 *)
LEMMA AloneInMutex ==
  ASSUME IInv, NEW t \in Threads, InMutex(t)
  PROVE  /\ mutex = t
         /\ \A u \in Threads : u # t => ~InMutex(u)
         /\ \A where : /\ Doing(Producers, where) <=> t \in Producers /\ pc[t] = where
                       /\ Doing(Consumers, where) <=> t \notin Producers /\ pc[t] = where
BY NobodyIsNoThread DEF IInv, Exclusion, Doing

(* A thread past its wait finds its slot at the first try: a producer the  *)
(* slot after the last line, a consumer the oldest line.                   *)
LEMMA SlotFound ==
  ASSUME IInv, NEW t \in Threads, pc[t] \in {"lock_slot", "examine", "store"}
  PROVE  /\ Suits(t)
         /\ pc[t] = "lock_slot" => slot_owner[pos[t]] = Nobody
         /\ Held = filled_slots /\ Oldest \in SlotIds
         /\ t \in Producers => Held \in SlotIds
         /\ t \notin Producers => Held - 1 \in SlotIds
<1>1. mutex = t /\ InMutex(t)
  BY AloneInMutex DEF InMutex
<1>2. /\ ~Doing(Producers, "leave") /\ ~Doing(Consumers, "leave")
      /\ filled_slots \in 0..Slots
  BY <1>1 DEF Doing, IInv, TypeOK
<1>3. Held = filled_slots
  BY <1>2, SlotRange DEF Held
<1>4. Oldest \in SlotIds
  BY OldestIsSlot DEF IInv
<1>5. filled_slots # IF t \in Producers THEN Slots ELSE 0
  BY DEF IInv, RightSlot, MustWait
<1>6. pos[t] = (IF t \in Producers THEN Turn(Oldest, Held) ELSE Oldest) /\ pos[t] \in SlotIds
  BY DEF IInv, RightSlot, TypeOK
<1>7. buffer[pos[t]] # NoLine <=> Dist(Oldest, pos[t]) < Held
  BY <1>6 DEF IInv, RingShape
<1>8. CASE t \in Producers
  <2>1. Held \in SlotIds
    BY <1>2, <1>3, <1>5, <1>8, SlotRange
  <2>2. Dist(Oldest, pos[t]) = Held
    BY <1>4, <1>6, <1>8, <2>1, TurnInjective
  <2> QED
    BY <1>1, <1>3, <1>4, <1>7, <1>8, <2>1, <2>2, SlotRange DEF Suits, IInv, Exclusion, TypeOK
<1>9. CASE t \notin Producers
  <2>1. Held - 1 \in SlotIds /\ Held > 0
    BY <1>2, <1>3, <1>5, <1>9, SlotRange
  <2>2. Dist(Oldest, pos[t]) = 0
    BY <1>4, <1>6, <1>9, SlotRange DEF Dist
  <2> QED
    BY <1>1, <1>3, <1>4, <1>7, <1>9, <2>1, <2>2 DEF Suits, IInv, Exclusion, TypeOK
<1> QED
  BY <1>8, <1>9

(* size_t pos = buff.next_write, or buff.next_read, and the slot's mutex.  *)
LEMMA ReachSlotStep ==
  ASSUME IInv, NEW t \in Threads, ReadPos(t) \/ LockSlot(t)
  PROVE  IInv' /\ UNCHANGED Fifo!fifoVars
<1>1. /\ UNCHANGED <<thread_ttl, ring, mutex, waiters, spurious, at, printed>>
      /\ pc[t] \in {"check", "lock_slot"} /\ pc'[t] \in {"lock_slot", "examine"}
      /\ pc' = [pc EXCEPT ![t] = pc'[t]]
      /\ \A u \in Threads : u # t => pc'[u] = pc[u] /\ pos'[u] = pos[u]
  BY DEF IInv, TypeOK, ReadPos, LockSlot, Goes, sync
<1>2. /\ mutex = t /\ InMutex(t) /\ InMutex(t)'
      /\ \A u \in Threads : u # t => ~InMutex(u) /\ ~InMutex(u)'
  BY <1>1, AloneInMutex DEF InMutex
<1>3. /\ ~Doing(Producers, "store") /\ ~Doing(Consumers, "store")
      /\ ~Doing(Producers, "leave") /\ ~Doing(Consumers, "leave")
      /\ ~Doing(Producers, "store")' /\ ~Doing(Consumers, "store")'
      /\ ~Doing(Producers, "leave")' /\ ~Doing(Consumers, "leave")'
  BY <1>1, <1>2 DEF Doing
<1>4. Held' = Held /\ Oldest' = Oldest
  BY <1>1, <1>3 DEF Held, Oldest, ring
<1>5. /\ TypeOK' /\ Exclusion'
      /\ ~MustWait(t)
      /\ pos'[t] = IF t \in Producers THEN Turn(Oldest, Held) ELSE Oldest
  <2>1. CASE ReadPos(t)
    <3>0. \A i \in SlotIds : slot_owner[i] = Nobody
      BY <1>2, <2>1 DEF ReadPos, Goes, IInv, Exclusion, TypeOK
    <3>1. Oldest = next_read
      BY <1>3 DEF Oldest
    <3>2. next_write = Turn(Oldest, Held)
      BY <1>3 DEF IInv, RingShape
    <3>3. /\ pos'[t] = IF t \in Producers THEN next_write ELSE next_read
          /\ ~MustWait(t) /\ UNCHANGED slot_owner
          /\ pos' \in [Threads -> SlotIds]
          /\ pc'[t] = "lock_slot"
      BY <2>1 DEF ReadPos, Goes, IInv, TypeOK, sync
    <3>4. TypeOK'
      BY <1>1, <3>3 DEF IInv, TypeOK, ring, PCs
    <3>5. Exclusion'
      BY <1>1, <1>2, <3>0, <3>3 DEF IInv, TypeOK, Exclusion, InMutex
    <3> QED
      BY <3>1, <3>2, <3>3, <3>4, <3>5
  <2>2. CASE LockSlot(t)
    <3>1. /\ slot_owner[pos[t]] = Nobody /\ pos' = pos /\ pos[t] \in SlotIds
          /\ slot_owner' = [slot_owner EXCEPT ![pos[t]] = t]
          /\ pc[t] = "lock_slot" /\ pc'[t] = "examine"
      BY <2>2 DEF LockSlot, Goes, IInv, TypeOK
    <3>2. \A i \in SlotIds : slot_owner[i] = Nobody
      BY <1>2, <3>1 DEF IInv, Exclusion, TypeOK
    <3>3. \A i \in SlotIds : slot_owner'[i] = IF i = pos[t] THEN t ELSE Nobody
      BY <3>1, <3>2 DEF IInv, TypeOK
    <3>4. TypeOK'
      BY <1>1, <3>1 DEF IInv, TypeOK, ring, PCs
    <3>5. Exclusion'
      BY <1>1, <1>2, <3>1, <3>3, NobodyIsNoThread DEF IInv, TypeOK, Exclusion, InMutex
    <3> QED
      BY <3>1, <3>4, <3>5 DEF IInv, RightSlot
  <2> QED
    BY <2>1, <2>2
<1>6. LineInHand' /\ Sent' = Sent
  BY <1>1, NobodyIsNoThread DEF IInv, LineInHand, Sent
<1>7. RingShape' /\ NobodySleepsThrough'
  BY <1>1, <1>3, <1>4 DEF IInv, RingShape, NobodySleepsThrough, MustWait, ring
<1>8. RightSlot'
  BY <1>1, <1>2, <1>4, <1>5 DEF RightSlot, MustWait, InMutex, ring
<1>9. IInv'
  BY <1>5, <1>6, <1>7, <1>8 DEF IInv
<1> QED
  BY <1>1, <1>4, <1>6, <1>9, QueueKept DEF ring

(* The slot suits and is claimed: next_write or next_read moves past it.   *)
LEMMA ExamineStep ==
  ASSUME IInv, NEW t \in Threads, Examine(t)
  PROVE  IInv' /\ UNCHANGED Fifo!fifoVars
<1>1. /\ pc[t] = "examine" /\ InMutex(t) /\ mutex = t /\ Suits(t)
      /\ Held = filled_slots /\ Oldest \in SlotIds
      /\ t \in Producers => Held \in SlotIds
      /\ t \notin Producers => Held - 1 \in SlotIds
      /\ pos[t] = (IF t \in Producers THEN Turn(Oldest, Held) ELSE Oldest) /\ pos[t] \in SlotIds
      /\ ~MustWait(t)
  BY SlotFound, AloneInMutex DEF Examine, InMutex, IInv, RightSlot, TypeOK
<1>2. /\ UNCHANGED <<thread_ttl, buffer, filled_slots, mutex, waiters, spurious, at, printed>>
      /\ UNCHANGED <<pos, slot_owner>>
      /\ pc'[t] = "store" /\ pc' = [pc EXCEPT ![t] = "store"]
      /\ \A u \in Threads : u # t => pc'[u] = pc[u]
      /\ next_write' = IF t \in Producers THEN Step(pos[t]) ELSE next_write
      /\ next_read' = IF t \in Consumers THEN Step(pos[t]) ELSE next_read
  BY <1>1 DEF Examine, IInv, TypeOK
<1>3. Step(pos[t]) = Turn(pos[t], 1) /\ Turn(pos[t], 1) \in SlotIds
  BY <1>1, TurnValue, SlotRange DEF Step, Turn
<1>4. /\ ~Doing(Producers, "store") /\ ~Doing(Consumers, "store")
      /\ ~Doing(Producers, "leave") /\ ~Doing(Consumers, "leave")
      /\ Doing(Producers, "store")' <=> t \in Producers
      /\ Doing(Consumers, "store")' <=> t \notin Producers
      /\ ~Doing(Producers, "leave")' /\ ~Doing(Consumers, "leave")'
  BY <1>1, <1>2, NobodyIsNoThread DEF Doing
<1>5. Held' = Held /\ Oldest' = Oldest
  BY <1>1, <1>2, <1>4, NobodyIsNoThread DEF Held, Oldest
<1>6. TypeOK'
  BY <1>2, <1>3 DEF IInv, TypeOK, PCs
<1>7. \A u \in Threads : u # t => ~InMutex(u) /\ ~InMutex(u)'
  BY <1>1, <1>2, AloneInMutex DEF InMutex
<1>8. Exclusion'
  BY <1>1, <1>2, <1>7 DEF IInv, TypeOK, Exclusion, InMutex
<1>9. LineInHand' /\ Sent' = Sent
  BY <1>1, <1>2, NobodyIsNoThread DEF IInv, LineInHand, Sent
<1>10. RingShape'
  <2>1. /\ next_read = Oldest /\ Turn(Oldest, 0) = Oldest
        /\ next_write = Turn(Oldest, Held)
    BY <1>1, <1>4, TurnValue, SlotRange DEF Oldest, IInv, RingShape
  <2>2. next_read' = Turn(Oldest, IF t \notin Producers THEN 1 ELSE 0)
    BY <1>1, <1>2, <1>3, <2>1, NobodyIsNoThread
  <2>3. next_write' = Turn(Oldest, IF t \in Producers THEN Held + 1 ELSE Held)
    BY <1>1, <1>2, <1>3, <2>1, TurnTurn
  <2> QED
    BY <1>2, <1>4, <1>5, <2>2, <2>3 DEF IInv, RingShape
<1>11. RightSlot' /\ NobodySleepsThrough'
  BY <1>1, <1>2, <1>5, <1>7 DEF IInv, RightSlot, NobodySleepsThrough, MustWait, InMutex
<1>12. IInv'
  BY <1>6, <1>8, <1>9, <1>10, <1>11 DEF IInv
<1> QED
  BY <1>2, <1>5, <1>9, <1>12, QueueKept

(* The filled_slots threads add to or take from the ring agree with the    *)
(* slots again, and the woken threads are out of the wait.                 *)
LEMMA LeaveStep ==
  ASSUME IInv, NEW t \in Threads, Leave(t)
  PROVE  IInv' /\ UNCHANGED Fifo!fifoVars
<1>1. /\ pc[t] = "leave" /\ InMutex(t) /\ mutex = t /\ ~MustWait(t)
      /\ \A u \in Threads : u # t => ~InMutex(u)
  BY AloneInMutex DEF Leave, Goes, InMutex, IInv, RightSlot
<1>2. /\ UNCHANGED <<thread_ttl, buffer, next_read, next_write, slot_owner, spurious, pos, at, printed>>
      /\ pc'[t] = "loop" /\ pc' = [pc EXCEPT ![t] = "loop"]
      /\ \A u \in Threads : u # t => pc'[u] = pc[u]
      /\ waiters' = {} /\ mutex' = Nobody
      /\ filled_slots' = IF t \in Producers THEN filled_slots + 1 ELSE filled_slots - 1
  BY DEF Leave, Goes, IInv, TypeOK
<1>3. filled_slots' \in 0..Slots
  BY <1>1, <1>2, SlotRange DEF MustWait, IInv, TypeOK
<1>4. /\ ~Doing(Producers, "store") /\ ~Doing(Consumers, "store")
      /\ Doing(Producers, "leave") <=> t \in Producers
      /\ Doing(Consumers, "leave") <=> t \notin Producers
      /\ ~Doing(Producers, "store")' /\ ~Doing(Consumers, "store")'
      /\ ~Doing(Producers, "leave")' /\ ~Doing(Consumers, "leave")'
  BY <1>1, <1>2, NobodyIsNoThread DEF Doing
<1>5. Held' = Held /\ Oldest' = Oldest
  <2>1. filled_slots \in Int
    BY DEF IInv, TypeOK
  <2> QED
    BY <1>2, <1>3, <1>4, <2>1 DEF Held, Oldest
<1>6. TypeOK'
  BY <1>2, <1>3 DEF IInv, TypeOK, PCs
<1>7. \A i \in SlotIds : slot_owner[i] = Nobody
  BY <1>1 DEF IInv, Exclusion, TypeOK
<1>8. Exclusion'
  BY <1>1, <1>2, <1>7, NobodyIsNoThread DEF IInv, TypeOK, Exclusion, InMutex
<1>9. LineInHand' /\ Sent' = Sent
  BY <1>1, <1>2, NobodyIsNoThread DEF IInv, LineInHand, Sent
<1>10. RingShape' /\ NobodySleepsThrough'
  BY <1>2, <1>4, <1>5 DEF IInv, RingShape, NobodySleepsThrough
<1>11. RightSlot'
  BY <1>1, <1>2 DEF RightSlot, InMutex
<1>12. IInv'
  BY <1>6, <1>8, <1>9, <1>10, <1>11 DEF IInv
<1> QED
  BY <1>2, <1>5, <1>9, <1>12, QueueKept

(* What WriteLine and ConsumeLine have in common.                          *)
LEMMA StoreBasics ==
  ASSUME IInv, NEW t \in Threads, Goes(t, "store", "leave"), UnlockSlot(t),
         UNCHANGED <<next_read, next_write, filled_slots, mutex, waiters, pos>>
  PROVE  /\ mutex = t /\ pos[t] \in SlotIds
         /\ pc[t] = "store" /\ pc'[t] = "leave"
         /\ \A u \in Threads : u # t => pc'[u] = pc[u] /\ ~InMutex(u) /\ ~InMutex(u)'
         /\ pc' \in [Threads -> PCs]
         /\ slot_owner' \in [SlotIds -> Threads \cup {Nobody}]
         /\ Exclusion' /\ NobodySleepsThrough' /\ ~MustWait(t)'
         /\ Doing(Producers, "store") <=> t \in Producers
         /\ Doing(Consumers, "store") <=> t \notin Producers
         /\ ~Doing(Producers, "leave") /\ ~Doing(Consumers, "leave")
         /\ Doing(Producers, "leave")' <=> t \in Producers
         /\ Doing(Consumers, "leave")' <=> t \notin Producers
         /\ ~Doing(Producers, "store")' /\ ~Doing(Consumers, "store")'
<1>1. /\ pc[t] = "store" /\ InMutex(t) /\ mutex = t /\ ~MustWait(t) /\ pos[t] \in SlotIds
      /\ \A u \in Threads : u # t => ~InMutex(u)
  BY AloneInMutex DEF Goes, InMutex, IInv, RightSlot, TypeOK
<1>2. /\ pc'[t] = "leave" /\ pc' \in [Threads -> PCs]
      /\ \A u \in Threads : u # t => pc'[u] = pc[u] /\ ~InMutex(u)'
      /\ slot_owner' \in [SlotIds -> Threads \cup {Nobody}]
  BY <1>1 DEF Goes, IInv, TypeOK, UnlockSlot, PCs, InMutex
<1>3. \A i \in SlotIds : slot_owner'[i] = Nobody
  BY <1>1 DEF UnlockSlot, IInv, Exclusion, TypeOK
<1>4. Exclusion'
  BY <1>1, <1>2, <1>3 DEF IInv, TypeOK, Exclusion, InMutex
<1>5. NobodySleepsThrough' /\ ~MustWait(t)'
  BY <1>1 DEF NobodySleepsThrough, MustWait, IInv
<1>6. /\ Doing(Producers, "store") <=> t \in Producers
      /\ Doing(Consumers, "store") <=> t \notin Producers
      /\ ~Doing(Producers, "leave") /\ ~Doing(Consumers, "leave")
      /\ Doing(Producers, "leave")' <=> t \in Producers
      /\ Doing(Consumers, "leave")' <=> t \notin Producers
      /\ ~Doing(Producers, "store")' /\ ~Doing(Consumers, "store")'
  BY <1>1, <1>2, NobodyIsNoThread DEF Doing
<1> QED
  BY <1>1, <1>2, <1>4, <1>5, <1>6

(* A line goes to the slot after the last: LineFifo's Put.                 *)
LEMMA WriteLineStep ==
  ASSUME IInv, NEW p \in Producers, WriteLine(p)
  PROVE  IInv' /\ Fifo!Put(p)
<1> DEFINE line == <<p, at[p]>>
<1>1. /\ p \in Threads /\ mutex = p /\ pos[p] \in SlotIds
      /\ pc[p] = "store" /\ pc'[p] = "leave"
      /\ \A u \in Threads : u # p => pc'[u] = pc[u] /\ ~InMutex(u) /\ ~InMutex(u)'
      /\ pc' \in [Threads -> PCs]
      /\ slot_owner' \in [SlotIds -> Threads \cup {Nobody}]
      /\ Exclusion' /\ NobodySleepsThrough' /\ ~MustWait(p)'
      /\ Doing(Producers, "store") /\ ~Doing(Consumers, "store")
      /\ ~Doing(Producers, "leave") /\ ~Doing(Consumers, "leave")
      /\ Doing(Producers, "leave")' /\ ~Doing(Consumers, "leave")'
      /\ ~Doing(Producers, "store")' /\ ~Doing(Consumers, "store")'
  BY StoreBasics, NobodyIsNoThread DEF WriteLine
<1>2. /\ Held = filled_slots /\ Oldest \in SlotIds /\ Held \in SlotIds
      /\ pos[p] = Turn(Oldest, Held)
  BY <1>1, SlotFound DEF IInv, RightSlot
<1>3. /\ UNCHANGED <<thread_ttl, next_read, next_write, filled_slots, mutex, waiters,
                     spurious, pos, at, printed>>
      /\ buffer' = [buffer EXCEPT ![pos[p]] = line]
  BY DEF WriteLine
<1>4. /\ line \in Lines /\ line # NoLine /\ at[p] \in Int
      /\ at[p] >= 1 /\ at[p] <= Len(LineLengths)
  <2>1. at[p] \in 1..Len(LineLengths)
    BY <1>1, FileLength, SMTT(40) DEF IInv, TypeOK, LineInHand
  <2> QED
    BY <2>1, NoLineIsNone, FileLength DEF Lines, FileLines
<1>5. Held' = Held + 1 /\ Oldest' = Oldest
  BY <1>1, <1>2, <1>3, SlotRange DEF Held, Oldest
<1>6. TypeOK'
  BY <1>1, <1>3, <1>4 DEF IInv, TypeOK
<1>7. LineInHand'
  BY <1>1, <1>3, NobodyIsNoThread DEF IInv, LineInHand
<1>8. RingShape'
  <2>1. Held + 1 \in 0..Slots
    BY <1>2, SlotRange
  <2>2. ASSUME NEW j \in SlotIds
        PROVE  buffer'[j] # NoLine <=> Dist(Oldest, j) < Held + 1
    <3>1. /\ Dist(Oldest, j) \in SlotIds /\ Turn(Oldest, Dist(Oldest, j)) = j
          /\ Dist(Oldest, pos[p]) = Held
      BY <1>2, DistValue, TurnInjective
    <3>2. Dist(Oldest, j) = Held <=> j = pos[p]
      BY <1>2, <3>1
    <3>3. buffer'[j] = IF j = pos[p] THEN line ELSE buffer[j]
      BY <1>3 DEF IInv, TypeOK
    <3>4. buffer[j] # NoLine <=> Dist(Oldest, j) < Held
      BY DEF IInv, RingShape
    <3> QED
      BY <1>2, <1>4, <3>1, <3>2, <3>3, <3>4, SlotRange
  <2> QED
    BY <1>1, <1>3, <1>5, <2>1, <2>2 DEF IInv, RingShape
<1>9. RightSlot'
  BY <1>1 DEF RightSlot, InMutex
<1>10. IInv'
  BY <1>1, <1>6, <1>7, <1>8, <1>9 DEF IInv
<1>11. Sent[p] = at[p] - 1 /\ Sent' = [Sent EXCEPT ![p] = @ + 1]
  <2>1. Sent[p] = at[p] - 1 /\ Sent'[p] = at[p]
    BY <1>1, <1>3 DEF Sent
  <2>2. \A q \in Producers \ {p} : Sent'[q] = Sent[q]
    BY <1>1, <1>3, NobodyIsNoThread DEF Sent
  <2>3. Sent'[p] = Sent[p] + 1
    BY <1>4, <2>1
  <2> QED
    BY <2>1, <2>2, <2>3 DEF Sent
<1>12. Len(Queue) = Held /\ Queue' = Append(Queue, line)
  <2>1. Held \in Nat /\ Len(Queue) = Held /\ DOMAIN Queue = 1..Held
    BY <1>2, SlotRange DEF Queue
  <2>2. Queue' = [i \in 1..(Held + 1) |-> buffer'[Turn(Oldest, i - 1)]]
    BY <1>5 DEF Queue
  <2>3. ASSUME NEW i \in 1..Held PROVE buffer'[Turn(Oldest, i - 1)] = Queue[i]
    <3>1. i - 1 \in SlotIds /\ i - 1 # Held
      BY <1>2, SlotRange
    <3>2. Turn(Oldest, i - 1) \in SlotIds /\ Turn(Oldest, i - 1) # pos[p]
      BY <1>2, <3>1, TurnInjective, TurnValue, SlotRange
    <3> QED
      BY <1>3, <3>2 DEF Queue, IInv, TypeOK
  <2>4. buffer'[Turn(Oldest, Held)] = line
    BY <1>1, <1>2, <1>3 DEF IInv, TypeOK
  <2>5. Append(Queue, line) = [i \in 1..(Held + 1) |-> IF i = Held + 1 THEN line ELSE Queue[i]]
    BY <2>1
  <2> HIDE DEF line
  <2>6. ASSUME NEW i \in 1..(Held + 1)
        PROVE  buffer'[Turn(Oldest, i - 1)] = IF i = Held + 1 THEN line ELSE Queue[i]
    <3>1. CASE i = Held + 1
      <4>1. i - 1 = Held
        BY <2>1, <3>1
      <4> QED
        BY <2>4, <3>1, <4>1
    <3>2. CASE i # Held + 1
      <4>1. i \in 1..Held
        BY <2>1, <3>2
      <4> QED
        BY <2>3, <3>2, <4>1
    <3> QED
      BY <3>1, <3>2
  <2>7. Queue' = [i \in 1..(Held + 1) |-> IF i = Held + 1 THEN line ELSE Queue[i]]
    BY <2>2, <2>6
  <2> QED
    BY <2>1, <2>5, <2>7
<1>13. LinesInOrder = Queue /\ LinesInOrder' = Queue'
  BY <1>10, QueueIsLines, QueueIsLinesNext
<1>14. Sent[p] < Len(LineLengths) /\ Len(Queue) < Slots /\ line = <<p, Sent[p] + 1>>
  BY <1>2, <1>4, <1>11, <1>12, FileLength, SlotRange
<1>15. Fifo!Put(p)
  <2> HIDE DEF line
  <2> QED
    BY <1>3, <1>11, <1>12, <1>13, <1>14 DEF Fifo!Put, LinesInOrder, FilledSlots
<1> QED
  BY <1>10, <1>15

(* The oldest line is printed and its slot emptied: LineFifo's Take.       *)
LEMMA ConsumeLineStep ==
  ASSUME IInv, NEW c \in Consumers, ConsumeLine(c)
  PROVE  IInv' /\ Fifo!Take
<1> DEFINE line == buffer[pos[c]]
<1>1. /\ c \in Threads /\ mutex = c /\ pos[c] \in SlotIds
      /\ pc[c] = "store" /\ pc'[c] = "leave"
      /\ \A u \in Threads : u # c => pc'[u] = pc[u] /\ ~InMutex(u) /\ ~InMutex(u)'
      /\ pc' \in [Threads -> PCs]
      /\ slot_owner' \in [SlotIds -> Threads \cup {Nobody}]
      /\ Exclusion' /\ NobodySleepsThrough' /\ ~MustWait(c)'
      /\ ~Doing(Producers, "store") /\ Doing(Consumers, "store")
      /\ ~Doing(Producers, "leave") /\ ~Doing(Consumers, "leave")
      /\ ~Doing(Producers, "leave")' /\ Doing(Consumers, "leave")'
      /\ ~Doing(Producers, "store")' /\ ~Doing(Consumers, "store")'
  BY StoreBasics, NobodyIsNoThread DEF ConsumeLine
<1>2. /\ Held = filled_slots /\ Oldest \in SlotIds /\ Held - 1 \in SlotIds
      /\ pos[c] = Oldest /\ Suits(c)
  BY <1>1, SlotFound, NobodyIsNoThread DEF IInv, RightSlot
<1>3. /\ UNCHANGED <<thread_ttl, next_read, next_write, filled_slots, mutex, waiters,
                     spurious, pos, at>>
      /\ buffer' = [buffer EXCEPT ![pos[c]] = NoLine]
      /\ printed' = IF matching(line) THEN Append(printed, line) ELSE printed
  BY DEF ConsumeLine
<1>4. line \in Lines
  BY <1>1, <1>2, NobodyIsNoThread DEF Suits, IInv, TypeOK
<1>5. /\ next_read = Turn(Oldest, 1) /\ next_read \in SlotIds
      /\ next_write = Turn(Oldest, Held) /\ Held \in 0..Slots
  BY <1>1 DEF IInv, RingShape, TypeOK
<1>6. Held' = Held - 1 /\ Oldest' = Turn(Oldest, 1)
  BY <1>1, <1>2, <1>3, <1>5, SlotRange DEF Held, Oldest
<1>7. TypeOK'
  <2>1. printed' \in Seq(Lines)
    BY <1>3, <1>4 DEF IInv, TypeOK
  <2> QED
    BY <1>1, <1>3, <2>1 DEF IInv, TypeOK
<1>8. LineInHand' /\ Sent' = Sent
  BY <1>1, <1>3, NobodyIsNoThread DEF IInv, LineInHand, Sent
<1>9. RingShape'
  <2>1. Held - 1 \in 0..Slots
    BY <1>2, SlotRange
  <2>2. ASSUME NEW j \in SlotIds
        PROVE  buffer'[j] # NoLine <=> Dist(Turn(Oldest, 1), j) < Held - 1
    <3>1. /\ Dist(Turn(Oldest, 1), j) = IF j = Oldest THEN Slots - 1 ELSE Dist(Oldest, j) - 1
          /\ Dist(Oldest, j) \in SlotIds
      BY <1>2, DistNext, DistValue
    <3>2. buffer'[j] = IF j = Oldest THEN NoLine ELSE buffer[j]
      BY <1>2, <1>3 DEF IInv, TypeOK
    <3>3. buffer[j] # NoLine <=> Dist(Oldest, j) < Held
      BY DEF IInv, RingShape
    <3>4. CASE j = Oldest
      BY <1>2, <1>5, <3>1, <3>2, <3>4, SlotRange
    <3>5. CASE j # Oldest
      <4>1. Dist(Oldest, j) - 1 < Held - 1 <=> Dist(Oldest, j) < Held
        BY <1>5, <3>1, SlotRange
      <4> QED
        BY <3>1, <3>2, <3>3, <3>5, <4>1
    <3> QED
      BY <3>4, <3>5
  <2>3. Turn(next_read, 0) = next_read
    BY <1>5, TurnValue, SlotRange
  <2>4. next_write = Turn(Turn(Oldest, 1), Held - 1)
    <3>1. Turn(Turn(Oldest, 1), Held - 1) = Turn(Oldest, Held - 1 + 1)
      BY <1>2, TurnTurn
    <3>2. Held - 1 + 1 = Held
      BY <1>5
    <3> QED
      BY <1>5, <3>1, <3>2
  <2> QED
    BY <1>1, <1>3, <1>5, <1>6, <2>1, <2>2, <2>3, <2>4 DEF RingShape
<1>10. RightSlot'
  BY <1>1 DEF RightSlot, InMutex
<1>11. IInv'
  BY <1>1, <1>7, <1>8, <1>9, <1>10 DEF IInv
<1>12. /\ Queue # <<>> /\ Head(Queue) = line
       /\ Queue' = Tail(Queue)
  <2>1. Held \in Nat /\ Held >= 1 /\ Held - 1 \in Nat
    BY <1>2, <1>5, SlotRange
  <2>2. Len(Queue) = Held /\ DOMAIN Queue = 1..Held /\ Queue[1] = line
    <3>1. Turn(Oldest, 1 - 1) = Oldest
      BY <1>2, TurnValue, SlotRange
    <3> QED
      BY <1>2, <2>1, <3>1 DEF Queue
  <2>3. Tail(Queue) = [i \in 1..(Held - 1) |-> Queue[i + 1]]
    <3>1. Queue \in Seq(Lines \cup {NoLine})
      <4>1. \A i \in 1..Held : i - 1 \in 0..Slots
        BY <1>5, <2>1, SlotRange
      <4>2. \A i \in 1..Held : Turn(Oldest, i - 1) \in SlotIds
        BY <1>2, <4>1, TurnValue
      <4> QED
        BY <2>1, <4>2 DEF Queue, IInv, TypeOK
    <3>2. /\ Tail(Queue) \in Seq(Lines \cup {NoLine})
          /\ Len(Tail(Queue)) = Held - 1
          /\ \A i \in 1..(Held - 1) : Tail(Queue)[i] = Queue[i + 1]
      <4>1. Queue # <<>>
        BY <2>1, <2>2
      <4> QED
        BY <2>2, <3>1, <4>1, HeadTailProperties
    <3>3. Tail(Queue) \in [1..(Held - 1) -> Lines \cup {NoLine}]
      BY <3>2, LenProperties
    <3> QED
      BY <3>2, <3>3
  <2>4. Queue' = [i \in 1..(Held - 1) |-> buffer'[Turn(Turn(Oldest, 1), i - 1)]]
    BY <1>6 DEF Queue
  <2>5. ASSUME NEW i \in 1..(Held - 1)
        PROVE  buffer'[Turn(Turn(Oldest, 1), i - 1)] = Queue[i + 1]
    <3>1. /\ i - 1 \in SlotIds /\ i \in SlotIds /\ i # 0
          /\ i - 1 + 1 = i /\ i + 1 - 1 = i /\ i + 1 \in 1..Held
      BY <1>2, <2>1, SlotRange
    <3>2. Turn(Turn(Oldest, 1), i - 1) = Turn(Oldest, i)
      BY <1>2, <3>1, TurnTurn
    <3>3. Turn(Oldest, i) \in SlotIds /\ Turn(Oldest, i) # Oldest
      <4>1. Dist(Oldest, Turn(Oldest, i)) = i /\ Dist(Oldest, Oldest) = 0
        BY <1>2, <3>1, TurnInjective, SlotRange DEF Dist
      <4> QED
        BY <1>2, <3>1, <4>1, TurnValue, SlotRange
    <3>4. Queue[i + 1] = buffer[Turn(Oldest, i)]
      BY <3>1 DEF Queue
    <3> QED
      BY <1>2, <1>3, <3>2, <3>3, <3>4 DEF IInv, TypeOK
  <2>6. Queue' = Tail(Queue)
    BY <2>3, <2>4, <2>5
  <2> QED
    BY <2>1, <2>2, <2>6
<1>13. LinesInOrder = Queue /\ LinesInOrder' = Queue'
  BY <1>11, QueueIsLines, QueueIsLinesNext
<1>14. printed' = IF Fifo!matching(Head(Queue)) THEN Append(printed, Head(Queue)) ELSE printed
  BY <1>3, <1>12 DEF Fifo!matching, matching
<1>15. Fifo!Take
  BY <1>8, <1>12, <1>13, <1>14 DEF Fifo!Take, LinesInOrder, FilledSlots
<1> QED
  BY <1>11, <1>15

LEMMA NextStep ==
  ASSUME IInv, [Next]_vars
  PROVE  IInv' /\ [Fifo!FifoNext]_(Fifo!fifoVars)
<1>1. ASSUME NEW p \in Producers, produce(p)
      PROVE  IInv' /\ [Fifo!FifoNext]_(Fifo!fifoVars)
  BY <1>1, OutsideStep, MutexStep, ReachSlotStep, ExamineStep, LeaveStep, WriteLineStep,
     NobodyIsNoThread DEF produce, Search, Fifo!FifoNext
<1>2. ASSUME NEW c \in Consumers, consume(c)
      PROVE  IInv' /\ [Fifo!FifoNext]_(Fifo!fifoVars)
  BY <1>2, OutsideStep, MutexStep, ReachSlotStep, ExamineStep, LeaveStep, ConsumeLineStep,
     NobodyIsNoThread DEF consume, Search, Fifo!FifoNext
<1>3. ASSUME NEW t \in Threads, SpuriousWakeUp(t)
      PROVE  IInv' /\ [Fifo!FifoNext]_(Fifo!fifoVars)
  BY <1>3, OutsideStep
<1>4. CASE UNCHANGED vars
  <2> USE <1>4 DEF vars, ring, sync
  <2>1. Held' = Held /\ Oldest' = Oldest /\ Sent' = Sent
    BY DEF Held, Oldest, Sent, Doing
  <2>2. TypeOK' /\ Exclusion' /\ LineInHand'
    BY DEF IInv, TypeOK, Exclusion, InMutex, LineInHand
  <2>3. RingShape' /\ RightSlot' /\ NobodySleepsThrough'
    BY <2>1 DEF IInv, RingShape, RightSlot, NobodySleepsThrough, MustWait, Doing
  <2> QED
    BY <2>1, <2>2, <2>3, QueueKept DEF IInv
<1> QED
  BY <1>1, <1>2, <1>3, <1>4 DEF Next, Joining

(* The invariant of the buffer holds in every reachable state.             *)
LEMMA CondBufferInvariant == Spec => []IInv
<1>1. IInv /\ [Next]_vars => IInv'
  BY NextStep
<1> QED
  BY InitIInv, <1>1, PTL DEF Spec

(* Every variable keeps its type: filled_slots never leaves 0..Slots.      *)
THEOREM CondBufferTypeCorrect == Spec => []TypeOK
<1>1. IInv => TypeOK
  BY DEF IInv
<1> QED
  BY CondBufferInvariant, <1>1, PTL

(* Between two changes the lines lie in the filled_slots slots from        *)
(* next_read on, and next_write is the slot after them.                    *)
THEOREM CondBufferRingInOrder == Spec => []RingInOrder
<1>1. ASSUME IInv PROVE RingInOrder
  <2> SUFFICES ASSUME \A t \in Threads : ~Changing(t)
               PROVE  /\ next_write = (next_read + filled_slots) % Slots
                      /\ \A i \in SlotIds :
                             buffer[(next_read + i) % Slots] # NoLine <=> i < filled_slots
    BY DEF RingInOrder
  <2>1. /\ ~Doing(Producers, "store") /\ ~Doing(Consumers, "store")
        /\ ~Doing(Producers, "leave") /\ ~Doing(Consumers, "leave")
    BY NobodyIsNoThread DEF Doing, Changing
  <2>2. filled_slots \in 0..Slots /\ next_read \in SlotIds
    BY <1>1 DEF IInv, TypeOK
  <2>3. Held = filled_slots /\ Oldest = next_read
    BY <2>1, <2>2 DEF Held, Oldest
  <2>4. next_write = Turn(next_read, filled_slots)
    BY <1>1, <2>1, <2>3 DEF IInv, RingShape
  <2>5. ASSUME NEW i \in SlotIds
        PROVE  buffer[Turn(next_read, i)] # NoLine <=> i < filled_slots
    <3>1. Turn(next_read, i) \in SlotIds /\ Dist(next_read, Turn(next_read, i)) = i
      BY <2>2, TurnValue, TurnInjective, SlotRange
    <3> QED
      BY <1>1, <2>3, <3>1 DEF IInv, RingShape
  <2> QED
    BY <2>4, <2>5 DEF Turn
<1> QED
  BY CondBufferInvariant, <1>1, PTL

(* Nobody sleeps in pthread_cond_wait on what has already happened.        *)
THEOREM CondBufferNobodySleepsThrough == Spec => []NobodySleepsThrough
<1>1. IInv => NobodySleepsThrough
  BY DEF IInv
<1> QED
  BY CondBufferInvariant, <1>1, PTL

(* The search for a slot succeeds at the first try, and the slots' own     *)
(* mutexes are free whenever a thread wants them.                          *)
THEOREM CondBufferSlotFoundAtOnce == Spec => []SlotFoundAtOnce
<1>1. ASSUME IInv PROVE SlotFoundAtOnce
  BY <1>1, SlotFound DEF SlotFoundAtOnce, IInv, Exclusion
<1> QED
  BY CondBufferInvariant, <1>1, PTL

(* The ring under its mutex implements the bounded first-in first-out      *)
(* queue of lines.                                                         *)
THEOREM CondBufferImplementsFifo == Spec => ImplementsFifo
<1>1. Init => Fifo!FifoInit
  <2> SUFFICES ASSUME Init PROVE Fifo!FifoInit
    OBVIOUS
  <2>1. FilledSlots = {}
    BY DEF Init, FilledSlots
  <2>2. LinesInOrder = <<>>
    BY <2>1, FS_EmptySet DEF LinesInOrder
  <2>3. Sent = [p \in Producers |-> 0]
    BY NobodyIsNoThread DEF Init, Sent
  <2> QED
    BY <2>2, <2>3 DEF Init, LinesInOrder, FilledSlots, Fifo!FifoInit
<1>2. IInv /\ [Next]_vars => [Fifo!FifoNext]_(Fifo!fifoVars)
  BY NextStep
<1> QED
  BY <1>1, <1>2, CondBufferInvariant, PTL DEF Spec, ImplementsFifo, Fifo!FifoSpec
=============================================================================

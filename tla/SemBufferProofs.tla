--------------------------- MODULE SemBufferProofs ---------------------------
(***************************************************************************)
(* Proofs about SemBuffer, for any producers and consumers, any file, any  *)
(* number of slots and any time limits: the slots' semaphores are locks,   *)
(* the counting semaphores account for the slots, and the ring implements  *)
(* LineBag.                                                                *)
(***************************************************************************)
EXTENDS SemBuffer, FiniteSetTheorems, TLAPS

(* The parts of TokensMatchSlots, by the role they serve: the slots of use *)
(* to a role, its threads that hold a token, the threads about to give one.*)
SlotsFor(r) == {i \in SlotIds : (buffer[i] = NoLine) <=> r = "write"}
SearchingFor(r) == {t \in Threads : role(t) = r /\ Searching(t)}
SignallingFor(r) == {t \in Threads : other(t) = r /\ pc[t] = "signal"}

Balanced(r) ==
    Cardinality(SlotsFor(r)) =
        tokens[r] + Cardinality(SearchingFor(r)) + Cardinality(SignallingFor(r))

(* Whoever is past getline() has read a line.                              *)
LineInHand ==
    \A p \in Producers : Searching(p) \/ pc[p] \in {"wait", "timed_out"} => at[p] >= 1

(* The buffer holds no line twice, and none that was not put in.           *)
LinesDistinct ==
    \A i, j \in SlotIds : buffer[i] # NoLine /\ buffer[i] = buffer[j] => i = j

LinesSent ==
    \A i \in SlotIds : buffer[i] # NoLine => buffer[i][2] <= Sent[buffer[i][1]]

InBuffer == {buffer[i] : i \in SlotIds} \ {NoLine}

IInv ==
    /\ TypeOK
    /\ SlotExclusive
    /\ TokensMatchSlots
    /\ LineInHand
    /\ LinesDistinct
    /\ LinesSent
-----------------------------------------------------------------------------
LEMMA NoLineIsNone == NoLine \notin Lines
BY DEF NoLine, Lines

LEMMA FileLength == Len(LineLengths) \in Nat
BY FileAssumption

LEMMA StepInRing == ASSUME NEW i \in SlotIds PROVE Step(i) \in SlotIds
BY SemBufferAssumption DEF Step, SlotIds

(* What TokensMatchSlots says of each role.                                *)
LEMMA TokensByRole == TokensMatchSlots <=> \A r \in Roles : Balanced(r)
<1>1. /\ SlotsFor("write") = {i \in SlotIds : buffer[i] = NoLine}
      /\ SlotsFor("read") = SlotIds \ {i \in SlotIds : buffer[i] = NoLine}
  BY DEF SlotsFor
<1>2. /\ SearchingFor("write") = {p \in Producers : Searching(p)}
      /\ SearchingFor("read") = {c \in Consumers : Searching(c)}
      /\ SignallingFor("write") = {c \in Consumers : pc[c] = "signal"}
      /\ SignallingFor("read") = {p \in Producers : pc[p] = "signal"}
  BY SemBufferAssumption DEF SearchingFor, SignallingFor, Threads, role, other
<1> QED
  BY <1>1, <1>2 DEF TokensMatchSlots, Balanced, Roles

LEMMA SlotsFinite ==
  ASSUME NEW S \in SUBSET SlotIds
  PROVE  IsFiniteSet(S) /\ Cardinality(S) \in 0..Slots
<1>1. IsFiniteSet(SlotIds) /\ Cardinality(SlotIds) = Slots
  BY FS_Interval, SemBufferAssumption DEF SlotIds
<1> QED
  BY <1>1, FS_Subset, FS_CardinalityType, SemBufferAssumption

LEMMA ThreadsFinite ==
  ASSUME NEW S \in SUBSET Threads
  PROVE  IsFiniteSet(S) /\ Cardinality(S) \in Nat
BY FS_Union, FS_Subset, FS_CardinalityType, SemBufferAssumption DEF Threads

(* The numbers the accounts are about.                                     *)
LEMMA CountsTyped ==
  ASSUME NEW r \in Roles
  PROVE  /\ IsFiniteSet(SlotsFor(r)) /\ Cardinality(SlotsFor(r)) \in 0..Slots
         /\ IsFiniteSet(SearchingFor(r)) /\ Cardinality(SearchingFor(r)) \in Nat
         /\ IsFiniteSet(SignallingFor(r)) /\ Cardinality(SignallingFor(r)) \in Nat
BY SlotsFinite, ThreadsFinite DEF SlotsFor, SearchingFor, SignallingFor

(* The same of the state after a step.                                     *)
LEMMA TokensByRoleNext == TokensMatchSlots' <=> \A r \in Roles : Balanced(r)'
<1>1. TokensMatchSlots' <=> (\A r \in Roles : Balanced(r))'
  BY TokensByRole, PTL
<1> QED
  BY <1>1

LEMMA RolesOf ==
  ASSUME NEW t \in Threads
  PROVE  /\ role(t) \in Roles /\ other(t) \in Roles /\ role(t) # other(t)
         /\ \A r \in Roles : r = role(t) \/ r = other(t)
BY DEF role, other, Roles

(* The semaphores are never above the number of slots.                     *)
LEMMA TokensBounded ==
  tokens \in [Roles -> Nat] /\ TokensMatchSlots => tokens \in [Roles -> 0..Slots]
<1> SUFFICES ASSUME tokens \in [Roles -> Nat], TokensMatchSlots
             PROVE  tokens \in [Roles -> 0..Slots]
  OBVIOUS
<1>1. ASSUME NEW r \in Roles PROVE tokens[r] \in 0..Slots
  BY CountsTyped, TokensByRole, SemBufferAssumption DEF Balanced
<1> QED
  BY <1>1

LEMMA TokensBoundedNext ==
  tokens' \in [Roles -> Nat] /\ TokensMatchSlots' => tokens' \in [Roles -> 0..Slots]
<1>1. (tokens \in [Roles -> Nat] /\ TokensMatchSlots => tokens \in [Roles -> 0..Slots])'
  BY TokensBounded, PTL
<1> QED
  BY <1>1
-----------------------------------------------------------------------------
LEMMA InitIInv == Init => IInv
<1> SUFFICES ASSUME Init PROVE IInv
  OBVIOUS
<1> USE DEF Init
<1>1. TypeOK
  BY FileLength, SemBufferAssumption DEF TypeOK, SlotIds, Roles, Threads, PCs, NoLine
<1>2. \A t \in Threads : ~HoldsSlot(t) /\ ~Searching(t) /\ pc[t] = "loop"
  BY DEF HoldsSlot, Searching
<1>3. SlotExclusive /\ LineInHand
  BY <1>2 DEF SlotExclusive, LineInHand, Threads
<1>4. TokensMatchSlots
  <2>1. ASSUME NEW r \in Roles
        PROVE  /\ SearchingFor(r) = {} /\ SignallingFor(r) = {}
               /\ SlotsFor(r) = IF r = "write" THEN SlotIds ELSE {}
    BY <1>2 DEF SearchingFor, SignallingFor, SlotsFor, Roles
  <2>2. Cardinality(SlotIds) = Slots
    BY FS_Interval, SemBufferAssumption DEF SlotIds
  <2>3. ASSUME NEW r \in Roles
        PROVE  /\ Cardinality(SearchingFor(r)) = 0 /\ Cardinality(SignallingFor(r)) = 0
               /\ Cardinality(SlotsFor(r)) = IF r = "write" THEN Slots ELSE 0
               /\ tokens[r] = IF r = "write" THEN Slots ELSE 0
    BY <2>1, <2>2, FS_EmptySet
  <2> HIDE DEF Init
  <2> QED
    BY <2>3, TokensByRole, SemBufferAssumption DEF Balanced
<1>5. LinesDistinct /\ LinesSent
  BY DEF LinesDistinct, LinesSent
<1> QED
  BY <1>1, <1>3, <1>4, <1>5 DEF IInv

(* A step that moves no line, no token and nobody into or out of the       *)
(* search: the accounts stay as they are.                                  *)
LEMMA QuietStep ==
  ASSUME IInv, TypeOK', SlotExclusive', LineInHand',
         UNCHANGED <<buffer, tokens, printed>>, Sent' = Sent,
         \A t \in Threads : /\ Searching(t)' <=> Searching(t)
                            /\ pc'[t] = "signal" <=> pc[t] = "signal"
  PROVE  IInv' /\ UNCHANGED Bag!bagVars
<1>1. ASSUME NEW r \in Roles
      PROVE  /\ SlotsFor(r)' = SlotsFor(r)
             /\ SearchingFor(r)' = SearchingFor(r)
             /\ SignallingFor(r)' = SignallingFor(r)
  BY DEF SlotsFor, SearchingFor, SignallingFor
<1>2. TokensMatchSlots'
  BY <1>1, TokensByRole, TokensByRoleNext DEF IInv, Balanced
<1>3. LinesDistinct' /\ LinesSent'
  BY DEF IInv, LinesDistinct, LinesSent
<1> QED
  BY <1>2, <1>3 DEF IInv, Bag!bagVars

(* The steps of the search that only move the thread along.                *)
LEMMA LoopStep ==
  ASSUME IInv, NEW t \in Threads,
         \/ LifetimeOver(t) \/ Timeout(t) \/ ReadPos(t)
         \/ t \in Producers /\ (GetLine(t) \/ EndOfFile(t))
         \/ t \in Consumers /\ NextPortion(t)
  PROVE  IInv' /\ UNCHANGED Bag!bagVars
<1> USE DEF Goes
<1>1. /\ UNCHANGED <<thread_ttl, buffer, tokens, printed, slot_locks, next>>
      /\ pc' = [pc EXCEPT ![t] = pc'[t]]
      /\ pc'[t] \in PCs
      /\ ~HoldsSlot(t) /\ pc'[t] \notin {"examine", "store", "signal"}
      /\ pc[t] # "signal"
      /\ pos' \in [Threads -> SlotIds]
      /\ \A u \in Threads \ {t} : pos'[u] = pos[u]
  BY DEF IInv, TypeOK, LifetimeOver, Timeout, ReadPos, GetLine, EndOfFile, NextPortion,
         PCs, HoldsSlot, role, Roles
<1>2. /\ pc[t] = "read_pos" <=> pc'[t] = "lock"
      /\ pc[t] # "lock" /\ pc'[t] # "read_pos"
      /\ t \in Producers =>
             /\ at' \in [Producers -> 0..Len(LineLengths)]
             /\ \A p \in Producers \ {t} : at'[p] = at[p]
             /\ Sent'[t] = Sent[t]
             /\ pc'[t] \in {"wait", "timed_out", "lock"} => at'[t] >= 1
      /\ t \notin Producers => at' = at
  BY FileLength, SemBufferAssumption DEF IInv, TypeOK, LineInHand, Searching, Sent, LifetimeOver,
     Timeout, ReadPos, GetLine, EndOfFile, NextPortion, Threads
<1>3. \A u \in Threads : u # t => pc'[u] = pc[u]
  BY <1>1 DEF IInv, TypeOK
<1>4. TypeOK'
  BY <1>1, <1>2 DEF IInv, TypeOK, Threads
<1>5. \A u \in Threads : /\ Searching(u)' <=> Searching(u)
                         /\ HoldsSlot(u)' <=> HoldsSlot(u)
                         /\ pc'[u] = "signal" <=> pc[u] = "signal"
  BY <1>1, <1>2, <1>3 DEF Searching, HoldsSlot
<1>6. SlotExclusive'
  BY <1>1, <1>3, <1>5 DEF IInv, SlotExclusive, Suits, HoldsSlot
<1>7. LineInHand'
  BY <1>1, <1>2, <1>3, <1>5 DEF IInv, LineInHand, Threads, Searching, PCs
<1>8. Sent' = Sent
  BY <1>1, <1>2, <1>3, <1>5 DEF Sent, Threads
<1> QED
  BY <1>1, <1>4, <1>5, <1>6, <1>7, <1>8, QuietStep

(* The steps that take a slot's semaphore, give it back or keep it.        *)
LEMMA SlotStep ==
  ASSUME IInv, NEW t \in Threads, LockSlot(t) \/ SkipSlot(t) \/ ClaimSlot(t)
  PROVE  IInv' /\ UNCHANGED Bag!bagVars
<1>1. /\ UNCHANGED <<thread_ttl, buffer, tokens, printed, at>>
      /\ pc[t] \in {"lock", "examine"} /\ pc'[t] \in {"lock", "examine", "store"}
      /\ pc' = [pc EXCEPT ![t] = pc'[t]]
      /\ \A u \in Threads : u # t => pc'[u] = pc[u] /\ pos'[u] = pos[u]
  BY DEF IInv, TypeOK, LockSlot, SkipSlot, ClaimSlot, Goes
<1>2. /\ \A u \in Threads : Searching(u)' <=> Searching(u)
      /\ \A u \in Threads : pc'[u] = "signal" <=> pc[u] = "signal"
      /\ Sent' = Sent /\ LineInHand'
  BY <1>1 DEF IInv, Searching, Sent, LineInHand, Threads
<1>3. TypeOK' /\ SlotExclusive'
  <2>1. CASE LockSlot(t)
    <3> USE <2>1 DEF LockSlot, Goes
    <3>0. pos[t] \in SlotIds /\ slot_locks[pos[t]] \in {0, 1}
      BY DEF IInv, TypeOK
    <3>a. slot_locks[pos[t]] > 0 /\ slot_locks' = [slot_locks EXCEPT ![pos[t]] = @ - 1]
      OBVIOUS
    <3> HIDE DEF LockSlot
    <3>b. slot_locks[pos[t]] = 1 /\ slot_locks[pos[t]] - 1 = 0
      BY <3>0, <3>a
    <3>1. slot_locks[pos[t]] = 1 /\ slot_locks' = [slot_locks EXCEPT ![pos[t]] = 0]
      BY <3>a, <3>b
    <3> USE DEF LockSlot
    <3>2. TypeOK'
      BY <1>1, <3>1 DEF IInv, TypeOK, PCs
    <3>3. \A u \in Threads : HoldsSlot(u) => pos[u] # pos[t]
      BY <3>1 DEF IInv, SlotExclusive
    <3>4. \A u \in Threads : HoldsSlot(u)' <=> HoldsSlot(u) \/ u = t
      BY <1>1 DEF HoldsSlot, IInv, TypeOK
    <3>5. SlotExclusive'
      BY <1>1, <3>1, <3>3, <3>4 DEF IInv, TypeOK, SlotExclusive, Suits
    <3> QED
      BY <3>2, <3>5
  <2>2. CASE SkipSlot(t)
    <3> USE <2>2 DEF SkipSlot, Goes
    <3>1. HoldsSlot(t) /\ slot_locks[pos[t]] = 0
      BY DEF HoldsSlot, IInv, SlotExclusive
    <3>2. /\ slot_locks' = [slot_locks EXCEPT ![pos[t]] = 1]
          /\ Step(pos[t]) \in SlotIds
      BY <3>1, StepInRing DEF IInv, TypeOK
    <3>3. TypeOK'
      BY <1>1, <3>2 DEF IInv, TypeOK, PCs
    <3>4. \A u \in Threads : HoldsSlot(u)' <=> HoldsSlot(u) /\ u # t
      BY <1>1 DEF HoldsSlot, IInv, TypeOK
    <3>5. \A u \in Threads : HoldsSlot(u) /\ u # t => pos[u] # pos[t]
      BY <3>1 DEF IInv, SlotExclusive
    <3>6. SlotExclusive'
      BY <1>1, <3>2, <3>4, <3>5 DEF IInv, TypeOK, SlotExclusive, Suits, HoldsSlot
    <3> QED
      BY <3>3, <3>6
  <2>3. CASE ClaimSlot(t)
    <3> USE <2>3 DEF ClaimSlot, Goes
    <3>1. TypeOK'
      BY <1>1, StepInRing DEF IInv, TypeOK, PCs, role, Roles
    <3>2. \A u \in Threads : HoldsSlot(u)' <=> HoldsSlot(u)
      BY <1>1 DEF HoldsSlot, IInv, TypeOK
    <3>3. SlotExclusive'
      BY <1>1, <3>2 DEF IInv, TypeOK, SlotExclusive, Suits
    <3> QED
      BY <3>1, <3>3
  <2> QED
    BY <2>1, <2>2, <2>3
<1> QED
  BY <1>1, <1>2, <1>3, QuietStep

(* A token is taken: one more thread searches.                             *)
LEMMA WaitTokenStep ==
  ASSUME IInv, NEW t \in Threads, WaitToken(t)
  PROVE  IInv' /\ UNCHANGED Bag!bagVars
<1> USE DEF WaitToken, Goes
<1>1. \A u \in Threads : /\ u # t => pc'[u] = pc[u]
                         /\ Searching(u)' <=> Searching(u) \/ u = t
                         /\ HoldsSlot(u)' <=> HoldsSlot(u)
                         /\ pc'[u] = "signal" <=> pc[u] = "signal"
                         /\ pc'[u] = "store" <=> pc[u] = "store"
  BY DEF IInv, TypeOK, Searching, HoldsSlot
<1>2. ~Searching(t)
  BY DEF Searching
<1>3. /\ tokens' \in [Roles -> Nat]
      /\ tokens[role(t)] \in Nat /\ tokens[role(t)] > 0
      /\ tokens'[role(t)] = tokens[role(t)] - 1
      /\ tokens'[other(t)] = tokens[other(t)]
  BY RolesOf, SemBufferAssumption DEF IInv, TypeOK
<1>4. TokensMatchSlots'
  <2>1. ASSUME NEW r \in Roles
        PROVE  /\ SlotsFor(r)' = SlotsFor(r)
               /\ SignallingFor(r)' = SignallingFor(r)
               /\ SearchingFor(r)' = IF r = role(t) THEN SearchingFor(r) \cup {t}
                                                    ELSE SearchingFor(r)
    BY <1>1 DEF SlotsFor, SignallingFor, SearchingFor
  <2>2. \A r \in Roles : t \notin SearchingFor(r)
    BY <1>2 DEF SearchingFor
  <2>3. ASSUME NEW r \in Roles
        PROVE  Cardinality(SearchingFor(r)') =
                   IF r = role(t) THEN Cardinality(SearchingFor(r)) + 1
                                  ELSE Cardinality(SearchingFor(r))
    BY <2>1, <2>2, CountsTyped, FS_AddElement
  <2>4. ASSUME NEW r \in Roles
        PROVE  Balanced(r)'
    <3>1. Balanced(r)
      BY TokensByRole DEF IInv
    <3>2. r = role(t) \/ r = other(t)
      BY RolesOf
    <3> HIDE DEF WaitToken
    <3> QED
      BY <1>3, <2>1, <2>3, <3>1, <3>2, CountsTyped, RolesOf DEF Balanced
  <2> QED
    BY <2>4, TokensByRoleNext
<1>5. TypeOK'
  BY <1>3, <1>4, TokensBoundedNext DEF IInv, TypeOK, PCs
<1>6. SlotExclusive'
  BY <1>1 DEF IInv, SlotExclusive, Suits
<1>7. LineInHand' /\ Sent' = Sent
  BY <1>1 DEF IInv, LineInHand, Sent, Searching, Threads, TypeOK
<1> QED
  BY <1>4, <1>5, <1>6, <1>7 DEF IInv, LinesDistinct, LinesSent, Bag!bagVars

(* A slot is filled or emptied: it changes sides, and so does the account  *)
(* of the thread, from those that search to those that signal.             *)
LEMMA SlotChanges ==
  ASSUME IInv, NEW t \in Threads, NEW line \in Lines \cup {NoLine},
         (line = NoLine) <=> t \notin Producers,
         Goes(t, "store", "signal"),
         buffer' = [buffer EXCEPT ![pos[t]] = line],
         slot_locks' = [slot_locks EXCEPT ![pos[t]] = @ + 1],
         UNCHANGED <<tokens, pos>>
  PROVE  /\ TokensMatchSlots' /\ SlotExclusive'
         /\ buffer' \in [SlotIds -> Lines \cup {NoLine}]
         /\ slot_locks' \in [SlotIds -> {0, 1}]
         /\ pc' \in [Threads -> PCs]
<1> USE DEF Goes
<1>1. /\ HoldsSlot(t) /\ Searching(t) /\ slot_locks[pos[t]] = 0
      /\ pos[t] \in SlotIds /\ (buffer[pos[t]] = NoLine <=> t \in Producers)
  BY DEF IInv, SlotExclusive, HoldsSlot, Searching, Suits, TypeOK
<1>2. /\ slot_locks' = [slot_locks EXCEPT ![pos[t]] = 1]
      /\ slot_locks' \in [SlotIds -> {0, 1}]
      /\ buffer' \in [SlotIds -> Lines \cup {NoLine}]
      /\ pc' \in [Threads -> PCs]
  BY <1>1 DEF IInv, TypeOK, PCs
<1>3. \A u \in Threads : /\ u # t => pc'[u] = pc[u]
                         /\ HoldsSlot(u)' <=> HoldsSlot(u) /\ u # t
                         /\ Searching(u)' <=> Searching(u) /\ u # t
                         /\ pc'[u] = "signal" <=> pc[u] = "signal" \/ u = t
                         /\ pc'[u] = "store" <=> pc[u] = "store" /\ u # t
  BY DEF IInv, TypeOK, HoldsSlot, Searching
<1>4. \A u \in Threads : HoldsSlot(u) /\ u # t => pos[u] \in SlotIds /\ pos[u] # pos[t]
  BY <1>1 DEF IInv, SlotExclusive, TypeOK
<1>5. SlotExclusive'
  <2>1. ASSUME NEW u \in Threads, HoldsSlot(u)'
        PROVE  slot_locks'[pos'[u]] = 0
    BY <1>2, <1>3, <1>4, <2>1 DEF IInv, SlotExclusive, TypeOK
  <2>2. ASSUME NEW u \in Threads, NEW v \in Threads,
               HoldsSlot(u)', HoldsSlot(v)', pos'[u] = pos'[v]
        PROVE  u = v
    BY <1>3, <2>2 DEF IInv, SlotExclusive
  <2>3. ASSUME NEW u \in Threads, pc'[u] = "store" PROVE Suits(u)'
    <3>1. pc[u] = "store" /\ u # t /\ HoldsSlot(u)
      BY <1>3, <2>3 DEF HoldsSlot
    <3>2. buffer'[pos[u]] = buffer[pos[u]]
      BY <1>4, <3>1 DEF IInv, TypeOK
    <3> QED
      BY <3>1, <3>2 DEF IInv, SlotExclusive, Suits
  <2> QED
    BY <2>1, <2>2, <2>3 DEF SlotExclusive
<1>6. ASSUME NEW r \in Roles PROVE Balanced(r)'
  <2>1. /\ r = role(t) => /\ pos[t] \in SlotsFor(r) /\ t \in SearchingFor(r)
                          /\ SlotsFor(r)' = SlotsFor(r) \ {pos[t]}
                          /\ SearchingFor(r)' = SearchingFor(r) \ {t}
                          /\ SignallingFor(r)' = SignallingFor(r)
        /\ r = other(t) => /\ pos[t] \notin SlotsFor(r) /\ t \notin SignallingFor(r)
                           /\ SlotsFor(r)' = SlotsFor(r) \cup {pos[t]}
                           /\ SearchingFor(r)' = SearchingFor(r)
                           /\ SignallingFor(r)' = SignallingFor(r) \cup {t}
    <3>1. /\ SlotsFor(r)' = IF r = role(t) THEN SlotsFor(r) \ {pos[t]}
                                           ELSE SlotsFor(r) \cup {pos[t]}
          /\ pos[t] \in SlotsFor(r) <=> r = role(t)
      <4>1. \A i \in SlotIds : i # pos[t] => buffer'[i] = buffer[i]
        BY <1>1 DEF IInv, TypeOK
      <4>2. buffer'[pos[t]] = NoLine <=> t \notin Producers
        BY <1>1 DEF IInv, TypeOK
      <4> QED
        BY <1>1, <4>1, <4>2 DEF SlotsFor, role, Roles
    <3>2. /\ SearchingFor(r)' = SearchingFor(r) \ {t}
          /\ t \in SearchingFor(r) <=> r = role(t)
      BY <1>1, <1>3 DEF SearchingFor
    <3>3. /\ SignallingFor(r)' = IF r = other(t) THEN SignallingFor(r) \cup {t}
                                                 ELSE SignallingFor(r)
          /\ t \notin SignallingFor(r)
      BY <1>3 DEF SignallingFor
    <3> QED
      BY <3>1, <3>2, <3>3, RolesOf
  <2>2. Balanced(r)
    BY TokensByRole DEF IInv
  <2>3. tokens'[r] = tokens[r] /\ tokens[r] \in Nat
    BY SemBufferAssumption DEF IInv, TypeOK
  <2>4. CASE r = role(t)
    <3>1. Cardinality(SlotsFor(r)') = Cardinality(SlotsFor(r)) - 1
      BY <2>1, <2>4, CountsTyped, FS_RemoveElement
    <3>2. Cardinality(SearchingFor(r)') = Cardinality(SearchingFor(r)) - 1
      BY <2>1, <2>4, CountsTyped, FS_RemoveElement
    <3>3. SignallingFor(r)' = SignallingFor(r)
      BY <2>1, <2>4
    <3> QED
      BY <2>2, <2>3, <3>1, <3>2, <3>3, CountsTyped, SemBufferAssumption DEF Balanced
  <2>5. CASE r = other(t)
    <3>0. /\ pos[t] \notin SlotsFor(r) /\ SlotsFor(r)' = SlotsFor(r) \cup {pos[t]}
          /\ t \notin SignallingFor(r) /\ SignallingFor(r)' = SignallingFor(r) \cup {t}
          /\ IsFiniteSet(SlotsFor(r)) /\ IsFiniteSet(SignallingFor(r))
      BY <2>1, <2>5, CountsTyped
    <3>1. Cardinality(SlotsFor(r)') = Cardinality(SlotsFor(r)) + 1
      BY <3>0, FS_AddElement
    <3>2. Cardinality(SignallingFor(r)') = Cardinality(SignallingFor(r)) + 1
      BY <3>0, FS_AddElement
    <3>3. SearchingFor(r)' = SearchingFor(r)
      BY <2>1, <2>5
    <3> QED
      BY <2>2, <2>3, <3>1, <3>2, <3>3, CountsTyped, SemBufferAssumption DEF Balanced
  <2> QED
    BY <2>4, <2>5, RolesOf
<1> QED
  BY <1>2, <1>5, <1>6, TokensByRoleNext

(* The thread gives the token for the slot it filled or emptied.           *)
LEMMA SignalStep ==
  ASSUME IInv, NEW t \in Threads, SignalOther(t)
  PROVE  IInv' /\ UNCHANGED Bag!bagVars
<1> USE DEF SignalOther, Goes
<1>1. \A u \in Threads : /\ u # t => pc'[u] = pc[u]
                         /\ Searching(u)' <=> Searching(u)
                         /\ HoldsSlot(u)' <=> HoldsSlot(u)
                         /\ pc'[u] = "signal" <=> pc[u] = "signal" /\ u # t
                         /\ pc'[u] = "store" <=> pc[u] = "store"
  BY DEF IInv, TypeOK, Searching, HoldsSlot
<1>2. /\ tokens' \in [Roles -> Nat]
      /\ tokens[other(t)] \in Nat /\ tokens'[other(t)] = tokens[other(t)] + 1
      /\ tokens'[role(t)] = tokens[role(t)]
  BY RolesOf, SemBufferAssumption DEF IInv, TypeOK
<1>3. ASSUME NEW r \in Roles PROVE Balanced(r)'
  <2>1. /\ SlotsFor(r)' = SlotsFor(r)
        /\ SearchingFor(r)' = SearchingFor(r)
        /\ SignallingFor(r)' = SignallingFor(r) \ {t}
        /\ t \in SignallingFor(r) <=> r = other(t)
    BY <1>1 DEF SlotsFor, SignallingFor, SearchingFor
  <2>2. Cardinality(SignallingFor(r)') =
            IF r = other(t) THEN Cardinality(SignallingFor(r)) - 1
                            ELSE Cardinality(SignallingFor(r))
    BY <2>1, CountsTyped, FS_RemoveElement
  <2>3. Balanced(r)
    BY TokensByRole DEF IInv
  <2>4. r = role(t) \/ r = other(t)
    BY RolesOf
  <2>5. tokens[role(t)] \in Nat
    BY RolesOf, SemBufferAssumption DEF IInv, TypeOK
  <2> HIDE DEF SignalOther
  <2> QED
    BY <1>2, <2>1, <2>2, <2>3, <2>4, <2>5, CountsTyped, RolesOf DEF Balanced
<1>4. TokensMatchSlots'
  BY <1>3, TokensByRoleNext
<1>5. TypeOK'
  BY <1>2, <1>4, TokensBoundedNext DEF IInv, TypeOK, PCs
<1>6. SlotExclusive'
  BY <1>1 DEF IInv, SlotExclusive, Suits
<1>7. LineInHand' /\ Sent' = Sent
  BY <1>1 DEF IInv, LineInHand, Sent, Searching, Threads, TypeOK
<1> QED
  BY <1>4, <1>5, <1>6, <1>7 DEF IInv, LinesDistinct, LinesSent, Bag!bagVars
-----------------------------------------------------------------------------
(* A buffer with an empty slot has room for a line.                        *)
LEMMA RoomForOne ==
  ASSUME NEW i \in SlotIds, buffer[i] = NoLine
  PROVE  Cardinality(InBuffer) < Slots
<1> DEFINE filled == SlotsFor("read")
           f == [j \in filled |-> buffer[j]]
<1>1. IsFiniteSet(SlotIds) /\ Cardinality(SlotIds) = Slots
  BY FS_Interval, SemBufferAssumption DEF SlotIds
<1>2. filled \in SUBSET SlotIds /\ filled # SlotIds
  BY DEF SlotsFor
<1>3. IsFiniteSet(filled) /\ Cardinality(filled) \in Nat /\ Cardinality(filled) < Slots
  <2>1. IsFiniteSet(filled) /\ Cardinality(filled) <= Slots /\ Cardinality(filled) # Slots
    BY <1>1, <1>2, FS_Subset
  <2> QED
    BY <2>1, FS_CardinalityType, SemBufferAssumption
<1>4. f \in Surjection(filled, InBuffer)
  <2>1. f \in [filled -> InBuffer]
    BY DEF SlotsFor, InBuffer
  <2>2. \A line \in InBuffer : \E j \in filled : f[j] = line
    BY DEF SlotsFor, InBuffer
  <2> QED
    BY <2>1, <2>2 DEF Surjection
<1>5. IsFiniteSet(InBuffer) /\ Cardinality(InBuffer) <= Cardinality(filled)
  BY <1>3, <1>4, FS_Surjection
<1> QED
  BY <1>3, <1>5, FS_CardinalityType, SemBufferAssumption

(* LineBag counts with the same Cardinality.                               *)
LEMMA SameCardinality == \A S : Bag!Cardinality(S) = Cardinality(S)
BY DEF Bag!Cardinality, Cardinality

(* A line put into an empty slot under the slot's semaphore: LineBag's Put.*)
LEMMA WriteLineStep ==
  ASSUME IInv, NEW p \in Producers, WriteLine(p)
  PROVE  IInv' /\ Bag!Put(p)
<1> USE DEF WriteLine, Goes
<1> DEFINE line == <<p, at[p]>>
<1>1. /\ p \in Threads /\ pos[p] \in SlotIds /\ buffer[pos[p]] = NoLine
      /\ Searching(p) /\ pc[p] = "store"
  BY DEF Threads, IInv, TypeOK, SlotExclusive, Suits, Searching
<1>2. line \in Lines /\ line # NoLine /\ line[1] = p /\ line[2] = at[p] /\ at[p] \in Nat
  <2>1. at[p] \in 1..Len(LineLengths)
    BY <1>1, FileLength DEF IInv, TypeOK, LineInHand
  <2> QED
    BY <2>1, NoLineIsNone, FileLength DEF Lines, FileLines
<1>3. /\ TokensMatchSlots' /\ SlotExclusive'
      /\ buffer' \in [SlotIds -> Lines \cup {NoLine}]
      /\ slot_locks' \in [SlotIds -> {0, 1}]
      /\ pc' \in [Threads -> PCs]
  BY <1>1, <1>2, SlotChanges
<1>4. TypeOK'
  BY <1>3 DEF IInv, TypeOK
<1>5. \A q \in Producers : /\ q # p => pc'[q] = pc[q]
                           /\ pc'[p] = "signal"
  BY <1>1 DEF IInv, TypeOK
<1>6. LineInHand'
  BY <1>5 DEF IInv, LineInHand, Searching
<1>7. /\ Sent[p] = at[p] - 1 /\ Sent'[p] = at[p]
      /\ \A q \in Producers \ {p} : Sent'[q] = Sent[q]
      /\ Sent' = [Sent EXCEPT ![p] = @ + 1]
  <2>1. Sent[p] = at[p] - 1 /\ Sent'[p] = at[p]
    BY <1>1, <1>5 DEF Sent, Searching
  <2>2. \A q \in Producers \ {p} : Sent'[q] = Sent[q]
    BY <1>5 DEF Sent, Searching
  <2>3. Sent'[p] = Sent[p] + 1
    BY <1>2, <2>1
  <2> QED
    BY <2>1, <2>2, <2>3 DEF Sent
<1>8. \A i \in SlotIds : /\ i # pos[p] => buffer'[i] = buffer[i]
                         /\ buffer'[pos[p]] = line
                         /\ buffer[i] # NoLine => buffer[i] \in Lines
                         /\ buffer[i] # line
  <2>1. \A i \in SlotIds : /\ i # pos[p] => buffer'[i] = buffer[i]
                           /\ buffer'[pos[p]] = line
                           /\ buffer[i] # NoLine => buffer[i] \in Lines
    BY <1>1 DEF IInv, TypeOK
  <2>2. ASSUME NEW i \in SlotIds PROVE buffer[i] # line
    <3> SUFFICES ASSUME buffer[i] = line PROVE FALSE
      OBVIOUS
    <3>1. at[p] <= Sent[p]
      BY <1>2 DEF IInv, LinesSent
    <3> QED
      BY <1>2, <1>7, <3>1
  <2> QED
    BY <2>1, <2>2
<1>9. LinesDistinct'
  BY <1>8 DEF IInv, LinesDistinct
<1>10. LinesSent'
  <2> SUFFICES ASSUME NEW i \in SlotIds, buffer'[i] # NoLine
               PROVE  buffer'[i][2] <= Sent'[buffer'[i][1]]
    BY DEF LinesSent
  <2>1. CASE i = pos[p]
    BY <1>2, <1>7, <1>8, <2>1
  <2>2. CASE i # pos[p]
    <3>1. /\ buffer'[i] = buffer[i] /\ buffer[i][1] \in Producers
          /\ buffer[i][2] <= Sent[buffer[i][1]] /\ buffer[i][2] \in Nat
      BY <1>8, <2>2, FileLength DEF Lines, FileLines, IInv, LinesSent
    <3> QED
      BY <1>2, <1>7, <3>1
  <2> QED
    BY <2>1, <2>2
<1>11. Bag!Put(p)
  <2>1. Sent[p] < Len(LineLengths)
    BY <1>2, <1>7, FileLength DEF Lines, FileLines
  <2>2. Cardinality(InBuffer) < Slots
    BY <1>1, RoomForOne
  <2>3. InBuffer' = InBuffer \cup {<<p, Sent[p] + 1>>}
    <3>1. Sent[p] + 1 = at[p]
      BY <1>2, <1>7
    <3> QED
      BY <1>1, <1>2, <1>8, <3>1 DEF InBuffer
  <2>4. UNCHANGED printed
    OBVIOUS
  <2> HIDE DEF WriteLine
  <2> QED
    BY <1>7, <2>1, <2>2, <2>3, <2>4, SameCardinality DEF Bag!Put, InBuffer
<1> QED
  BY <1>3, <1>4, <1>6, <1>9, <1>10, <1>11 DEF IInv

(* A line printed and its slot emptied: LineBag's Take.                    *)
LEMMA ConsumeLineStep ==
  ASSUME IInv, NEW c \in Consumers, ConsumeLine(c)
  PROVE  IInv' /\ \E line \in InBuffer : Bag!Take(line)
<1> USE DEF ConsumeLine, Goes
<1> DEFINE line == buffer[pos[c]]
<1>1. /\ c \in Threads /\ c \notin Producers /\ pos[c] \in SlotIds
      /\ line # NoLine /\ line \in Lines /\ pc[c] = "store"
  BY SemBufferAssumption DEF Threads, IInv, TypeOK, SlotExclusive, Suits
<1>2. /\ TokensMatchSlots' /\ SlotExclusive'
      /\ buffer' \in [SlotIds -> Lines \cup {NoLine}]
      /\ slot_locks' \in [SlotIds -> {0, 1}]
      /\ pc' \in [Threads -> PCs]
  BY <1>1, SlotChanges
<1>3. TypeOK'
  <2>1. printed' \in Seq(Lines)
    BY <1>1 DEF IInv, TypeOK
  <2> QED
    BY <1>2, <2>1 DEF IInv, TypeOK
<1>4. \A q \in Producers : pc'[q] = pc[q]
  BY <1>1 DEF IInv, TypeOK, Threads
<1>5. LineInHand' /\ Sent' = Sent
  BY <1>4 DEF IInv, LineInHand, Sent, Searching
<1>6. \A i \in SlotIds : /\ i # pos[c] => buffer'[i] = buffer[i]
                         /\ buffer'[pos[c]] = NoLine
  BY <1>1 DEF IInv, TypeOK
<1>7. LinesDistinct' /\ LinesSent'
  BY <1>5, <1>6 DEF IInv, LinesDistinct, LinesSent
<1>8. line \in InBuffer /\ InBuffer' = InBuffer \ {line}
  BY <1>1, <1>6 DEF InBuffer, IInv, LinesDistinct
<1>9. \E l \in InBuffer : Bag!Take(l)
  <2>1. printed' = IF matching(line) THEN Append(printed, line) ELSE printed
    OBVIOUS
  <2>2. PICK l \in InBuffer : l = line
    BY <1>8
  <2>3. Bag!matching(l) <=> matching(l)
    BY DEF Bag!matching, matching
  <2> HIDE DEF ConsumeLine, line
  <2> QED
    BY <1>5, <1>8, <2>1, <2>2, <2>3 DEF Bag!Take, InBuffer
<1> HIDE DEF ConsumeLine, line
<1> QED
  BY <1>2, <1>3, <1>5, <1>7, <1>8, <1>9 DEF IInv

LEMMA NextStep ==
  ASSUME IInv, [Next]_vars
  PROVE  IInv' /\ [Bag!BagNext]_(Bag!bagVars)
<1>1. ASSUME NEW p \in Producers, produce(p)
      PROVE  IInv' /\ [Bag!BagNext]_(Bag!bagVars)
  BY <1>1, LoopStep, SlotStep, WaitTokenStep, SignalStep, WriteLineStep
     DEF produce, Search, Threads, Bag!BagNext
<1>2. ASSUME NEW c \in Consumers, consume(c)
      PROVE  IInv' /\ [Bag!BagNext]_(Bag!bagVars)
  BY <1>2, LoopStep, SlotStep, WaitTokenStep, SignalStep, ConsumeLineStep
     DEF consume, Search, Threads, Bag!BagNext, InBuffer
<1>3. CASE UNCHANGED vars
  <2> USE <1>3 DEF vars
  <2>1. TypeOK' /\ SlotExclusive' /\ LineInHand' /\ Sent' = Sent
    BY DEF IInv, TypeOK, SlotExclusive, HoldsSlot, Suits, LineInHand, Searching, Sent
  <2> QED
    BY <2>1, QuietStep DEF Searching
<1> QED
  BY <1>1, <1>2, <1>3 DEF Next, Joining

(* The invariant of the buffer holds in every reachable state.             *)
LEMMA SemBufferInvariant == Spec => []IInv
<1>1. IInv /\ [Next]_vars => IInv'
  BY NextStep
<1> QED
  BY InitIInv, <1>1, PTL DEF Spec

(* Every variable keeps its type: no semaphore of zad2 ever counts above   *)
(* the number of slots and no slot's semaphore above one, so no sem_post   *)
(* is one too many.                                                        *)
THEOREM SemBufferTypeCorrect == Spec => []TypeOK
<1>1. IInv => TypeOK
  BY DEF IInv
<1> QED
  BY SemBufferInvariant, <1>1, PTL

(* A slot's semaphore is a lock, and whoever claims a slot finds it as it  *)
(* needs it until it fills or empties it.                                  *)
THEOREM SemBufferSlotExclusive == Spec => []SlotExclusive
<1>1. IInv => SlotExclusive
  BY DEF IInv
<1> QED
  BY SemBufferInvariant, <1>1, PTL

(* free_slots and filled_slots account for the slots.                      *)
THEOREM SemBufferTokensMatchSlots == Spec => []TokensMatchSlots
<1>1. IInv => TokensMatchSlots
  BY DEF IInv
<1> QED
  BY SemBufferInvariant, <1>1, PTL

(* The ring implements the bounded bag: no line is lost or repeated,       *)
(* whichever positions the threads read without a lock.                    *)
THEOREM SemBufferImplementsBag == Spec => ImplementsBag
<1>1. Init => Bag!BagInit
  <2> SUFFICES ASSUME Init PROVE Bag!BagInit
    OBVIOUS
  <2>1. {buffer[i] : i \in SlotIds} \ {NoLine} = {}
    BY DEF Init
  <2>2. Sent = [p \in Producers |-> 0]
    BY DEF Init, Sent, Searching, Threads
  <2> QED
    BY <2>1, <2>2 DEF Init, Bag!BagInit
<1>2. IInv /\ [Next]_vars => [Bag!BagNext]_(Bag!bagVars)
  BY NextStep
<1> QED
  BY <1>1, <1>2, SemBufferInvariant, PTL DEF Spec, ImplementsBag, Bag!BagSpec
=============================================================================

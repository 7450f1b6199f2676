------------------------ MODULE SleepingBarberProofs ------------------------
(* Proofs about SleepingBarber, for every set of clients, every number of  *)
(* chairs and haircuts, and any naming of the client semaphores without    *)
(* clashes.                                                                *)
EXTENDS SleepingBarber, SequenceTheorems, TLAPS

USE ClientsAssumption, ParamAssumption, KeyAssumption

LEMMA InitIInv == Init => IInv
<1> SUFFICES ASSUME Init PROVE IInv
    OBVIOUS
<1> USE DEF Init
<1>0. Waiting = {} /\ Called = {} /\ Leaving = {}
  BY DEF Waiting, Called, Leaving, Queued
<1>1. TypeOK
  BY DEF TypeOK, BarberPCs, ClientPCs, BarberStates, NoClient, Sems, Handles
<1>2. MutualExclusion
  BY DEF MutualExclusion, LockExclusive, BarberHolds, ClientHolds, Sems
<1>3. NoLostWakeup /\ PeekStillTrue
  BY DEF NoLostWakeup, PeekStillTrue
<1>4. QueueSound
  BY <1>0 DEF QueueSound
<1>5. OneInCare /\ ChairOccupied
  BY <1>0 DEF OneInCare, ChairOccupied, InCare, NoClient
<1>6. ClientPhase
  BY <1>0 DEF ClientPhase, InCare, Queued
<1>7. BarberPhase
  BY DEF BarberPhase
<1>8. Tokens /\ Invitations
  BY <1>0 DEF Tokens, Invitations, InCare, Sems
<1>9. HandlesValid
  BY DEF HandlesValid
<1> QED
  BY <1>1, <1>2, <1>3, <1>4, <1>5, <1>6, <1>7, <1>8, <1>9 DEF IInv

(* What a semaphore operation does while the shared set exists.            *)
LEMMA SignalEffect ==
  ASSUME TypeOK, HandlesValid, NEW s \in Sems, Signal(s)
  PROVE  /\ sem' \in [Sems -> Nat]
         /\ sem'[s] = sem[s] + 1
         /\ \A t \in Sems : t # s => sem'[t] = sem[t]
BY DEF TypeOK, HandlesValid, Signal

LEMMA WaitEffect ==
  ASSUME TypeOK, HandlesValid, NEW s \in Sems, Wait(s)
  PROVE  /\ sem' \in [Sems -> Nat]
         /\ sem[s] > 0 /\ sem'[s] = sem[s] - 1
         /\ \A t \in Sems : t # s => sem'[t] = sem[t]
BY DEF TypeOK, HandlesValid, Wait

(* Taking the first element of a duplicate-free sequence, adding a new one. *)
LEMMA TailFacts ==
  ASSUME NEW S, NEW q \in Seq(S), q # <<>>,
         \A i, j \in 1..Len(q) : q[i] = q[j] => i = j
  PROVE  /\ Head(q) \in S /\ Tail(q) \in Seq(S) /\ Len(Tail(q)) = Len(q) - 1
         /\ Head(q) \in {q[i] : i \in 1..Len(q)}
         /\ {Tail(q)[i] : i \in 1..Len(Tail(q))} =
                {q[i] : i \in 1..Len(q)} \ {Head(q)}
         /\ \A i, j \in 1..Len(Tail(q)) : Tail(q)[i] = Tail(q)[j] => i = j
<1>1. /\ Head(q) = q[1] /\ Tail(q) \in Seq(S) /\ Len(q) \in Nat /\ Len(q) > 0
      /\ Len(Tail(q)) = Len(q) - 1
      /\ \A i \in 1..Len(Tail(q)) : Tail(q)[i] = q[i + 1]
      /\ \A i \in 1..Len(q) : q[i] \in S
  BY HeadTailProperties, ElementOfSeq, LenProperties, EmptySeq
<1>2. ASSUME NEW x \in {q[i] : i \in 1..Len(q)} \ {Head(q)}
      PROVE  x \in {Tail(q)[i] : i \in 1..Len(Tail(q))}
  <2>1. PICK i \in 1..Len(q) : x = q[i] /\ i # 1
    BY <1>1
  <2>2. i - 1 \in 1..Len(Tail(q)) /\ x = Tail(q)[i - 1]
    BY <1>1, <2>1
  <2> QED
    BY <2>2
<1>3. ASSUME NEW x \in {Tail(q)[i] : i \in 1..Len(Tail(q))}
      PROVE  x \in {q[i] : i \in 1..Len(q)} \ {Head(q)}
  <2>1. PICK i \in 1..Len(Tail(q)) : x = Tail(q)[i]
    BY <1>3
  <2>2. i + 1 \in 1..Len(q) /\ x = q[i + 1] /\ 1 \in 1..Len(q) /\ i + 1 # 1
    BY <1>1, <2>1
  <2>3. x # Head(q)
    BY <1>1, <2>2
  <2> QED
    BY <2>2, <2>3
<1>4. \A i, j \in 1..Len(Tail(q)) : Tail(q)[i] = Tail(q)[j] => i = j
  <2> SUFFICES ASSUME NEW i \in 1..Len(Tail(q)), NEW j \in 1..Len(Tail(q)),
                      Tail(q)[i] = Tail(q)[j]
               PROVE  i = j
    OBVIOUS
  <2>1. i + 1 \in 1..Len(q) /\ j + 1 \in 1..Len(q) /\ q[i + 1] = q[j + 1]
    BY <1>1
  <2> QED
    BY <2>1
<1>5. Head(q) \in S /\ Head(q) \in {q[i] : i \in 1..Len(q)}
  BY <1>1
<1> QED
  BY <1>1, <1>2, <1>3, <1>4, <1>5

LEMMA AppendFacts ==
  ASSUME NEW S, NEW q \in Seq(S), NEW e \in S, e \notin {q[i] : i \in 1..Len(q)},
         \A i, j \in 1..Len(q) : q[i] = q[j] => i = j
  PROVE  LET r == Append(q, e)
         IN  /\ r \in Seq(S) /\ Len(r) = Len(q) + 1 /\ r # <<>>
             /\ {r[i] : i \in 1..Len(r)} = {q[i] : i \in 1..Len(q)} \cup {e}
             /\ \A i, j \in 1..Len(r) : r[i] = r[j] => i = j
<1> DEFINE r == Append(q, e)
<1>1. /\ r \in Seq(S) /\ Len(q) \in Nat /\ Len(r) = Len(q) + 1 /\ r # <<>>
      /\ \A i \in 1..Len(q) : r[i] = q[i]
      /\ r[Len(q) + 1] = e
  BY AppendProperties, LenProperties
<1> HIDE DEF r
<1>2. {r[i] : i \in 1..Len(r)} = {q[i] : i \in 1..Len(q)} \cup {e}
  <2>1. ASSUME NEW x \in {r[i] : i \in 1..Len(r)}
        PROVE  x \in {q[i] : i \in 1..Len(q)} \cup {e}
    <3>1. PICK i \in 1..Len(r) : x = r[i]
      BY <2>1
    <3>2. i = Len(q) + 1 \/ i \in 1..Len(q)
      BY <1>1, <3>1
    <3> QED
      BY <1>1, <3>1, <3>2
  <2>2. ASSUME NEW x \in {q[i] : i \in 1..Len(q)} \cup {e}
        PROVE  x \in {r[i] : i \in 1..Len(r)}
    <3>1. CASE x = e
      <4>1. Len(q) + 1 \in 1..Len(r)
        BY <1>1
      <4> QED
        BY <1>1, <3>1, <4>1
    <3>2. CASE x # e
      <4>1. PICK i \in 1..Len(q) : x = q[i]
        BY <2>2, <3>2
      <4>2. i \in 1..Len(r) /\ r[i] = x
        BY <1>1, <4>1
      <4> QED
        BY <4>2
    <3> QED
      BY <3>1, <3>2
  <2> QED
    BY <2>1, <2>2
<1>3. \A i, j \in 1..Len(r) : r[i] = r[j] => i = j
  <2> SUFFICES ASSUME NEW i \in 1..Len(r), NEW j \in 1..Len(r), r[i] = r[j]
               PROVE  i = j
    OBVIOUS
  <2>1. /\ i \in 1..Len(q) \/ i = Len(q) + 1
        /\ j \in 1..Len(q) \/ j = Len(q) + 1
    BY <1>1
  <2>2. \A k \in 1..Len(q) : r[k] # e
    BY <1>1
  <2> QED
    BY <1>1, <2>1, <2>2
<1> QED
  BY <1>1, <1>2, <1>3 DEF r

LEMMA BarberSleepStep ==
  ASSUME IInv, DistinctKeys, BarberSleep
  PROVE  IInv' /\ [Shop!ShopNext]_(Shop!shopVars)
<1>1. CASE BarberSignal("sleep", "SLEEPING", "BARBER_STATE_LOCK", "wait_customer")
  <2> USE <1>1 DEF BarberSignal, BarberAt, clientVars, IInv
  <2>q. Waiting' = Waiting /\ queue' = queue
    BY DEF Waiting
  <2>c. Called' = Called /\ Leaving' = Leaving
    BY <2>q DEF Called, Leaving, Queued
  <2>s. /\ sem' \in [Sems -> Nat]
        /\ sem'["BARBER_STATE_LOCK"] = sem["BARBER_STATE_LOCK"] + 1
        /\ \A t \in Sems : t # "BARBER_STATE_LOCK" => sem'[t] = sem[t]
    BY SignalEffect DEF Sems
  <2>1. TypeOK' /\ MutualExclusion' /\ PeekStillTrue' /\ QueueSound' /\
      OneInCare' /\ ChairOccupied' /\ BarberPhase' /\ Invitations' /\
      HandlesValid'
    BY <2>q, <2>c, <2>s, SMTT(40) DEF TypeOK, Sems, BarberPCs, ClientPCs, BarberStates,
        Handles, NoClient, MutualExclusion, LockExclusive, BarberHolds,
        ClientHolds, PeekStillTrue, QueueSound, Queued, OneInCare, InCare,
        ChairOccupied, BarberPhase, Settled, Invitations, HandlesValid
  <2>2. NoLostWakeup'
    BY <2>q, <2>c, <2>s DEF NoLostWakeup, MutualExclusion, LockExclusive,
        BarberHolds, ClientHolds, PeekStillTrue, ClientPhase, InCare, Called,
        Leaving, Queued, AwaitsSeat, TypeOK
  <2>3. ClientPhase'
    BY <2>q, <2>c, <2>s DEF ClientPhase, BarberPhase, Tokens, HandlesValid,
        OneInCare, InCare, Called, Leaving, Queued, TypeOK, AwaitsSeat, Settled,
        Sems, NoLostWakeup, MutualExclusion, LockExclusive, BarberHolds,
        ClientHolds, ChairOccupied
  <2>4. Tokens'
    BY <2>q, <2>c, <2>s DEF Tokens, ClientPhase, BarberPhase, OneInCare, InCare,
        Called, Leaving, Queued, TypeOK, AwaitsSeat, Settled, Sems,
        HandlesValid, NoLostWakeup, ChairOccupied, MutualExclusion,
        LockExclusive, BarberHolds, ClientHolds, DistinctKeys, Keys
  <2>5. Shop!Doze
    <3>1. Called = {} /\ queue = <<>> /\ b_state # "SLEEPING"
      BY DEF ClientPhase, BarberPhase, PeekStillTrue, Called, Queued, AwaitsSeat
    <3> QED
      BY <2>q, <2>c, <3>1 DEF Shop!Doze
  <2> QED
    BY <2>1, <2>2, <2>3, <2>4, <2>5 DEF Shop!ShopNext
<1>2. CASE BarberWait("wait_customer", "CUSTOMER_AVAIL", "wait_woken_seated")
  <2> USE <1>2 DEF BarberWait, BarberAt, clientVars, shop, IInv
  <2>q. Waiting' = Waiting /\ queue' = queue
    BY DEF Waiting
  <2>c. Called' = Called /\ Leaving' = Leaving
    BY <2>q DEF Called, Leaving, Queued
  <2>s. /\ sem' \in [Sems -> Nat]
        /\ sem["CUSTOMER_AVAIL"] > 0 /\ sem'["CUSTOMER_AVAIL"] = sem["CUSTOMER_AVAIL"] - 1
        /\ \A t \in Sems : t # "CUSTOMER_AVAIL" => sem'[t] = sem[t]
    BY WaitEffect DEF Sems
  <2>1. TypeOK' /\ MutualExclusion' /\ NoLostWakeup' /\ PeekStillTrue' /\
      QueueSound' /\ OneInCare' /\ ChairOccupied' /\ ClientPhase' /\ Tokens' /\
      Invitations' /\ HandlesValid'
    BY <2>q, <2>c, <2>s, SMTT(40) DEF TypeOK, Sems, BarberPCs, ClientPCs, BarberStates,
        Handles, NoClient, MutualExclusion, LockExclusive, BarberHolds,
        ClientHolds, NoLostWakeup, PeekStillTrue, QueueSound, Queued, OneInCare,
        InCare, ChairOccupied, ClientPhase, AwaitsSeat, Tokens, Settled,
        Invitations, HandlesValid
  <2>2. BarberPhase'
    BY <2>q, <2>c, <2>s DEF BarberPhase, ClientPhase, Tokens, OneInCare, InCare,
        Called, Leaving, Queued, TypeOK, AwaitsSeat, Settled, Sems,
        HandlesValid, MutualExclusion, LockExclusive, BarberHolds, ClientHolds,
        ChairOccupied
  <2>3. UNCHANGED Shop!shopVars
    BY <2>q, <2>c DEF Shop!shopVars, semVars, BarberPhase
  <2> QED
    BY <2>1, <2>2, <2>3
<1>3. CASE BarberWait("wait_woken_seated", "CURRENT_SEATED", "lock_after_sleep")
  <2> USE <1>3 DEF BarberWait, BarberAt, clientVars, shop, IInv
  <2>q. Waiting' = Waiting /\ queue' = queue
    BY DEF Waiting
  <2>c. Called' = Called /\ Leaving' = Leaving
    BY <2>q DEF Called, Leaving, Queued
  <2>s. /\ sem' \in [Sems -> Nat]
        /\ sem["CURRENT_SEATED"] > 0 /\ sem'["CURRENT_SEATED"] = sem["CURRENT_SEATED"] - 1
        /\ \A t \in Sems : t # "CURRENT_SEATED" => sem'[t] = sem[t]
    BY WaitEffect DEF Sems
  <2>1. TypeOK' /\ MutualExclusion' /\ NoLostWakeup' /\ PeekStillTrue' /\
      QueueSound' /\ OneInCare' /\ ChairOccupied' /\ Tokens' /\ Invitations' /\
      HandlesValid'
    BY <2>q, <2>c, <2>s, SMTT(40) DEF TypeOK, Sems, BarberPCs, ClientPCs, BarberStates,
        Handles, NoClient, MutualExclusion, LockExclusive, BarberHolds,
        ClientHolds, NoLostWakeup, PeekStillTrue, QueueSound, Queued, OneInCare,
        InCare, ChairOccupied, Tokens, AwaitsSeat, Settled, Invitations,
        HandlesValid
  <2>2. ClientPhase'
    BY <2>q, <2>c, <2>s DEF ClientPhase, BarberPhase, Tokens, HandlesValid,
        OneInCare, InCare, Called, Leaving, Queued, TypeOK, AwaitsSeat, Settled,
        Sems, NoLostWakeup, MutualExclusion, LockExclusive, BarberHolds,
        ClientHolds, ChairOccupied
  <2>3. BarberPhase'
    BY <2>q, <2>c, <2>s DEF BarberPhase, ClientPhase, Tokens, OneInCare, InCare,
        Called, Leaving, Queued, TypeOK, AwaitsSeat, Settled, Sems,
        HandlesValid, MutualExclusion, LockExclusive, BarberHolds, ClientHolds,
        ChairOccupied
  <2>4. UNCHANGED Shop!shopVars
    BY <2>q, <2>c DEF Shop!shopVars, semVars, BarberPhase
  <2> QED
    BY <2>1, <2>2, <2>3, <2>4
<1>4. CASE BarberWait("lock_after_sleep", "BARBER_STATE_LOCK", "cut")
  <2> USE <1>4 DEF BarberWait, BarberAt, clientVars, shop, IInv
  <2>q. Waiting' = Waiting /\ queue' = queue
    BY DEF Waiting
  <2>c. Called' = Called /\ Leaving' = Leaving
    BY <2>q DEF Called, Leaving, Queued
  <2>s. /\ sem' \in [Sems -> Nat]
        /\ sem["BARBER_STATE_LOCK"] > 0 /\ sem'["BARBER_STATE_LOCK"] = sem["BARBER_STATE_LOCK"] - 1
        /\ \A t \in Sems : t # "BARBER_STATE_LOCK" => sem'[t] = sem[t]
    BY WaitEffect DEF Sems
  <2>1. TypeOK'
    BY <2>q, <2>c, <2>s DEF TypeOK, Sems, BarberPCs, ClientPCs, BarberStates,
        Handles, NoClient
  <2>2. MutualExclusion'
    BY <2>q, <2>c, <2>s, SMTT(40) DEF MutualExclusion, LockExclusive, BarberHolds,
        ClientHolds, TypeOK, Sems
  <2>3. NoLostWakeup' /\ PeekStillTrue' /\ OneInCare' /\ BarberPhase' /\
      HandlesValid'
    BY <2>q, <2>c, <2>s DEF NoLostWakeup, PeekStillTrue, OneInCare, InCare,
        BarberPhase, Queued, Settled, TypeOK, HandlesValid
  <2>4. QueueSound' /\ ChairOccupied' /\ Invitations'
    BY <2>q, <2>c, <2>s DEF QueueSound, Queued, TypeOK, ChairOccupied,
        Invitations
  <2>5. ClientPhase'
    BY <2>q, <2>c, <2>s DEF ClientPhase, InCare, Queued, AwaitsSeat, TypeOK,
        Sems
  <2>6. Tokens'
    BY <2>q, <2>c, <2>s DEF Tokens, InCare, AwaitsSeat, Settled, TypeOK, Sems
  <2>7. UNCHANGED Shop!shopVars
    BY <2>q, <2>c DEF Shop!shopVars, semVars, BarberPhase
  <2> QED
    BY <2>1, <2>2, <2>3, <2>4, <2>5, <2>6, <2>7
<1> QED
  BY <1>1, <1>2, <1>3, <1>4 DEF BarberSleep

LEMMA BarberCutStep ==
  ASSUME IInv, DistinctKeys, BarberCut
  PROVE  IInv' /\ [Shop!ShopNext]_(Shop!shopVars)
<1>1. CASE BarberSignal("cut", "CUTTING", "BARBER_STATE_LOCK", "finish")
  <2> USE <1>1 DEF BarberSignal, BarberAt, clientVars, IInv
  <2>q. Waiting' = Waiting /\ queue' = queue
    BY DEF Waiting
  <2>c. Called' = Called /\ Leaving' = Leaving
    BY <2>q DEF Called, Leaving, Queued
  <2>s. /\ sem' \in [Sems -> Nat]
        /\ sem'["BARBER_STATE_LOCK"] = sem["BARBER_STATE_LOCK"] + 1
        /\ \A t \in Sems : t # "BARBER_STATE_LOCK" => sem'[t] = sem[t]
    BY SignalEffect DEF Sems
  <2>1. TypeOK'
    BY <2>q, <2>c, <2>s DEF TypeOK, Sems, BarberPCs, ClientPCs, BarberStates,
        Handles, NoClient
  <2>2. MutualExclusion'
    BY <2>q, <2>c, <2>s DEF MutualExclusion, LockExclusive, BarberHolds,
        ClientHolds, TypeOK, Sems
  <2>3. NoLostWakeup' /\ PeekStillTrue' /\ OneInCare' /\ BarberPhase' /\
      HandlesValid'
    BY <2>q, <2>c, <2>s DEF NoLostWakeup, PeekStillTrue, OneInCare, InCare,
        BarberPhase, Queued, Settled, TypeOK, HandlesValid
  <2>4. QueueSound' /\ ChairOccupied' /\ Invitations'
    BY <2>q, <2>c, <2>s DEF QueueSound, Queued, TypeOK, ChairOccupied,
        Invitations
  <2>5. ClientPhase'
    BY <2>q, <2>c, <2>s DEF ClientPhase, InCare, Queued, AwaitsSeat, TypeOK,
        Sems
  <2>6. Tokens'
    BY <2>q, <2>c, <2>s DEF Tokens, ClientPhase, BarberPhase, OneInCare, InCare,
        Called, Leaving, Queued, TypeOK, AwaitsSeat, Settled, Sems,
        HandlesValid, NoLostWakeup, ChairOccupied, MutualExclusion,
        LockExclusive, BarberHolds, ClientHolds, DistinctKeys, Keys
  <2>7. UNCHANGED Shop!shopVars
    BY <2>q, <2>c DEF Shop!shopVars, semVars, BarberPhase
  <2> QED
    BY <2>1, <2>2, <2>3, <2>4, <2>5, <2>6, <2>7
<1>2. CASE BarberSignal("finish", b_state, "FINISHED", "wait_left")
  <2> USE <1>2 DEF BarberSignal, BarberAt, clientVars, IInv
  <2>q. Waiting' = Waiting /\ queue' = queue
    BY DEF Waiting
  <2>c. Called' = Called /\ Leaving' = Leaving
    BY <2>q DEF Called, Leaving, Queued
  <2>s. /\ sem' \in [Sems -> Nat]
        /\ sem'["FINISHED"] = sem["FINISHED"] + 1
        /\ \A t \in Sems : t # "FINISHED" => sem'[t] = sem[t]
    BY SignalEffect DEF Sems
  <2>1. TypeOK' /\ MutualExclusion' /\ NoLostWakeup' /\ PeekStillTrue' /\
      QueueSound' /\ OneInCare' /\ ChairOccupied' /\ BarberPhase' /\ Tokens' /\
      Invitations' /\ HandlesValid'
    BY <2>q, <2>c, <2>s, SMTT(40) DEF TypeOK, Sems, BarberPCs, ClientPCs, BarberStates,
        Handles, NoClient, MutualExclusion, LockExclusive, BarberHolds,
        ClientHolds, NoLostWakeup, PeekStillTrue, QueueSound, Queued, OneInCare,
        InCare, ChairOccupied, BarberPhase, Settled, Tokens, AwaitsSeat,
        Invitations, HandlesValid
  <2>2. ClientPhase'
    BY <2>q, <2>c, <2>s DEF ClientPhase, BarberPhase, Tokens, HandlesValid,
        OneInCare, InCare, Called, Leaving, Queued, TypeOK, AwaitsSeat, Settled,
        Sems, NoLostWakeup, MutualExclusion, LockExclusive, BarberHolds,
        ClientHolds, ChairOccupied
  <2>3. UNCHANGED Shop!shopVars
    BY <2>q, <2>c DEF Shop!shopVars, semVars, BarberPhase
  <2> QED
    BY <2>1, <2>2, <2>3
<1>3. CASE BarberWait("wait_left", "LEFT", "lock_after_cut")
  <2> USE <1>3 DEF BarberWait, BarberAt, clientVars, shop, IInv
  <2>q. Waiting' = Waiting /\ queue' = queue
    BY DEF Waiting
  <2>c. Called' = Called /\ Leaving' = Leaving
    BY <2>q DEF Called, Leaving, Queued
  <2>s. /\ sem' \in [Sems -> Nat]
        /\ sem["LEFT"] > 0 /\ sem'["LEFT"] = sem["LEFT"] - 1
        /\ \A t \in Sems : t # "LEFT" => sem'[t] = sem[t]
    BY WaitEffect DEF Sems
  <2>1. TypeOK' /\ MutualExclusion' /\ NoLostWakeup' /\ PeekStillTrue' /\
      QueueSound' /\ OneInCare' /\ ChairOccupied' /\ BarberPhase' /\ Tokens' /\
      Invitations' /\ HandlesValid'
    BY <2>q, <2>c, <2>s, SMTT(40) DEF TypeOK, Sems, BarberPCs, ClientPCs, BarberStates,
        Handles, NoClient, MutualExclusion, LockExclusive, BarberHolds,
        ClientHolds, NoLostWakeup, PeekStillTrue, QueueSound, Queued, OneInCare,
        InCare, ChairOccupied, BarberPhase, Settled, Tokens, AwaitsSeat,
        Invitations, HandlesValid
  <2>2. ClientPhase'
    BY <2>q, <2>c, <2>s DEF ClientPhase, BarberPhase, Tokens, HandlesValid,
        OneInCare, InCare, Called, Leaving, Queued, TypeOK, AwaitsSeat, Settled,
        Sems, NoLostWakeup, MutualExclusion, LockExclusive, BarberHolds,
        ClientHolds, ChairOccupied
  <2>3. UNCHANGED Shop!shopVars
    BY <2>q, <2>c DEF Shop!shopVars, semVars, BarberPhase
  <2> QED
    BY <2>1, <2>2, <2>3
<1>4. CASE BarberWait("lock_after_cut", "BARBER_STATE_LOCK", "peek")
  <2> USE <1>4 DEF BarberWait, BarberAt, clientVars, shop, IInv
  <2>q. Waiting' = Waiting /\ queue' = queue
    BY DEF Waiting
  <2>c. Called' = Called /\ Leaving' = Leaving
    BY <2>q DEF Called, Leaving, Queued
  <2>s. /\ sem' \in [Sems -> Nat]
        /\ sem["BARBER_STATE_LOCK"] > 0 /\ sem'["BARBER_STATE_LOCK"] = sem["BARBER_STATE_LOCK"] - 1
        /\ \A t \in Sems : t # "BARBER_STATE_LOCK" => sem'[t] = sem[t]
    BY WaitEffect DEF Sems
  <2>1. TypeOK' /\ MutualExclusion' /\ NoLostWakeup' /\ PeekStillTrue' /\
      QueueSound' /\ OneInCare' /\ ChairOccupied' /\ ClientPhase' /\
      BarberPhase' /\ Tokens' /\ Invitations' /\ HandlesValid'
    BY <2>q, <2>c, <2>s, SMTT(40) DEF TypeOK, Sems, BarberPCs, ClientPCs, BarberStates,
        Handles, NoClient, MutualExclusion, LockExclusive, BarberHolds,
        ClientHolds, NoLostWakeup, PeekStillTrue, QueueSound, Queued, OneInCare,
        InCare, ChairOccupied, ClientPhase, AwaitsSeat, BarberPhase, Settled,
        Tokens, Invitations, HandlesValid
  <2>2. UNCHANGED Shop!shopVars
    BY <2>q, <2>c DEF Shop!shopVars, semVars, BarberPhase
  <2> QED
    BY <2>1, <2>2
<1>5. CASE PeekQueue
  <2> USE <1>5 DEF PeekQueue, clientVars, shop, semVars, IInv
  <2>q. Waiting' = Waiting /\ queue' = queue
    BY DEF Waiting
  <2>c. Called' = Called /\ Leaving' = Leaving
    BY <2>q DEF Called, Leaving, Queued
  <2>1. TypeOK' /\ MutualExclusion' /\ NoLostWakeup' /\ PeekStillTrue' /\
      QueueSound' /\ OneInCare' /\ ChairOccupied' /\ ClientPhase' /\
      BarberPhase' /\ Tokens' /\ Invitations' /\ HandlesValid'
    BY <2>q, <2>c DEF TypeOK, Sems, BarberPCs, ClientPCs, BarberStates, Handles,
        NoClient, MutualExclusion, LockExclusive, BarberHolds, ClientHolds,
        NoLostWakeup, PeekStillTrue, QueueSound, Queued, OneInCare, InCare,
        ChairOccupied, ClientPhase, AwaitsSeat, BarberPhase, Settled, Tokens,
        Invitations, HandlesValid
  <2>2. UNCHANGED Shop!shopVars
    BY <2>q, <2>c DEF Shop!shopVars, semVars, BarberPhase
  <2> QED
    BY <2>1, <2>2
<1> QED
  BY <1>1, <1>2, <1>3, <1>4, <1>5 DEF BarberCut

LEMMA BarberInviteStep ==
  ASSUME IInv, DistinctKeys, BarberInvite
  PROVE  IInv' /\ [Shop!ShopNext]_(Shop!shopVars)
<1>1. CASE BarberSignal("invite", "INVITING", "BARBER_STATE_LOCK", "lock_queue")
  <2> USE <1>1 DEF BarberSignal, BarberAt, clientVars, IInv
  <2>q. Waiting' = Waiting /\ queue' = queue
    BY DEF Waiting
  <2>c. Called' = Called /\ Leaving' = Leaving
    BY <2>q DEF Called, Leaving, Queued
  <2>s. /\ sem' \in [Sems -> Nat]
        /\ sem'["BARBER_STATE_LOCK"] = sem["BARBER_STATE_LOCK"] + 1
        /\ \A t \in Sems : t # "BARBER_STATE_LOCK" => sem'[t] = sem[t]
    BY SignalEffect DEF Sems
  <2>1. TypeOK' /\ MutualExclusion' /\ NoLostWakeup' /\ PeekStillTrue' /\
      QueueSound' /\ OneInCare' /\ ChairOccupied' /\ ClientPhase' /\
      BarberPhase' /\ Invitations' /\ HandlesValid'
    BY <2>q, <2>c, <2>s, SMTT(40) DEF TypeOK, Sems, BarberPCs, ClientPCs, BarberStates,
        Handles, NoClient, MutualExclusion, LockExclusive, BarberHolds,
        ClientHolds, NoLostWakeup, PeekStillTrue, QueueSound, Queued, OneInCare,
        InCare, ChairOccupied, ClientPhase, AwaitsSeat, BarberPhase, Settled,
        Invitations, HandlesValid
  <2>2. Tokens'
    BY <2>q, <2>c, <2>s DEF Tokens, ClientPhase, BarberPhase, OneInCare, InCare,
        Called, Leaving, Queued, TypeOK, AwaitsSeat, Settled, Sems,
        HandlesValid, NoLostWakeup, ChairOccupied, MutualExclusion,
        LockExclusive, BarberHolds, ClientHolds, DistinctKeys, Keys
  <2>3. UNCHANGED Shop!shopVars
    BY <2>q, <2>c DEF Shop!shopVars, semVars, BarberPhase
  <2> QED
    BY <2>1, <2>2, <2>3
<1>2. CASE BarberWait("lock_queue", "QUEUE_LOCK", "pop")
  <2> USE <1>2 DEF BarberWait, BarberAt, clientVars, shop, IInv
  <2>q. Waiting' = Waiting /\ queue' = queue
    BY DEF Waiting
  <2>c. Called' = Called /\ Leaving' = Leaving
    BY <2>q DEF Called, Leaving, Queued
  <2>s. /\ sem' \in [Sems -> Nat]
        /\ sem["QUEUE_LOCK"] > 0 /\ sem'["QUEUE_LOCK"] = sem["QUEUE_LOCK"] - 1
        /\ \A t \in Sems : t # "QUEUE_LOCK" => sem'[t] = sem[t]
    BY WaitEffect DEF Sems
  <2>1. TypeOK' /\ MutualExclusion' /\ NoLostWakeup' /\ PeekStillTrue' /\
      QueueSound' /\ OneInCare' /\ ChairOccupied' /\ ClientPhase' /\
      BarberPhase' /\ Tokens' /\ Invitations' /\ HandlesValid'
    BY <2>q, <2>c, <2>s DEF TypeOK, Sems, BarberPCs, ClientPCs, BarberStates,
        Handles, NoClient, MutualExclusion, LockExclusive, BarberHolds,
        ClientHolds, NoLostWakeup, PeekStillTrue, QueueSound, Queued, OneInCare,
        InCare, ChairOccupied, ClientPhase, AwaitsSeat, BarberPhase, Settled,
        Tokens, Invitations, HandlesValid
  <2>2. UNCHANGED Shop!shopVars
    BY <2>q, <2>c DEF Shop!shopVars, semVars, BarberPhase
  <2> QED
    BY <2>1, <2>2
<1>3. CASE PopClient
  <2> USE <1>3 DEF PopClient, BarberAt, clientVars, IInv
  <2>q. /\ next_client' \in Waiting /\ next_client' \in Clients
        /\ Waiting' = Waiting \ {next_client'}
        /\ queue' \in Seq(Clients) /\ Len(queue') <= Chairs
        /\ \A i, j \in 1..Len(queue') : queue'[i] = queue'[j] => i = j
    <3>1. queue # <<>> /\ queue \in Seq(Clients) /\ Len(queue) <= Chairs
      BY DEF PeekStillTrue, QueueSound, TypeOK
    <3>2. \A i, j \in 1..Len(queue) : queue[i] = queue[j] => i = j
      BY DEF QueueSound
    <3>3. next_client' = Head(queue) /\ queue' = Tail(queue)
      BY <3>1
    <3>4. /\ Head(queue) \in Clients /\ Tail(queue) \in Seq(Clients)
          /\ Len(Tail(queue)) = Len(queue) - 1
          /\ Head(queue) \in {queue[i] : i \in 1..Len(queue)}
          /\ {Tail(queue)[i] : i \in 1..Len(Tail(queue))} =
                {queue[i] : i \in 1..Len(queue)} \ {Head(queue)}
          /\ \A i, j \in 1..Len(Tail(queue)) : Tail(queue)[i] = Tail(queue)[j] => i = j
      BY <3>1, <3>2, TailFacts
    <3>5. Len(queue) \in Nat /\ Len(queue) - 1 <= Chairs
      BY <3>1, LenProperties
    <3>6. /\ Waiting = {queue[i] : i \in 1..Len(queue)}
          /\ Waiting' = {Tail(queue)[i] : i \in 1..Len(Tail(queue))}
      BY <3>3 DEF Waiting
    <3>7. /\ next_client' \in Waiting /\ next_client' \in Clients
          /\ Waiting' = Waiting \ {next_client'}
      BY <3>3, <3>4, <3>6
    <3>8. /\ queue' \in Seq(Clients) /\ Len(queue') <= Chairs
          /\ \A i, j \in 1..Len(queue') : queue'[i] = queue'[j] => i = j
      BY <3>3, <3>4, <3>5
    <3> QED
      BY <3>7, <3>8
  <2>c. Called' = Called \cup {next_client'} /\ Leaving' = Leaving
    BY <2>q DEF Called, Leaving, Queued, QueueSound, TypeOK
  <2>s. /\ sem' \in [Sems -> Nat]
        /\ sem'["QUEUE_LOCK"] = sem["QUEUE_LOCK"] + 1
        /\ \A t \in Sems : t # "QUEUE_LOCK" => sem'[t] = sem[t]
    BY SignalEffect DEF Sems
  <2>1. TypeOK'
    BY <2>q, <2>c, <2>s DEF TypeOK, Sems, BarberPCs, ClientPCs, BarberStates,
        Handles, NoClient
  <2>2. MutualExclusion'
    BY <2>q, <2>c, <2>s, SMTT(40) DEF MutualExclusion, LockExclusive, BarberHolds,
        ClientHolds, TypeOK, Sems
  <2>3. PeekStillTrue' /\ HandlesValid'
    BY <2>q, <2>c, <2>s DEF PeekStillTrue, HandlesValid, TypeOK
  <2>4. QueueSound' /\ ChairOccupied' /\ Invitations'
    BY <2>q, <2>c, <2>s DEF QueueSound, Queued, TypeOK, ChairOccupied,
        Invitations
  <2>5. NoLostWakeup'
    BY <2>q, <2>c, <2>s DEF NoLostWakeup, MutualExclusion, LockExclusive,
        BarberHolds, ClientHolds, PeekStillTrue, ClientPhase, InCare, Called,
        Leaving, Queued, AwaitsSeat, TypeOK
  <2>6. OneInCare'
    BY <2>q, <2>c, <2>s DEF OneInCare, InCare, Called, Leaving, Queued, TypeOK,
        ClientPhase, BarberPhase, Tokens, NoLostWakeup, AwaitsSeat
  <2>7. ClientPhase'
    BY <2>q, <2>c, <2>s DEF ClientPhase, BarberPhase, Tokens, HandlesValid,
        OneInCare, InCare, Called, Leaving, Queued, TypeOK, AwaitsSeat, Settled,
        Sems, NoLostWakeup, MutualExclusion, LockExclusive, BarberHolds,
        ClientHolds, ChairOccupied
  <2>8. BarberPhase'
    BY <2>q, <2>c, <2>s DEF BarberPhase, ClientPhase, Tokens, OneInCare, InCare,
        Called, Leaving, Queued, TypeOK, AwaitsSeat, Settled, Sems,
        HandlesValid, MutualExclusion, LockExclusive, BarberHolds, ClientHolds,
        ChairOccupied
  <2>9. Tokens'
    BY <2>q, <2>c, <2>s DEF Tokens, ClientPhase, BarberPhase, OneInCare, InCare,
        Called, Leaving, Queued, TypeOK, AwaitsSeat, Settled, Sems,
        HandlesValid, NoLostWakeup, ChairOccupied, MutualExclusion,
        LockExclusive, BarberHolds, ClientHolds, DistinctKeys, Keys
  <2>10. Shop!CallNext
    <3>1. Called = {} /\ queue # <<>>
      BY DEF ClientPhase, Called, Queued, AwaitsSeat, PeekStillTrue
    <3> QED
      BY <2>q, <2>c, <3>1 DEF Shop!CallNext
  <2> QED
    BY <2>1, <2>2, <2>3, <2>4, <2>5, <2>6, <2>7, <2>8, <2>9, <2>10 DEF Shop!ShopNext
<1>4. CASE BarberGetClientSem
  <2> USE <1>4 DEF BarberGetClientSem, BarberAt, GetClientSem, clientVars, shop,
      semVars, IInv
  <2>q. Waiting' = Waiting /\ queue' = queue
    BY DEF Waiting
  <2>c. Called' = Called /\ Leaving' = Leaving
    BY <2>q DEF Called, Leaving, Queued
  <2>1. TypeOK' /\ MutualExclusion' /\ NoLostWakeup' /\ PeekStillTrue' /\
      QueueSound' /\ OneInCare' /\ ChairOccupied' /\ ClientPhase' /\
      BarberPhase' /\ Tokens' /\ Invitations'
    BY <2>q, <2>c DEF TypeOK, Sems, BarberPCs, ClientPCs, BarberStates, Handles,
        NoClient, MutualExclusion, LockExclusive, BarberHolds, ClientHolds,
        NoLostWakeup, PeekStillTrue, QueueSound, Queued, OneInCare, InCare,
        ChairOccupied, ClientPhase, AwaitsSeat, BarberPhase, Settled, Tokens,
        Invitations
  <2>2. HandlesValid'
    BY <2>q, <2>c DEF HandlesValid, Invitations, BarberPhase, ClientPhase,
        TypeOK, GetClientSem, DistinctKeys
  <2>3. UNCHANGED Shop!shopVars
    BY <2>q, <2>c DEF Shop!shopVars, semVars, BarberPhase
  <2> QED
    BY <2>1, <2>2, <2>3
<1>5. CASE BarberCall
  <2> USE <1>5 DEF BarberCall, BarberAt, SignalInvited, clientVars, shop, IInv
  <2>q. Waiting' = Waiting /\ queue' = queue
    BY DEF Waiting
  <2>i. /\ next_client \in Clients
        /\ invited' = [invited EXCEPT ![ClientKey[next_client]] = 1]
        /\ sem' = sem
    BY DEF HandlesValid, Invitations, BarberPhase, Keys, TypeOK
  <2>c. Called' = Called /\ Leaving' = Leaving
    BY <2>q DEF Called, Leaving, Queued
  <2>1. TypeOK'
    BY <2>q, <2>c, <2>i DEF TypeOK, Sems, BarberPCs, ClientPCs, BarberStates,
        Handles, NoClient
  <2>2. MutualExclusion'
    BY <2>q, <2>c, <2>i DEF MutualExclusion, LockExclusive, BarberHolds,
        ClientHolds, TypeOK, Sems
  <2>3. NoLostWakeup' /\ PeekStillTrue' /\ OneInCare' /\ BarberPhase' /\
      HandlesValid'
    BY <2>q, <2>c, <2>i DEF NoLostWakeup, PeekStillTrue, OneInCare, InCare,
        BarberPhase, Queued, Settled, TypeOK, HandlesValid
  <2>4. QueueSound' /\ ChairOccupied'
    BY <2>q, <2>c, <2>i DEF QueueSound, Queued, TypeOK, ChairOccupied
  <2>5. ClientPhase'
    BY <2>q, <2>c, <2>i DEF ClientPhase, InCare, Queued, AwaitsSeat, TypeOK,
        Sems
  <2>6. Tokens'
    BY <2>q, <2>c, <2>i DEF Tokens, InCare, AwaitsSeat, Settled, TypeOK, Sems
  <2>7. Invitations'
    BY <2>q, <2>c, <2>i DEF Invitations, ClientPhase, BarberPhase, OneInCare,
        InCare, Called, Leaving, Queued, TypeOK, HandlesValid, QueueSound,
        DistinctKeys, Keys
  <2>8. UNCHANGED Shop!shopVars
    BY <2>q, <2>c DEF Shop!shopVars, semVars, BarberPhase
  <2> QED
    BY <2>1, <2>2, <2>3, <2>4, <2>5, <2>6, <2>7, <2>8
<1>6. CASE BarberWait("wait_invited_seated", "CURRENT_SEATED", "lock_after_invite")
  <2> USE <1>6 DEF BarberWait, BarberAt, clientVars, shop, IInv
  <2>q. Waiting' = Waiting /\ queue' = queue
    BY DEF Waiting
  <2>c. Called' = Called /\ Leaving' = Leaving
    BY <2>q DEF Called, Leaving, Queued
  <2>s. /\ sem' \in [Sems -> Nat]
        /\ sem["CURRENT_SEATED"] > 0 /\ sem'["CURRENT_SEATED"] = sem["CURRENT_SEATED"] - 1
        /\ \A t \in Sems : t # "CURRENT_SEATED" => sem'[t] = sem[t]
    BY WaitEffect DEF Sems
  <2>1. TypeOK' /\ MutualExclusion' /\ NoLostWakeup' /\ PeekStillTrue' /\
      QueueSound' /\ OneInCare' /\ ChairOccupied' /\ Tokens' /\ HandlesValid'
    BY <2>q, <2>c, <2>s, SMTT(40) DEF TypeOK, Sems, BarberPCs, ClientPCs, BarberStates,
        Handles, NoClient, MutualExclusion, LockExclusive, BarberHolds,
        ClientHolds, NoLostWakeup, PeekStillTrue, QueueSound, Queued, OneInCare,
        InCare, ChairOccupied, Tokens, AwaitsSeat, Settled, HandlesValid
  <2>2. ClientPhase'
    BY <2>q, <2>c, <2>s DEF ClientPhase, BarberPhase, Tokens, HandlesValid,
        OneInCare, InCare, Called, Leaving, Queued, TypeOK, AwaitsSeat, Settled,
        Sems, NoLostWakeup, MutualExclusion, LockExclusive, BarberHolds,
        ClientHolds, ChairOccupied
  <2>3. BarberPhase'
    BY <2>q, <2>c, <2>s DEF BarberPhase, ClientPhase, Tokens, OneInCare, InCare,
        Called, Leaving, Queued, TypeOK, AwaitsSeat, Settled, Sems,
        HandlesValid, MutualExclusion, LockExclusive, BarberHolds, ClientHolds,
        ChairOccupied
  <2>4. Invitations'
    BY <2>q, <2>c, <2>s, SMTT(30) DEF Invitations, ClientPhase, BarberPhase,
        OneInCare, InCare, Called, Leaving, Queued, TypeOK, HandlesValid,
        QueueSound, DistinctKeys, Keys, Tokens, AwaitsSeat, Settled, Sems
  <2>5. UNCHANGED Shop!shopVars
    BY <2>q, <2>c DEF Shop!shopVars, semVars, BarberPhase
  <2> QED
    BY <2>1, <2>2, <2>3, <2>4, <2>5
<1>7. CASE BarberWait("lock_after_invite", "BARBER_STATE_LOCK", "cut")
  <2> USE <1>7 DEF BarberWait, BarberAt, clientVars, shop, IInv
  <2>q. Waiting' = Waiting /\ queue' = queue
    BY DEF Waiting
  <2>c. Called' = Called /\ Leaving' = Leaving
    BY <2>q DEF Called, Leaving, Queued
  <2>s. /\ sem' \in [Sems -> Nat]
        /\ sem["BARBER_STATE_LOCK"] > 0 /\ sem'["BARBER_STATE_LOCK"] = sem["BARBER_STATE_LOCK"] - 1
        /\ \A t \in Sems : t # "BARBER_STATE_LOCK" => sem'[t] = sem[t]
    BY WaitEffect DEF Sems
  <2>1. TypeOK'
    BY <2>q, <2>c, <2>s DEF TypeOK, Sems, BarberPCs, ClientPCs, BarberStates,
        Handles, NoClient
  <2>2. MutualExclusion'
    BY <2>q, <2>c, <2>s, SMTT(40) DEF MutualExclusion, LockExclusive, BarberHolds,
        ClientHolds, TypeOK, Sems
  <2>3. NoLostWakeup' /\ PeekStillTrue' /\ OneInCare' /\ BarberPhase' /\
      HandlesValid'
    BY <2>q, <2>c, <2>s DEF NoLostWakeup, PeekStillTrue, OneInCare, InCare,
        BarberPhase, Queued, Settled, TypeOK, HandlesValid
  <2>4. QueueSound' /\ ChairOccupied' /\ Invitations'
    BY <2>q, <2>c, <2>s DEF QueueSound, Queued, TypeOK, ChairOccupied,
        Invitations
  <2>5. ClientPhase'
    BY <2>q, <2>c, <2>s DEF ClientPhase, InCare, Queued, AwaitsSeat, TypeOK,
        Sems
  <2>6. Tokens'
    BY <2>q, <2>c, <2>s DEF Tokens, InCare, AwaitsSeat, Settled, TypeOK, Sems
  <2>7. UNCHANGED Shop!shopVars
    BY <2>q, <2>c DEF Shop!shopVars, semVars, BarberPhase
  <2> QED
    BY <2>1, <2>2, <2>3, <2>4, <2>5, <2>6, <2>7
<1> QED
  BY <1>1, <1>2, <1>3, <1>4, <1>5, <1>6, <1>7 DEF BarberInvite

LEMMA ClientExitStep ==
  ASSUME IInv, DistinctKeys, NEW c \in Clients, ClientExit(c)
  PROVE  IInv' /\ [Shop!ShopNext]_(Shop!shopVars)
<1>1. CASE ClientExit(c)
  <2> USE <1>1 DEF ClientExit, ClientAt, barberVars, shop, semVars, IInv
  <2>q. Waiting' = Waiting /\ queue' = queue
    BY DEF Waiting
  <2>c. Called' = Called /\ Leaving' = Leaving
    BY <2>q DEF Called, Leaving, Queued, TypeOK
  <2>1. TypeOK'
    BY <2>q, <2>c DEF TypeOK, Sems, BarberPCs, ClientPCs, BarberStates, Handles,
        NoClient
  <2>2. MutualExclusion'
    BY <2>q, <2>c DEF MutualExclusion, LockExclusive, BarberHolds, ClientHolds,
        TypeOK, Sems
  <2>3. NoLostWakeup' /\ PeekStillTrue' /\ OneInCare' /\ BarberPhase' /\
      HandlesValid'
    BY <2>q, <2>c DEF NoLostWakeup, PeekStillTrue, OneInCare, InCare,
        BarberPhase, Queued, Settled, TypeOK, HandlesValid
  <2>4. QueueSound' /\ ChairOccupied' /\ Invitations'
    BY <2>q, <2>c DEF QueueSound, Queued, TypeOK, ChairOccupied, Invitations
  <2>5. ClientPhase'
    BY <2>q, <2>c DEF ClientPhase, InCare, Queued, AwaitsSeat, TypeOK, Sems
  <2>6. Tokens'
    BY <2>q, <2>c DEF Tokens, InCare, AwaitsSeat, Settled, TypeOK, Sems
  <2>7. UNCHANGED Shop!shopVars
    BY <2>q, <2>c DEF Shop!shopVars, semVars, BarberPhase
  <2> QED
    BY <2>1, <2>2, <2>3, <2>4, <2>5, <2>6, <2>7
<1> QED
  BY <1>1 DEF ClientExit

LEMMA ClientComeInStep ==
  ASSUME IInv, DistinctKeys, NEW c \in Clients, ClientComeIn(c)
  PROVE  IInv' /\ [Shop!ShopNext]_(Shop!shopVars)
<1>1. CASE repeats[c] # 0 /\ ClientWait(c, "outside", "BARBER_STATE_LOCK", "look")
  <2> USE <1>1 DEF ClientWait, ClientAt, barberVars, shop, IInv
  <2>q. Waiting' = Waiting /\ queue' = queue
    BY DEF Waiting
  <2>c. Called' = Called /\ Leaving' = Leaving
    BY <2>q DEF Called, Leaving, Queued, TypeOK
  <2>s. /\ sem' \in [Sems -> Nat]
        /\ sem["BARBER_STATE_LOCK"] > 0 /\ sem'["BARBER_STATE_LOCK"] = sem["BARBER_STATE_LOCK"] - 1
        /\ \A t \in Sems : t # "BARBER_STATE_LOCK" => sem'[t] = sem[t]
    BY WaitEffect DEF Sems
  <2>1. TypeOK'
    BY <2>q, <2>c, <2>s, SMTT(40) DEF TypeOK, Sems, BarberPCs, ClientPCs, BarberStates,
        Handles, NoClient
  <2>2. MutualExclusion'
    BY <2>q, <2>c, <2>s DEF MutualExclusion, LockExclusive, BarberHolds,
        ClientHolds, TypeOK, Sems
  <2>3. NoLostWakeup' /\ PeekStillTrue' /\ OneInCare' /\ BarberPhase' /\
      HandlesValid'
    BY <2>q, <2>c, <2>s DEF NoLostWakeup, PeekStillTrue, OneInCare, InCare,
        BarberPhase, Queued, Settled, TypeOK, HandlesValid
  <2>4. QueueSound' /\ ChairOccupied' /\ Invitations'
    BY <2>q, <2>c, <2>s DEF QueueSound, Queued, TypeOK, ChairOccupied,
        Invitations
  <2>5. ClientPhase'
    BY <2>q, <2>c, <2>s, SMTT(40) DEF ClientPhase, InCare, Queued, AwaitsSeat, TypeOK,
        Sems
  <2>6. Tokens'
    BY <2>q, <2>c, <2>s, SMTT(40) DEF Tokens, InCare, AwaitsSeat, Settled, TypeOK, Sems
  <2>7. UNCHANGED Shop!shopVars
    BY <2>q, <2>c DEF Shop!shopVars, semVars, BarberPhase
  <2> QED
    BY <2>1, <2>2, <2>3, <2>4, <2>5, <2>6, <2>7
<1>2. CASE WakeBarber(c)
  <2> USE <1>2 DEF WakeBarber, ClientAt, barberVars, IInv
  <2>q. Waiting' = Waiting /\ queue' = queue
    BY DEF Waiting
  <2>c. Called' = Called \cup {c} /\ Leaving' = Leaving
    BY <2>q DEF Called, Leaving, Queued, TypeOK
  <2>s. /\ sem' \in [Sems -> Nat]
        /\ sem'["CUSTOMER_AVAIL"] = sem["CUSTOMER_AVAIL"] + 1
        /\ \A t \in Sems : t # "CUSTOMER_AVAIL" => sem'[t] = sem[t]
    BY SignalEffect DEF Sems
  <2>1. TypeOK'
    BY <2>q, <2>c, <2>s DEF TypeOK, Sems, BarberPCs, ClientPCs, BarberStates,
        Handles, NoClient
  <2>2. MutualExclusion'
    BY <2>q, <2>c, <2>s DEF MutualExclusion, LockExclusive, BarberHolds,
        ClientHolds, TypeOK, Sems
  <2>3. NoLostWakeup' /\ PeekStillTrue' /\ BarberPhase' /\ HandlesValid'
    BY <2>q, <2>c, <2>s DEF NoLostWakeup, PeekStillTrue, BarberPhase, Queued,
        Settled, TypeOK, HandlesValid
  <2>4. QueueSound' /\ ChairOccupied' /\ Invitations'
    BY <2>q, <2>c, <2>s, SMTT(40) DEF QueueSound, Queued, TypeOK, ChairOccupied,
        Invitations
  <2>5. OneInCare'
    BY <2>q, <2>c, <2>s DEF OneInCare, InCare, Called, Leaving, Queued, TypeOK,
        ClientPhase, BarberPhase, Tokens, NoLostWakeup, AwaitsSeat
  <2>6. ClientPhase'
    BY <2>q, <2>c, <2>s DEF ClientPhase, BarberPhase, Tokens, HandlesValid,
        OneInCare, InCare, Called, Leaving, Queued, TypeOK, AwaitsSeat, Settled,
        Sems, NoLostWakeup, MutualExclusion, LockExclusive, BarberHolds,
        ClientHolds, ChairOccupied
  <2>7. Tokens'
    BY <2>q, <2>c, <2>s DEF Tokens, ClientPhase, BarberPhase, OneInCare, InCare,
        Called, Leaving, Queued, TypeOK, AwaitsSeat, Settled, Sems,
        HandlesValid, NoLostWakeup, ChairOccupied, MutualExclusion,
        LockExclusive, BarberHolds, ClientHolds, DistinctKeys, Keys
  <2>8. Shop!Wake(c)
    BY <2>q, <2>c DEF Shop!Wake, NoLostWakeup, ClientPhase, TypeOK
  <2> QED
    BY <2>1, <2>2, <2>3, <2>4, <2>5, <2>6, <2>7, <2>8 DEF Shop!ShopNext
<1>3. CASE ClientSignal(c, "release_woken", "BARBER_STATE_LOCK", "lock_woken")
  <2> USE <1>3 DEF ClientSignal, ClientAt, barberVars, shop, IInv
  <2>q. Waiting' = Waiting /\ queue' = queue
    BY DEF Waiting
  <2>c. Called' = Called /\ Leaving' = Leaving
    BY <2>q DEF Called, Leaving, Queued, TypeOK
  <2>s. /\ sem' \in [Sems -> Nat]
        /\ sem'["BARBER_STATE_LOCK"] = sem["BARBER_STATE_LOCK"] + 1
        /\ \A t \in Sems : t # "BARBER_STATE_LOCK" => sem'[t] = sem[t]
    BY SignalEffect DEF Sems
  <2>1. TypeOK'
    BY <2>q, <2>c, <2>s DEF TypeOK, Sems, BarberPCs, ClientPCs, BarberStates,
        Handles, NoClient
  <2>2. MutualExclusion'
    BY <2>q, <2>c, <2>s DEF MutualExclusion, LockExclusive, BarberHolds,
        ClientHolds, TypeOK, Sems
  <2>3. NoLostWakeup' /\ PeekStillTrue' /\ OneInCare' /\ BarberPhase' /\
      HandlesValid'
    BY <2>q, <2>c, <2>s DEF NoLostWakeup, PeekStillTrue, OneInCare, InCare,
        BarberPhase, Queued, Settled, TypeOK, HandlesValid
  <2>4. QueueSound' /\ ChairOccupied' /\ Invitations'
    BY <2>q, <2>c, <2>s, SMTT(40) DEF QueueSound, Queued, TypeOK, ChairOccupied,
        Invitations
  <2>5. ClientPhase'
    BY <2>q, <2>c, <2>s DEF ClientPhase, InCare, Queued, AwaitsSeat, TypeOK,
        Sems
  <2>6. Tokens'
    BY <2>q, <2>c, <2>s DEF Tokens, ClientPhase, BarberPhase, OneInCare, InCare,
        Called, Leaving, Queued, TypeOK, AwaitsSeat, Settled, Sems,
        HandlesValid, NoLostWakeup, ChairOccupied, MutualExclusion,
        LockExclusive, BarberHolds, ClientHolds, DistinctKeys, Keys
  <2>7. UNCHANGED Shop!shopVars
    BY <2>q, <2>c DEF Shop!shopVars, semVars, BarberPhase
  <2> QED
    BY <2>1, <2>2, <2>3, <2>4, <2>5, <2>6, <2>7
<1>4. CASE ClientWait(c, "lock_woken", "BARBER_STATE_LOCK", "sit")
  <2> USE <1>4 DEF ClientWait, ClientAt, barberVars, shop, IInv
  <2>q. Waiting' = Waiting /\ queue' = queue
    BY DEF Waiting
  <2>c. Called' = Called /\ Leaving' = Leaving
    BY <2>q DEF Called, Leaving, Queued, TypeOK
  <2>s. /\ sem' \in [Sems -> Nat]
        /\ sem["BARBER_STATE_LOCK"] > 0 /\ sem'["BARBER_STATE_LOCK"] = sem["BARBER_STATE_LOCK"] - 1
        /\ \A t \in Sems : t # "BARBER_STATE_LOCK" => sem'[t] = sem[t]
    BY WaitEffect DEF Sems
  <2>1. TypeOK'
    BY <2>q, <2>c, <2>s, SMTT(40) DEF TypeOK, Sems, BarberPCs, ClientPCs, BarberStates,
        Handles, NoClient
  <2>2. MutualExclusion'
    BY <2>q, <2>c, <2>s DEF MutualExclusion, LockExclusive, BarberHolds,
        ClientHolds, TypeOK, Sems
  <2>3. NoLostWakeup' /\ PeekStillTrue' /\ OneInCare' /\ BarberPhase' /\
      HandlesValid'
    BY <2>q, <2>c, <2>s DEF NoLostWakeup, PeekStillTrue, OneInCare, InCare,
        BarberPhase, Queued, Settled, TypeOK, HandlesValid
  <2>4. QueueSound' /\ ChairOccupied' /\ Invitations'
    BY <2>q, <2>c, <2>s, SMTT(40) DEF QueueSound, Queued, TypeOK, ChairOccupied,
        Invitations
  <2>5. ClientPhase'
    BY <2>q, <2>c, <2>s DEF ClientPhase, InCare, Queued, AwaitsSeat, TypeOK,
        Sems
  <2>6. Tokens'
    BY <2>q, <2>c, <2>s, SMTT(40) DEF Tokens, InCare, AwaitsSeat, Settled, TypeOK, Sems
  <2>7. UNCHANGED Shop!shopVars
    BY <2>q, <2>c DEF Shop!shopVars, semVars, BarberPhase
  <2> QED
    BY <2>1, <2>2, <2>3, <2>4, <2>5, <2>6, <2>7
<1>5. CASE LookAtQueue(c)
  <2> USE <1>5 DEF LookAtQueue, ClientWait, ClientAt, barberVars, shop, IInv
  <2>q. Waiting' = Waiting /\ queue' = queue
    BY DEF Waiting
  <2>c. Called' = Called /\ Leaving' = Leaving
    BY <2>q DEF Called, Leaving, Queued, TypeOK
  <2>s. /\ sem' \in [Sems -> Nat]
        /\ sem["QUEUE_LOCK"] > 0 /\ sem'["QUEUE_LOCK"] = sem["QUEUE_LOCK"] - 1
        /\ \A t \in Sems : t # "QUEUE_LOCK" => sem'[t] = sem[t]
    BY WaitEffect DEF Sems
  <2>1. TypeOK'
    BY <2>q, <2>c, <2>s, SMTT(40) DEF TypeOK, Sems, BarberPCs, ClientPCs, BarberStates,
        Handles, NoClient
  <2>2. MutualExclusion'
    BY <2>q, <2>c, <2>s, SMTT(40) DEF MutualExclusion, LockExclusive, BarberHolds,
        ClientHolds, TypeOK, Sems
  <2>3. NoLostWakeup' /\ PeekStillTrue' /\ OneInCare' /\ BarberPhase' /\
      HandlesValid'
    BY <2>q, <2>c, <2>s DEF NoLostWakeup, PeekStillTrue, OneInCare, InCare,
        BarberPhase, Queued, Settled, TypeOK, HandlesValid
  <2>4. QueueSound' /\ ChairOccupied' /\ Invitations'
    BY <2>q, <2>c, <2>s, SMTT(40) DEF QueueSound, Queued, TypeOK, ChairOccupied,
        Invitations
  <2>5. ClientPhase'
    BY <2>q, <2>c, <2>s, SMTT(40) DEF ClientPhase, InCare, Queued, AwaitsSeat, TypeOK,
        Sems
  <2>6. Tokens'
    BY <2>q, <2>c, <2>s, SMTT(40) DEF Tokens, InCare, AwaitsSeat, Settled, TypeOK, Sems
  <2>7. UNCHANGED Shop!shopVars
    BY <2>q, <2>c DEF Shop!shopVars, semVars, BarberPhase
  <2> QED
    BY <2>1, <2>2, <2>3, <2>4, <2>5, <2>6, <2>7
<1>6. CASE ClientSignal(c, "check_queue", "BARBER_STATE_LOCK", "reject")
  <2> USE <1>6 DEF ClientSignal, ClientAt, barberVars, shop, IInv
  <2>q. Waiting' = Waiting /\ queue' = queue
    BY DEF Waiting
  <2>c. Called' = Called /\ Leaving' = Leaving
    BY <2>q DEF Called, Leaving, Queued, TypeOK
  <2>s. /\ sem' \in [Sems -> Nat]
        /\ sem'["BARBER_STATE_LOCK"] = sem["BARBER_STATE_LOCK"] + 1
        /\ \A t \in Sems : t # "BARBER_STATE_LOCK" => sem'[t] = sem[t]
    BY SignalEffect DEF Sems
  <2>1. TypeOK'
    BY <2>q, <2>c, <2>s, SMTT(40) DEF TypeOK, Sems, BarberPCs, ClientPCs, BarberStates,
        Handles, NoClient
  <2>2. MutualExclusion'
    BY <2>q, <2>c, <2>s, SMTT(40) DEF MutualExclusion, LockExclusive, BarberHolds,
        ClientHolds, TypeOK, Sems
  <2>3. NoLostWakeup' /\ PeekStillTrue' /\ OneInCare' /\ BarberPhase' /\
      HandlesValid'
    BY <2>q, <2>c, <2>s DEF NoLostWakeup, PeekStillTrue, OneInCare, InCare,
        BarberPhase, Queued, Settled, TypeOK, HandlesValid
  <2>4. QueueSound' /\ ChairOccupied' /\ Invitations'
    BY <2>q, <2>c, <2>s, SMTT(40) DEF QueueSound, Queued, TypeOK, ChairOccupied,
        Invitations
  <2>5. ClientPhase'
    BY <2>q, <2>c, <2>s DEF ClientPhase, InCare, Queued, AwaitsSeat, TypeOK,
        Sems
  <2>6. Tokens'
    BY <2>q, <2>c, <2>s, SMTT(40) DEF Tokens, ClientPhase, BarberPhase, OneInCare, InCare,
        Called, Leaving, Queued, TypeOK, AwaitsSeat, Settled, Sems,
        HandlesValid, NoLostWakeup, ChairOccupied, MutualExclusion,
        LockExclusive, BarberHolds, ClientHolds, DistinctKeys, Keys
  <2>7. UNCHANGED Shop!shopVars
    BY <2>q, <2>c DEF Shop!shopVars, semVars, BarberPhase
  <2> QED
    BY <2>1, <2>2, <2>3, <2>4, <2>5, <2>6, <2>7
<1>7. CASE ClientSignal(c, "reject", "QUEUE_LOCK", "outside")
  <2> USE <1>7 DEF ClientSignal, ClientAt, barberVars, shop, IInv
  <2>q. Waiting' = Waiting /\ queue' = queue
    BY DEF Waiting
  <2>c. Called' = Called /\ Leaving' = Leaving
    BY <2>q DEF Called, Leaving, Queued, TypeOK
  <2>s. /\ sem' \in [Sems -> Nat]
        /\ sem'["QUEUE_LOCK"] = sem["QUEUE_LOCK"] + 1
        /\ \A t \in Sems : t # "QUEUE_LOCK" => sem'[t] = sem[t]
    BY SignalEffect DEF Sems
  <2>1. TypeOK'
    BY <2>q, <2>c, <2>s DEF TypeOK, Sems, BarberPCs, ClientPCs, BarberStates,
        Handles, NoClient
  <2>2. MutualExclusion'
    BY <2>q, <2>c, <2>s DEF MutualExclusion, LockExclusive, BarberHolds,
        ClientHolds, TypeOK, Sems
  <2>3. NoLostWakeup' /\ PeekStillTrue' /\ OneInCare' /\ BarberPhase' /\
      HandlesValid'
    BY <2>q, <2>c, <2>s DEF NoLostWakeup, PeekStillTrue, OneInCare, InCare,
        BarberPhase, Queued, Settled, TypeOK, HandlesValid
  <2>4. QueueSound' /\ ChairOccupied' /\ Invitations'
    BY <2>q, <2>c, <2>s, SMTT(40) DEF QueueSound, Queued, TypeOK, ChairOccupied,
        Invitations
  <2>5. ClientPhase'
    BY <2>q, <2>c, <2>s DEF ClientPhase, InCare, Queued, AwaitsSeat, TypeOK,
        Sems
  <2>6. Tokens'
    BY <2>q, <2>c, <2>s, SMTT(40) DEF Tokens, ClientPhase, BarberPhase, OneInCare, InCare,
        Called, Leaving, Queued, TypeOK, AwaitsSeat, Settled, Sems,
        HandlesValid, NoLostWakeup, ChairOccupied, MutualExclusion,
        LockExclusive, BarberHolds, ClientHolds, DistinctKeys, Keys
  <2>7. UNCHANGED Shop!shopVars
    BY <2>q, <2>c DEF Shop!shopVars, semVars, BarberPhase
  <2> QED
    BY <2>1, <2>2, <2>3, <2>4, <2>5, <2>6, <2>7
<1> QED
  BY <1>1, <1>2, <1>3, <1>4, <1>5, <1>6, <1>7 DEF ClientComeIn

LEMMA ClientEnqueueStep ==
  ASSUME IInv, DistinctKeys, NEW c \in Clients, ClientEnqueue(c)
  PROVE  IInv' /\ [Shop!ShopNext]_(Shop!shopVars)
<1>1. CASE PushClient(c)
  <2> USE <1>1 DEF PushClient, ClientAt, QueueFull, barberVars, IInv
  <2>q. /\ c \notin Waiting /\ Waiting' = Waiting \cup {c}
        /\ queue' \in Seq(Clients) /\ Len(queue') <= Chairs /\ queue' # <<>>
        /\ \A i, j \in 1..Len(queue') : queue'[i] = queue'[j] => i = j
    <3>1. queue \in Seq(Clients) /\ Len(queue) < Chairs /\ c \notin Waiting
      BY SMTT(40) DEF QueueSound, TypeOK, Queued
    <3> QED
      BY <3>1, AppendFacts, SMTT(40) DEF Waiting, QueueSound
  <2>c. Called' = Called /\ Leaving' = Leaving
    BY <2>q DEF Called, Leaving, Queued, TypeOK
  <2>s. /\ sem' \in [Sems -> Nat]
        /\ sem'["QUEUE_LOCK"] = sem["QUEUE_LOCK"] + 1
        /\ \A t \in Sems : t # "QUEUE_LOCK" => sem'[t] = sem[t]
    BY SignalEffect DEF Sems
  <2>1. TypeOK'
    BY <2>q, <2>c, <2>s, SMTT(40) DEF TypeOK, Sems, BarberPCs, ClientPCs, BarberStates,
        Handles, NoClient
  <2>2. MutualExclusion'
    BY <2>q, <2>c, <2>s, SMTT(40) DEF MutualExclusion, LockExclusive, BarberHolds,
        ClientHolds, TypeOK, Sems
  <2>3. QueueSound'
    BY <2>q, <2>c, <2>s DEF QueueSound, Queued, TypeOK
  <2>4. OneInCare'
    BY <2>q, <2>c, <2>s DEF OneInCare, InCare
  <2>5. ChairOccupied'
    BY <2>q, <2>c, <2>s DEF ChairOccupied, TypeOK
  <2>6. ClientPhase'
    BY <2>q, <2>c, <2>s, SMTT(40) DEF ClientPhase, InCare, Queued, AwaitsSeat, TypeOK,
        Sems
  <2>7. BarberPhase'
    BY <2>q, <2>c, <2>s DEF BarberPhase, Queued, Settled, TypeOK
  <2>8. Invitations'
    BY <2>q, <2>c, <2>s DEF Invitations, Queued, TypeOK
  <2>9. HandlesValid'
    BY <2>q, <2>c, <2>s DEF HandlesValid, TypeOK
  <2>10. NoLostWakeup'
    BY <2>q, <2>c, <2>s DEF NoLostWakeup, MutualExclusion, LockExclusive,
        BarberHolds, ClientHolds, PeekStillTrue, ClientPhase, InCare, Called,
        Leaving, Queued, AwaitsSeat, TypeOK
  <2>11. PeekStillTrue'
    BY <2>q, <2>c, <2>s DEF PeekStillTrue, MutualExclusion, LockExclusive,
        BarberHolds, ClientHolds, NoLostWakeup
  <2>12. Tokens'
    BY <2>q, <2>c, <2>s, SMTT(40) DEF Tokens, ClientPhase, BarberPhase, OneInCare, InCare,
        Called, Leaving, Queued, TypeOK, AwaitsSeat, Settled, Sems,
        HandlesValid, NoLostWakeup, ChairOccupied, MutualExclusion,
        LockExclusive, BarberHolds, ClientHolds, DistinctKeys, Keys
  <2>13. Shop!Join(c)
    <3>1. b_state # "SLEEPING" /\ repeats[c] > 0 /\ c \notin Called
      BY DEF ClientPhase, Called, Queued
    <3>2. Len(queue) < Chairs
      BY LenProperties DEF QueueSound, TypeOK
    <3>3. ~Shop!Waits(c)
      BY <2>q DEF Shop!Waits, Waiting
    <3> QED
      BY <2>c, <3>1, <3>2, <3>3 DEF Shop!Join
  <2> QED
    BY <2>1, <2>2, <2>3, <2>4, <2>5, <2>6, <2>7, <2>8, <2>9, <2>10, <2>11, <2>12, <2>13 DEF Shop!ShopNext
<1>2. CASE ClientSignal(c, "release_queued", "BARBER_STATE_LOCK", "get_own_sem")
  <2> USE <1>2 DEF ClientSignal, ClientAt, barberVars, shop, IInv
  <2>q. Waiting' = Waiting /\ queue' = queue
    BY DEF Waiting
  <2>c. Called' = Called /\ Leaving' = Leaving
    BY <2>q DEF Called, Leaving, Queued, TypeOK
  <2>s. /\ sem' \in [Sems -> Nat]
        /\ sem'["BARBER_STATE_LOCK"] = sem["BARBER_STATE_LOCK"] + 1
        /\ \A t \in Sems : t # "BARBER_STATE_LOCK" => sem'[t] = sem[t]
    BY SignalEffect DEF Sems
  <2>1. TypeOK'
    BY <2>q, <2>c, <2>s DEF TypeOK, Sems, BarberPCs, ClientPCs, BarberStates,
        Handles, NoClient
  <2>2. MutualExclusion'
    BY <2>q, <2>c, <2>s DEF MutualExclusion, LockExclusive, BarberHolds,
        ClientHolds, TypeOK, Sems
  <2>3. NoLostWakeup' /\ PeekStillTrue' /\ OneInCare' /\ BarberPhase' /\
      HandlesValid'
    BY <2>q, <2>c, <2>s DEF NoLostWakeup, PeekStillTrue, OneInCare, InCare,
        BarberPhase, Queued, Settled, TypeOK, HandlesValid
  <2>4. QueueSound' /\ ChairOccupied' /\ Invitations'
    BY <2>q, <2>c, <2>s DEF QueueSound, Queued, TypeOK, ChairOccupied,
        Invitations
  <2>5. ClientPhase'
    BY <2>q, <2>c, <2>s DEF ClientPhase, InCare, Queued, AwaitsSeat, TypeOK,
        Sems
  <2>6. Tokens'
    BY <2>q, <2>c, <2>s DEF Tokens, ClientPhase, BarberPhase, OneInCare, InCare,
        Called, Leaving, Queued, TypeOK, AwaitsSeat, Settled, Sems,
        HandlesValid, NoLostWakeup, ChairOccupied, MutualExclusion,
        LockExclusive, BarberHolds, ClientHolds, DistinctKeys, Keys
  <2>7. UNCHANGED Shop!shopVars
    BY <2>q, <2>c DEF Shop!shopVars, semVars, BarberPhase
  <2> QED
    BY <2>1, <2>2, <2>3, <2>4, <2>5, <2>6, <2>7
<1>3. CASE GetOwnSem(c)
  <2> USE <1>3 DEF GetOwnSem, ClientAt, GetClientSem, barberVars, shop, semVars,
      IInv
  <2>q. Waiting' = Waiting /\ queue' = queue
    BY DEF Waiting
  <2>c. Called' = Called /\ Leaving' = Leaving
    BY <2>q DEF Called, Leaving, Queued, TypeOK
  <2>1. TypeOK'
    BY <2>q, <2>c DEF TypeOK, Sems, BarberPCs, ClientPCs, BarberStates, Handles,
        NoClient
  <2>2. MutualExclusion'
    BY <2>q, <2>c DEF MutualExclusion, LockExclusive, BarberHolds, ClientHolds,
        TypeOK, Sems
  <2>3. NoLostWakeup' /\ PeekStillTrue' /\ OneInCare' /\ BarberPhase'
    BY <2>q, <2>c DEF NoLostWakeup, PeekStillTrue, OneInCare, InCare,
        BarberPhase, Queued, Settled, TypeOK
  <2>4. QueueSound' /\ ChairOccupied' /\ Invitations'
    BY <2>q, <2>c DEF QueueSound, Queued, TypeOK, ChairOccupied, Invitations
  <2>5. ClientPhase'
    BY <2>q, <2>c DEF ClientPhase, InCare, Queued, AwaitsSeat, TypeOK, Sems
  <2>6. Tokens'
    BY <2>q, <2>c DEF Tokens, InCare, AwaitsSeat, Settled, TypeOK, Sems
  <2>7. HandlesValid'
    BY <2>q, <2>c DEF HandlesValid, Invitations, BarberPhase, ClientPhase,
        TypeOK, GetClientSem, DistinctKeys
  <2>8. UNCHANGED Shop!shopVars
    BY <2>q, <2>c DEF Shop!shopVars, semVars, BarberPhase
  <2> QED
    BY <2>1, <2>2, <2>3, <2>4, <2>5, <2>6, <2>7, <2>8
<1>4. CASE WaitInvitation(c)
  <2> USE <1>4 DEF WaitInvitation, ClientAt, WaitInvited, barberVars, shop, IInv
  <2>q. Waiting' = Waiting /\ queue' = queue
    BY DEF Waiting
  <2>i. /\ invited[ClientKey[c]] = 1 /\ bpc = "wait_invited_seated"
        /\ next_client = c /\ c \notin Waiting
        /\ invited' = [invited EXCEPT ![ClientKey[c]] = 0]
        /\ sem' = sem
    <3>1. handle[c] = "live" /\ ClientKey[c] \in Keys
      BY DEF HandlesValid, Keys
    <3>2. /\ invited[ClientKey[c]] > 0
          /\ invited' = [invited EXCEPT ![ClientKey[c]] = @ - 1]
          /\ sem' = sem
      BY <3>1
    <3>3. /\ invited[ClientKey[c]] = 1 /\ bpc = "wait_invited_seated"
          /\ next_client \in Clients /\ ClientKey[c] = ClientKey[next_client]
          /\ next_client \notin Waiting
      BY <3>1, <3>2 DEF Invitations
    <3>4. next_client = c
      BY <3>3 DEF DistinctKeys
    <3> QED
      BY <3>2, <3>3, <3>4
  <2>c. Called' = Called /\ Leaving' = Leaving /\ c \in Called
    BY <2>q, <2>i DEF Called, Leaving, Queued, TypeOK
  <2>1. TypeOK'
    BY <2>q, <2>c, <2>i DEF TypeOK, Sems, BarberPCs, ClientPCs, BarberStates,
        Handles, NoClient
  <2>2. MutualExclusion'
    BY <2>q, <2>c, <2>i, SMTT(40) DEF MutualExclusion, LockExclusive, BarberHolds,
        ClientHolds, TypeOK, Sems
  <2>3. NoLostWakeup' /\ PeekStillTrue' /\ OneInCare' /\ BarberPhase' /\
      HandlesValid'
    BY <2>q, <2>c, <2>i DEF NoLostWakeup, PeekStillTrue, OneInCare, InCare,
        BarberPhase, Queued, Settled, TypeOK, HandlesValid
  <2>4. QueueSound' /\ ChairOccupied' /\ Invitations'
    BY <2>q, <2>c, <2>i DEF QueueSound, Queued, TypeOK, ChairOccupied,
        Invitations
  <2>5. ClientPhase'
    BY <2>q, <2>c, <2>i DEF ClientPhase, InCare, Queued, AwaitsSeat, TypeOK,
        Sems
  <2>6. Tokens'
    BY <2>q, <2>c, <2>i DEF Tokens, InCare, AwaitsSeat, Settled, TypeOK, Sems
  <2>7. UNCHANGED Shop!shopVars
    BY <2>q, <2>c DEF Shop!shopVars, semVars, BarberPhase
  <2> QED
    BY <2>1, <2>2, <2>3, <2>4, <2>5, <2>6, <2>7
<1>5. CASE RemoveSem(c)
  <2> USE <1>5 DEF RemoveSem, ClientAt, shop, IInv
  <2>q. Waiting' = Waiting /\ queue' = queue
    BY DEF Waiting
  <2>c. Called' = Called /\ Leaving' = Leaving
    BY <2>q DEF Called, Leaving, Queued, TypeOK
  <2>1. TypeOK'
    BY <2>q, <2>c DEF TypeOK, Sems, BarberPCs, ClientPCs, BarberStates, Handles,
        NoClient
  <2>2. MutualExclusion'
    BY <2>q, <2>c DEF MutualExclusion, LockExclusive, BarberHolds, ClientHolds,
        TypeOK, Sems
  <2>3. NoLostWakeup' /\ PeekStillTrue' /\ OneInCare' /\ BarberPhase'
    BY <2>q, <2>c DEF NoLostWakeup, PeekStillTrue, OneInCare, InCare,
        BarberPhase, Queued, Settled, TypeOK
  <2>4. QueueSound' /\ ChairOccupied' /\ Invitations'
    BY <2>q, <2>c DEF QueueSound, Queued, TypeOK, ChairOccupied, Invitations
  <2>5. ClientPhase'
    BY <2>q, <2>c DEF ClientPhase, InCare, Queued, AwaitsSeat, TypeOK, Sems
  <2>6. Tokens'
    BY <2>q, <2>c DEF Tokens, InCare, AwaitsSeat, Settled, TypeOK, Sems
  <2>7. HandlesValid'
    BY <2>q, <2>c DEF HandlesValid, Invitations, BarberPhase, ClientPhase,
        TypeOK, GetClientSem, DistinctKeys
  <2>8. UNCHANGED Shop!shopVars
    BY <2>q, <2>c DEF Shop!shopVars, semVars, BarberPhase
  <2> QED
    BY <2>1, <2>2, <2>3, <2>4, <2>5, <2>6, <2>7, <2>8
<1>6. CASE ClientWait(c, "lock_invited", "BARBER_STATE_LOCK", "sit")
  <2> USE <1>6 DEF ClientWait, ClientAt, barberVars, shop, IInv
  <2>q. Waiting' = Waiting /\ queue' = queue
    BY DEF Waiting
  <2>c. Called' = Called /\ Leaving' = Leaving
    BY <2>q DEF Called, Leaving, Queued, TypeOK
  <2>s. /\ sem' \in [Sems -> Nat]
        /\ sem["BARBER_STATE_LOCK"] > 0 /\ sem'["BARBER_STATE_LOCK"] = sem["BARBER_STATE_LOCK"] - 1
        /\ \A t \in Sems : t # "BARBER_STATE_LOCK" => sem'[t] = sem[t]
    BY WaitEffect DEF Sems
  <2>1. TypeOK'
    BY <2>q, <2>c, <2>s, SMTT(40) DEF TypeOK, Sems, BarberPCs, ClientPCs, BarberStates,
        Handles, NoClient
  <2>2. MutualExclusion'
    BY <2>q, <2>c, <2>s, SMTT(40) DEF MutualExclusion, LockExclusive, BarberHolds,
        ClientHolds, TypeOK, Sems
  <2>3. NoLostWakeup' /\ PeekStillTrue' /\ OneInCare' /\ BarberPhase' /\
      HandlesValid'
    BY <2>q, <2>c, <2>s DEF NoLostWakeup, PeekStillTrue, OneInCare, InCare,
        BarberPhase, Queued, Settled, TypeOK, HandlesValid
  <2>4. QueueSound' /\ ChairOccupied' /\ Invitations'
    BY <2>q, <2>c, <2>s, SMTT(40) DEF QueueSound, Queued, TypeOK, ChairOccupied,
        Invitations
  <2>5. ClientPhase'
    BY <2>q, <2>c, <2>s DEF ClientPhase, InCare, Queued, AwaitsSeat, TypeOK,
        Sems
  <2>6. Tokens'
    BY <2>q, <2>c, <2>s, SMTT(40) DEF Tokens, InCare, AwaitsSeat, Settled, TypeOK, Sems
  <2>7. UNCHANGED Shop!shopVars
    BY <2>q, <2>c DEF Shop!shopVars, semVars, BarberPhase
  <2> QED
    BY <2>1, <2>2, <2>3, <2>4, <2>5, <2>6, <2>7
<1> QED
  BY <1>1, <1>2, <1>3, <1>4, <1>5, <1>6 DEF ClientEnqueue

LEMMA ClientSitStep ==
  ASSUME IInv, DistinctKeys, NEW c \in Clients, ClientSit(c)
  PROVE  IInv' /\ [Shop!ShopNext]_(Shop!shopVars)
<1>1. CASE SitDown(c)
  <2> USE <1>1 DEF SitDown, ClientAt, barberVars, IInv
  <2>q. Waiting' = Waiting /\ queue' = queue
    BY DEF Waiting
  <2>c. Called' = Called /\ Leaving' = Leaving
    BY <2>q DEF Called, Leaving, Queued, TypeOK
  <2>s. /\ sem' \in [Sems -> Nat]
        /\ sem'["BARBER_STATE_LOCK"] = sem["BARBER_STATE_LOCK"] + 1
        /\ \A t \in Sems : t # "BARBER_STATE_LOCK" => sem'[t] = sem[t]
    BY SignalEffect DEF Sems
  <2>1. TypeOK'
    BY <2>q, <2>c, <2>s DEF TypeOK, Sems, BarberPCs, ClientPCs, BarberStates,
        Handles, NoClient
  <2>2. MutualExclusion'
    BY <2>q, <2>c, <2>s DEF MutualExclusion, LockExclusive, BarberHolds,
        ClientHolds, TypeOK, Sems
  <2>3. NoLostWakeup' /\ PeekStillTrue' /\ OneInCare' /\ HandlesValid'
    BY <2>q, <2>c, <2>s DEF NoLostWakeup, PeekStillTrue, OneInCare, InCare,
        HandlesValid, TypeOK
  <2>4. QueueSound' /\ Invitations'
    BY <2>q, <2>c, <2>s DEF QueueSound, Queued, TypeOK, Invitations
  <2>5. ClientPhase'
    BY <2>q, <2>c, <2>s DEF ClientPhase, InCare, Queued, AwaitsSeat, TypeOK,
        Sems
  <2>6. ChairOccupied'
    BY <2>q, <2>c, <2>s DEF ChairOccupied, OneInCare, InCare, Called, Leaving,
        TypeOK, NoClient
  <2>7. BarberPhase'
    BY <2>q, <2>c, <2>s DEF BarberPhase, ClientPhase, Tokens, OneInCare, InCare,
        Called, Leaving, Queued, TypeOK, AwaitsSeat, Settled, Sems,
        HandlesValid, MutualExclusion, LockExclusive, BarberHolds, ClientHolds,
        ChairOccupied
  <2>8. Tokens'
    BY <2>q, <2>c, <2>s DEF Tokens, ClientPhase, BarberPhase, OneInCare, InCare,
        Called, Leaving, Queued, TypeOK, AwaitsSeat, Settled, Sems,
        HandlesValid, NoLostWakeup, ChairOccupied, MutualExclusion,
        LockExclusive, BarberHolds, ClientHolds, DistinctKeys, Keys
  <2>9. UNCHANGED Shop!shopVars
    BY <2>q, <2>c DEF Shop!shopVars, semVars, BarberPhase
  <2> QED
    BY <2>1, <2>2, <2>3, <2>4, <2>5, <2>6, <2>7, <2>8, <2>9
<1>2. CASE ClientSignal(c, "seated", "CURRENT_SEATED", "wait_finished")
  <2> USE <1>2 DEF ClientSignal, ClientAt, barberVars, shop, IInv
  <2>q. Waiting' = Waiting /\ queue' = queue
    BY DEF Waiting
  <2>c. Called' = Called /\ Leaving' = Leaving
    BY <2>q DEF Called, Leaving, Queued, TypeOK
  <2>s. /\ sem' \in [Sems -> Nat]
        /\ sem'["CURRENT_SEATED"] = sem["CURRENT_SEATED"] + 1
        /\ \A t \in Sems : t # "CURRENT_SEATED" => sem'[t] = sem[t]
    BY SignalEffect DEF Sems
  <2>1. TypeOK'
    BY <2>q, <2>c, <2>s DEF TypeOK, Sems, BarberPCs, ClientPCs, BarberStates,
        Handles, NoClient
  <2>2. MutualExclusion'
    BY <2>q, <2>c, <2>s DEF MutualExclusion, LockExclusive, BarberHolds,
        ClientHolds, TypeOK, Sems
  <2>3. NoLostWakeup' /\ PeekStillTrue' /\ OneInCare' /\ BarberPhase' /\
      HandlesValid'
    BY <2>q, <2>c, <2>s DEF NoLostWakeup, PeekStillTrue, OneInCare, InCare,
        BarberPhase, Queued, Settled, TypeOK, HandlesValid
  <2>4. QueueSound' /\ ChairOccupied' /\ Invitations'
    BY <2>q, <2>c, <2>s DEF QueueSound, Queued, TypeOK, ChairOccupied,
        Invitations
  <2>5. ClientPhase'
    BY <2>q, <2>c, <2>s, SMTT(40) DEF ClientPhase, BarberPhase, Tokens, HandlesValid,
        OneInCare, InCare, Called, Leaving, Queued, TypeOK, AwaitsSeat, Settled,
        Sems, NoLostWakeup, MutualExclusion, LockExclusive, BarberHolds,
        ClientHolds, ChairOccupied
  <2>6. Tokens'
    BY <2>q, <2>c, <2>s DEF Tokens, ClientPhase, BarberPhase, OneInCare, InCare,
        Called, Leaving, Queued, TypeOK, AwaitsSeat, Settled, Sems,
        HandlesValid, NoLostWakeup, ChairOccupied, MutualExclusion,
        LockExclusive, BarberHolds, ClientHolds, DistinctKeys, Keys
  <2>7. UNCHANGED Shop!shopVars
    BY <2>q, <2>c DEF Shop!shopVars, semVars, BarberPhase
  <2> QED
    BY <2>1, <2>2, <2>3, <2>4, <2>5, <2>6, <2>7
<1>3. CASE HaircutDone(c)
  <2> USE <1>3 DEF HaircutDone, ClientAt, barberVars, shop, IInv
  <2>q. Waiting' = Waiting /\ queue' = queue
    BY DEF Waiting
  <2>c. Called' = Called \ {c} /\ Leaving' = Leaving \cup {c} /\ c \in Called
    BY <2>q DEF Called, Leaving, Queued, TypeOK
  <2>s. /\ sem' \in [Sems -> Nat]
        /\ sem["FINISHED"] > 0 /\ sem'["FINISHED"] = sem["FINISHED"] - 1
        /\ \A t \in Sems : t # "FINISHED" => sem'[t] = sem[t]
    BY WaitEffect DEF Sems
  <2>1. MutualExclusion'
    BY <2>q, <2>c, <2>s DEF MutualExclusion, LockExclusive, BarberHolds,
        ClientHolds, TypeOK, Sems
  <2>2. NoLostWakeup' /\ PeekStillTrue' /\ OneInCare' /\ HandlesValid'
    BY <2>q, <2>c, <2>s DEF NoLostWakeup, PeekStillTrue, OneInCare, InCare,
        HandlesValid, TypeOK
  <2>3. QueueSound' /\ ChairOccupied' /\ Invitations'
    BY <2>q, <2>c, <2>s DEF QueueSound, Queued, TypeOK, ChairOccupied,
        Invitations
  <2>4. Tokens'
    BY <2>q, <2>c, <2>s, SMTT(40) DEF Tokens, InCare, AwaitsSeat, Settled, TypeOK, Sems
  <2>r. repeats' \in [Clients -> 0..Repeats]
    <3>1. repeats[c] \in 1..Repeats
      BY SMTT(40) DEF TypeOK, ClientPhase
    <3>2. repeats' = [repeats EXCEPT ![c] = repeats[c] - 1]
      OBVIOUS
    <3> QED
      BY <3>1, <3>2 DEF TypeOK
  <2>5. TypeOK'
    BY <2>q, <2>c, <2>s, <2>r, SMTT(40) DEF TypeOK, Sems, BarberPCs, ClientPCs,
        BarberStates, Handles, NoClient
  <2>6. ClientPhase'
    BY <2>q, <2>c, <2>s, SMTT(40) DEF ClientPhase, BarberPhase, Tokens, HandlesValid,
        OneInCare, InCare, Called, Leaving, Queued, TypeOK, AwaitsSeat, Settled,
        Sems, NoLostWakeup, MutualExclusion, LockExclusive, BarberHolds,
        ClientHolds, ChairOccupied
  <2>7. BarberPhase'
    BY <2>q, <2>c, <2>s, SMTT(40) DEF BarberPhase, ClientPhase, Tokens, OneInCare, InCare,
        Called, Leaving, Queued, TypeOK, AwaitsSeat, Settled, Sems,
        HandlesValid, MutualExclusion, LockExclusive, BarberHolds, ClientHolds,
        ChairOccupied
  <2>8. Shop!Serve(c)
    <3>1. Called = {c} /\ Called' = {}
      <4>1. \A d \in Called : d = c
        BY <2>c DEF OneInCare, InCare
      <4> QED
        BY <2>c, <4>1
    <3>2. repeats[c] > 0 /\ repeats' = [repeats EXCEPT ![c] = @ - 1]
      BY DEF ClientPhase
    <3> QED
      BY <2>q, <3>1, <3>2 DEF Shop!Serve
  <2> QED
    BY <2>1, <2>2, <2>3, <2>4, <2>5, <2>6, <2>7, <2>8 DEF Shop!ShopNext
<1>4. CASE LeaveChair(c)
  <2> USE <1>4 DEF LeaveChair, ClientAt, barberVars, semVars, IInv
  <2>q. Waiting' = Waiting /\ queue' = queue
    BY DEF Waiting
  <2>c. Called' = Called /\ Leaving' = Leaving
    BY <2>q DEF Called, Leaving, Queued, TypeOK
  <2>1. TypeOK'
    BY <2>q, <2>c DEF TypeOK, Sems, BarberPCs, ClientPCs, BarberStates, Handles,
        NoClient
  <2>2. MutualExclusion'
    BY <2>q, <2>c DEF MutualExclusion, LockExclusive, BarberHolds, ClientHolds,
        TypeOK, Sems
  <2>3. NoLostWakeup' /\ PeekStillTrue' /\ OneInCare' /\ HandlesValid'
    BY <2>q, <2>c DEF NoLostWakeup, PeekStillTrue, OneInCare, InCare,
        HandlesValid, TypeOK
  <2>4. QueueSound' /\ Invitations'
    BY <2>q, <2>c DEF QueueSound, Queued, TypeOK, Invitations
  <2>5. ClientPhase'
    BY <2>q, <2>c DEF ClientPhase, InCare, Queued, AwaitsSeat, TypeOK, Sems
  <2>6. ChairOccupied'
    BY <2>q, <2>c DEF ChairOccupied, OneInCare, InCare, Called, Leaving, TypeOK,
        NoClient
  <2>7. BarberPhase'
    BY <2>q, <2>c DEF BarberPhase, ClientPhase, Tokens, OneInCare, InCare,
        Called, Leaving, Queued, TypeOK, AwaitsSeat, Settled, Sems,
        HandlesValid, MutualExclusion, LockExclusive, BarberHolds, ClientHolds,
        ChairOccupied
  <2>8. Tokens'
    BY <2>q, <2>c DEF Tokens, ClientPhase, BarberPhase, OneInCare, InCare,
        Called, Leaving, Queued, TypeOK, AwaitsSeat, Settled, Sems,
        HandlesValid, NoLostWakeup, ChairOccupied, MutualExclusion,
        LockExclusive, BarberHolds, ClientHolds, DistinctKeys, Keys
  <2>9. UNCHANGED Shop!shopVars
    BY <2>q, <2>c DEF Shop!shopVars, semVars, BarberPhase
  <2> QED
    BY <2>1, <2>2, <2>3, <2>4, <2>5, <2>6, <2>7, <2>8, <2>9
<1>5. CASE ClientSignal(c, "left", "LEFT", "outside")
  <2> USE <1>5 DEF ClientSignal, ClientAt, barberVars, shop, IInv
  <2>q. Waiting' = Waiting /\ queue' = queue
    BY DEF Waiting
  <2>c. Called' = Called /\ Leaving' = Leaving \ {c}
        /\ c \in Leaving /\ c \notin Called
    BY <2>q DEF Called, Leaving, Queued, TypeOK
  <2>s. /\ sem' \in [Sems -> Nat]
        /\ sem'["LEFT"] = sem["LEFT"] + 1
        /\ \A t \in Sems : t # "LEFT" => sem'[t] = sem[t]
    BY SignalEffect DEF Sems
  <2>1. TypeOK'
    BY <2>q, <2>c, <2>s, SMTT(40) DEF TypeOK, Sems, BarberPCs, ClientPCs, BarberStates,
        Handles, NoClient
  <2>2. MutualExclusion'
    BY <2>q, <2>c, <2>s DEF MutualExclusion, LockExclusive, BarberHolds,
        ClientHolds, TypeOK, Sems
  <2>3. NoLostWakeup' /\ PeekStillTrue' /\ OneInCare' /\ BarberPhase' /\
      HandlesValid'
    BY <2>q, <2>c, <2>s DEF NoLostWakeup, PeekStillTrue, OneInCare, InCare,
        BarberPhase, Queued, Settled, TypeOK, HandlesValid
  <2>4. QueueSound' /\ ChairOccupied' /\ Invitations'
    BY <2>q, <2>c, <2>s, SMTT(40) DEF QueueSound, Queued, TypeOK, ChairOccupied,
        Invitations
  <2>5. ClientPhase'
    BY <2>q, <2>c, <2>s DEF ClientPhase, InCare, Queued, AwaitsSeat, TypeOK,
        Sems
  <2>6. Tokens'
    BY <2>q, <2>c, <2>s DEF Tokens, ClientPhase, OneInCare, InCare, AwaitsSeat,
        Settled, ChairOccupied, TypeOK, Sems
  <2>7. UNCHANGED Shop!shopVars
    BY <2>q, <2>c DEF Shop!shopVars, semVars, BarberPhase
  <2> QED
    BY <2>1, <2>2, <2>3, <2>4, <2>5, <2>6, <2>7
<1> QED
  BY <1>1, <1>2, <1>3, <1>4, <1>5 DEF ClientSit

LEMMA NextStep ==
  ASSUME IInv, DistinctKeys, [Next]_vars
  PROVE  IInv' /\ [Shop!ShopNext]_(Shop!shopVars)
<1>1. CASE Barber
  BY <1>1, BarberSleepStep, BarberCutStep, BarberInviteStep DEF Barber
<1>2. ASSUME NEW c \in Clients, Client(c)
      PROVE  IInv' /\ [Shop!ShopNext]_(Shop!shopVars)
  BY <1>2, ClientExitStep, ClientComeInStep, ClientEnqueueStep, ClientSitStep DEF Client
<1>3. CASE UNCHANGED vars
  <2> USE <1>3 DEF vars, barberVars, clientVars, shop, semVars
  <2>1. Waiting' = Waiting /\ Called' = Called /\ Leaving' = Leaving
    BY DEF Waiting, Called, Leaving, Queued
  <2>2. TypeOK' /\ MutualExclusion' /\ QueueSound' /\ HandlesValid'
    BY <2>1 DEF IInv, TypeOK, MutualExclusion, LockExclusive, QueueSound, Queued, HandlesValid
  <2>3. NoLostWakeup' /\ PeekStillTrue' /\ OneInCare' /\ ChairOccupied'
    BY <2>1 DEF IInv, NoLostWakeup, PeekStillTrue, OneInCare, InCare, ChairOccupied
  <2>4. ClientPhase' /\ BarberPhase'
    BY <2>1 DEF IInv, ClientPhase, BarberPhase, InCare, Queued, Settled
  <2>5. Tokens' /\ Invitations'
    BY <2>1 DEF IInv, Tokens, Invitations, InCare, Queued, Settled
  <2>6. UNCHANGED Shop!shopVars
    BY <2>1 DEF Shop!shopVars
  <2> QED
    BY <2>2, <2>3, <2>4, <2>5, <2>6 DEF IInv
<1> QED
  BY <1>1, <1>2, <1>3 DEF Next, ShopClosed

(* The invariant of the protocol holds in every reachable state.           *)
THEOREM BarberInvariant == ASSUME DistinctKeys PROVE Spec => []IInv
<1>1. IInv /\ [Next]_vars => IInv'
  BY NextStep
<1> QED
  BY InitIInv, <1>1, PTL DEF Spec

(* Every variable keeps its type; in particular no client's count of       *)
(* haircuts ever passes zero, which client.c's "if(repeats)" relies on.    *)
THEOREM BarberTypeCorrect == ASSUME DistinctKeys PROVE Spec => []TypeOK
<1>1. IInv => TypeOK
  BY DEF IInv
<1> QED
  BY BarberInvariant, <1>1, PTL

(* No assert() of barber.c or client.c can fail, whatever the interleaving.*)
THEOREM BarberAssertsHold == ASSUME DistinctKeys PROVE Spec => []AssertsHold
<1>1. ASSUME IInv PROVE AssertsHold
  <2> USE <1>1 DEF IInv
  <2>1. bpc \in {"lock_after_sleep", "cut"} => seated_client > 0
    BY DEF BarberPhase, Settled
  <2>2. bpc \in {"lock_after_cut", "invite"} => seated_client <= 0
    <3>1. bpc \in {"lock_after_cut", "invite"} =>
              \A c \in Clients : cpc[c] \notin {"seated", "wait_finished", "leave"}
      BY DEF ClientPhase, Leaving, AwaitsSeat
    <3>2. bpc \in {"lock_after_cut", "invite"} => seated_client = NoClient
      BY <3>1 DEF ChairOccupied, TypeOK
    <3> QED
      BY <3>2 DEF NoClient
  <2>3. bpc = "lock_after_invite" => seated_client = next_client
    <3> SUFFICES ASSUME bpc = "lock_after_invite" PROVE seated_client = next_client
      OBVIOUS
    <3>1. PICK c \in Clients : Settled(c)
      BY DEF BarberPhase
    <3>2. c \in InCare
      BY <3>1 DEF Settled, InCare, Called
    <3> QED
      BY <3>1, <3>2 DEF ClientPhase, Settled
  <2>4. \A c \in Clients : cpc[c] = "sit" => seated_client <= 0
    <3>1. ASSUME NEW c \in Clients, cpc[c] = "sit", NEW d \in Clients
          PROVE  seated_client # d
      <4>1. c \in InCare /\ (seated_client = d => d \in InCare)
        BY <3>1 DEF ChairOccupied, InCare, Called, Leaving
      <4>2. seated_client = d => d = c
        BY <4>1 DEF OneInCare
      <4> QED
        BY <3>1, <4>2 DEF ChairOccupied
    <3> QED
      BY <3>1 DEF TypeOK, NoClient
  <2> QED
    BY <2>1, <2>2, <2>3, <2>4 DEF AssertsHold
<1> QED
  BY BarberInvariant, <1>1, PTL

(* BARBER_STATE_LOCK and QUEUE_LOCK are locks: one holder at most.         *)
THEOREM BarberMutualExclusion == ASSUME DistinctKeys PROVE Spec => []MutualExclusion
<1>1. IInv => MutualExclusion
  BY DEF IInv
<1> QED
  BY BarberInvariant, <1>1, PTL

(* The barber never sleeps while a client waits.                           *)
THEOREM BarberNoLostWakeup == ASSUME DistinctKeys PROVE Spec => []NoLostWakeup
<1>1. IInv => NoLostWakeup
  BY DEF IInv
<1> QED
  BY BarberInvariant, <1>1, PTL

(* What the barber has seen of the queue without holding its lock is still *)
(* so when he acts on it.                                                  *)
THEOREM BarberPeekStillTrue == ASSUME DistinctKeys PROVE Spec => []PeekStillTrue
<1>1. IInv => PeekStillTrue
  BY DEF IInv
<1> QED
  BY BarberInvariant, <1>1, PTL

(* The queue holds at most Chairs clients, none of them twice.             *)
THEOREM BarberQueueSound == ASSUME DistinctKeys PROVE Spec => []QueueSound
<1>1. IInv => QueueSound
  BY DEF IInv
<1> QED
  BY BarberInvariant, <1>1, PTL

(* The semaphore protocol implements BarberShop: first come first served,  *)
(* one client at a time, no sleep while somebody waits.                    *)
THEOREM BarberImplementsShop == ASSUME DistinctKeys PROVE Spec => ImplementsShop
<1>1. Init => Shop!ShopInit
  <2> SUFFICES ASSUME Init PROVE Shop!ShopInit
    OBVIOUS
  <2>1. Called = {}
    BY DEF Init, Called, Queued
  <2> QED
    BY <2>1 DEF Init, Shop!ShopInit
<1>2. IInv /\ [Next]_vars => [Shop!ShopNext]_(Shop!shopVars)
  BY NextStep
<1> QED
  BY <1>1, <1>2, BarberInvariant, PTL DEF Spec, ImplementsShop, Shop!ShopSpec
=============================================================================

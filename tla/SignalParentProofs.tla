------------------------- MODULE SignalParentProofs -------------------------
(***************************************************************************)
(* Proofs about SignalParent, for any number of children and of requests   *)
(* to wait for.                                                            *)
(*                                                                         *)
(* Permission: the byte of allowed that a request sets, be it allowed[-1], *)
(* stands for a child that has asked and for no other byte; so there are   *)
(* at least request_count children that have asked.                        *)
(*                                                                         *)
(* alive: a SIGCHLD that is lost, or that comes between the load and the   *)
(* store of ++alive, leaves alive too high, and nothing makes it too low.  *)
(***************************************************************************)
EXTENDS SignalParent, FiniteSetTheorems, TLAPS

Asked == {p \in Pids : cpc[p] \in {"pause", "gone"}}
Gone == {p \in Pids : cpc[p] = "gone"}
AllowedSlots == {s \in Slots : allowed[s]}

(* Children are forked and recorded in order, and main runs until the end. *)
MainShape ==
    /\ mpc \in {"fork", "load", "store", "record"} => i < N
    /\ mpc = "spin" => i = N
    /\ outcome = "running" <=> mpc # "done"
    /\ \A s \in Slots : children[s] \in {s + 1, NoPid}
    /\ mpc = "fork" => \A p \in Pids : p > i => cpc[p] = "unborn"
    /\ mpc \in {"load", "store", "record"} => \A p \in Pids : p > i + 1 => cpc[p] = "unborn"

(* A child that is allowed has asked; one whose signal is pending has, and *)
(* has not been allowed; and allowed[-1] is for one more.                  *)
AskedOnce ==
    /\ \A s \in Slots : allowed[s] => s + 1 \in Asked
    /\ usr1 # NoPid => usr1 \in Asked /\ ~allowed[usr1 - 1]
    /\ stray => \E p \in Asked : p # usr1 /\ ~allowed[p - 1]

RequestsCounted ==
    request_count = Cardinality(AllowedSlots) + IF stray THEN 1 ELSE 0

AnswersJustified ==
    (\E p \in Pids : p \in alrm \/ (cpc[p] = "gone" /\ outcome # "interrupted"))
        => K <= request_count

(* What alive has to be at least, and at most.                             *)
Stored == IF mpc = "record" THEN i + 1 ELSE i
Left == Stored - Cardinality(Gone) + IF chld = NoPid THEN 0 ELSE 1

AliveNotTooLow ==
    mpc # "done" =>
        /\ Left <= alive /\ alive <= Stored
        /\ mpc = "store" => Left <= reg /\ reg <= i

IInv ==
    /\ TypeOK /\ MainShape /\ AskedOnce /\ RequestsCounted /\ AnswersJustified
    /\ AliveNotTooLow /\ ParentOutlivesChildren
-----------------------------------------------------------------------------
LEMMA FiniteSets ==
    /\ IsFiniteSet(Pids) /\ Cardinality(Pids) = N
    /\ IsFiniteSet(Asked) /\ Cardinality(Asked) \in 0..N
    /\ IsFiniteSet(Gone) /\ Cardinality(Gone) \in 0..N
    /\ Cardinality(Gone) = N => Gone = Pids
    /\ IsFiniteSet(AllowedSlots) /\ Cardinality(AllowedSlots) \in Nat
<1>1. N \in Nat /\ N - 1 \in Int /\ N >= 1
  BY SignalAssumption
<1>2. IsFiniteSet(Pids) /\ Cardinality(Pids) = N
  BY <1>1, FS_Interval DEF Pids
<1>3. IsFiniteSet(Slots)
  BY <1>1, FS_Interval DEF Slots
<1>4. Asked \in SUBSET Pids /\ Gone \in SUBSET Pids /\ AllowedSlots \in SUBSET Slots
  BY DEF Asked, Gone, AllowedSlots
<1>5. IsFiniteSet(Asked) /\ Cardinality(Asked) <= N
  BY <1>2, <1>4, FS_Subset
<1>6. /\ IsFiniteSet(Gone) /\ Cardinality(Gone) <= N
      /\ Cardinality(Gone) = N => Gone = Pids
  BY <1>2, <1>4, FS_Subset
<1>7. IsFiniteSet(AllowedSlots)
  BY <1>3, <1>4, FS_Subset
<1>8. Cardinality(Asked) \in Nat /\ Cardinality(Gone) \in Nat /\ Cardinality(AllowedSlots) \in Nat
  BY <1>5, <1>6, <1>7, FS_CardinalityType
<1> QED
  BY <1>1, <1>2, <1>5, <1>6, <1>7, <1>8

(* A child is found in its own place or nowhere.                           *)
LEMMA ChildId ==
  ASSUME MainShape, NEW p \in Pids
  PROVE  /\ get_child_id(p) = IF children[p - 1] = p THEN p - 1 ELSE -1
         /\ p - 1 \in Slots
<1>1. p - 1 \in Slots /\ p # NoPid /\ (p - 1) + 1 = p
  BY SignalAssumption DEF Pids, Slots, NoPid
<1>2. \A s \in Slots : children[s] = p => s = p - 1
  BY <1>1 DEF MainShape, Pids, Slots
<1>3. CASE children[p - 1] = p
  <2>1. p - 1 = CHOOSE s \in Slots : children[s] = p /\ \A r \in 0..(s - 1) : children[r] # p
    <3>1. \A r \in 0..((p - 1) - 1) : r \in Slots /\ r # p - 1
      BY <1>1, SignalAssumption DEF Slots, Pids
    <3>2. \A r \in 0..((p - 1) - 1) : children[r] # p
      BY <1>2, <3>1
    <3> QED
      BY <1>1, <1>2, <1>3, <3>2
  <2> QED
    BY <1>1, <1>3, <2>1 DEF get_child_id
<1>4. CASE children[p - 1] # p
  BY <1>1, <1>2, <1>4 DEF get_child_id
<1> QED
  BY <1>1, <1>3, <1>4

(* For every request counted there is a child that has asked.              *)
LEMMA RequestsAreAsked ==
    AskedOnce /\ RequestsCounted => request_count \in 0..Cardinality(Asked)
<1> SUFFICES ASSUME AskedOnce, RequestsCounted PROVE request_count \in 0..Cardinality(Asked)
  OBVIOUS
<1>1. \A s \in AllowedSlots : s \in Slots /\ s + 1 \in Asked /\ allowed[s]
  BY DEF AskedOnce, AllowedSlots
<1>2. \A s \in Slots : s \in Int /\ s # -1
  BY SignalAssumption DEF Slots
<1>3. CASE ~stray
  <2> DEFINE f == [s \in AllowedSlots |-> s + 1]
  <2>1. f \in Injection(AllowedSlots, Asked)
    <3>1. f \in [AllowedSlots -> Asked]
      BY <1>1
    <3>2. \A s, t \in AllowedSlots : f[s] = f[t] => s = t
      BY <1>1, <1>2
    <3> HIDE DEF f
    <3> QED
      BY <3>1, <3>2 DEF Injection, IsInjective
  <2>2. Cardinality(AllowedSlots) <= Cardinality(Asked)
    BY <2>1, FiniteSets, FS_Injection
  <2> QED
    BY <1>3, <2>2, FiniteSets DEF RequestsCounted
<1>4. CASE stray
  <2>1. PICK w \in Asked : ~allowed[w - 1]
    BY <1>4 DEF AskedOnce
  <2> DEFINE S == AllowedSlots \cup {-1}
             f == [s \in S |-> IF s = -1 THEN w ELSE s + 1]
  <2>2. \A s \in AllowedSlots : s + 1 # w
    <3> SUFFICES ASSUME NEW s \in AllowedSlots, s + 1 = w PROVE FALSE
      OBVIOUS
    <3>1. w - 1 = s
      BY <1>1, <1>2
    <3> QED
      BY <1>1, <2>1, <3>1
  <2>3. f \in Injection(S, Asked)
    <3>1. f \in [S -> Asked]
      BY <1>1, <2>1
    <3>2. \A s, t \in S : f[s] = f[t] => s = t
      BY <1>1, <1>2, <2>2
    <3> HIDE DEF f, S
    <3> QED
      BY <3>1, <3>2 DEF Injection, IsInjective
  <2>4. Cardinality(S) <= Cardinality(Asked)
    BY <2>3, FiniteSets, FS_Injection
  <2>5. Cardinality(S) = Cardinality(AllowedSlots) + 1
    BY <1>1, <1>2, FiniteSets, FS_AddElement
  <2> QED
    BY <1>4, <2>4, <2>5, FiniteSets DEF RequestsCounted
<1> QED
  BY <1>3, <1>4

(* With the books as they should be the counters are in their range.       *)
LEMMA AliveInRange ==
    mpc # "done" /\ i \in 0..N /\ (mpc = "record" => i < N) /\ AliveNotTooLow
        /\ alive \in Int /\ reg \in Int
        => alive \in -N..N /\ (mpc = "store" => reg \in -N..N)
<1> SUFFICES ASSUME mpc # "done", i \in 0..N, mpc = "record" => i < N, AliveNotTooLow,
                    alive \in Int, reg \in Int
             PROVE  alive \in -N..N /\ (mpc = "store" => reg \in -N..N)
  OBVIOUS
<1>1. Stored \in 0..N /\ (mpc = "store" => Stored = i)
  BY SignalAssumption DEF Stored
<1>2. Left \in Int /\ Left >= -N
  BY <1>1, FiniteSets, SignalAssumption DEF Left
<1> QED
  BY <1>1, <1>2, SignalAssumption DEF AliveNotTooLow
-----------------------------------------------------------------------------
LEMMA Init_IInv == Init => IInv
<1> SUFFICES ASSUME Init PROVE IInv
  OBVIOUS
<1> USE SignalAssumption DEF Init
<1>1. TypeOK
  <2>1. i \in 0..N /\ reg \in -N..N /\ request_count \in 0..N /\ alive \in -N..N
    OBVIOUS
  <2>2. stray \in BOOLEAN /\ lost \in BOOLEAN
    OBVIOUS
  <2>3. allowed \in [Slots -> BOOLEAN]
    OBVIOUS
  <2> QED
    BY <2>1, <2>2, <2>3 DEF TypeOK
<1>2. MainShape
  BY DEF MainShape, Slots, Pids, NoPid
<1>3. Asked = {} /\ Gone = {} /\ AllowedSlots = {}
  BY DEF Asked, Gone, AllowedSlots
<1>4. AskedOnce /\ RequestsCounted /\ AnswersJustified
  BY <1>3, FS_EmptySet DEF AskedOnce, RequestsCounted, AnswersJustified, NoPid
<1>5. AliveNotTooLow
  BY <1>3, FS_EmptySet DEF AliveNotTooLow, Left, Stored, NoPid
<1> QED
  BY <1>1, <1>2, <1>4, <1>5 DEF IInv, ParentOutlivesChildren

(* What main does to its index and to alive leaves the requests alone.     *)
LEMMA RequestsUntouched ==
  ASSUME IInv, UNCHANGED <<allowed, stray, request_count, usr1, alrm>>,
         Asked' = Asked, Gone' = Gone, outcome' # "interrupted" \/ outcome = "interrupted"
  PROVE  AskedOnce' /\ RequestsCounted' /\ (outcome # "interrupted" => AnswersJustified')
<1>1. AllowedSlots' = AllowedSlots
  BY DEF AllowedSlots
<1>2. AskedOnce' /\ RequestsCounted'
  BY <1>1 DEF IInv, AskedOnce, RequestsCounted
<1>3. ASSUME outcome # "interrupted" PROVE AnswersJustified'
  BY <1>3 DEF IInv, AnswersJustified, Gone
<1> QED
  BY <1>2, <1>3

LEMMA ForkStep == IInv /\ Fork => IInv'
<1> SUFFICES ASSUME IInv, Fork PROVE IInv'
  OBVIOUS
<1> USE SignalAssumption DEF Fork, MainAt, books, signals
<1>1. /\ mpc = "fork" /\ mpc' = "load" /\ i \in 0..(N - 1) /\ i + 1 \in Pids
      /\ cpc[i + 1] = "unborn" /\ outcome = "running"
  BY DEF IInv, TypeOK, MainShape, Pids
<1>2. TypeOK'
  BY <1>1 DEF IInv, TypeOK
<1>3. MainShape'
  BY <1>1 DEF IInv, MainShape, TypeOK, Pids
<1>4. Asked' = Asked /\ Gone' = Gone
  BY <1>1 DEF IInv, TypeOK, Asked, Gone
<1>5. AskedOnce' /\ RequestsCounted' /\ AnswersJustified'
  BY <1>1, <1>4, RequestsUntouched
<1>6. AliveNotTooLow' /\ ParentOutlivesChildren'
  BY <1>1, <1>4 DEF IInv, AliveNotTooLow, Left, Stored, ParentOutlivesChildren
<1> QED
  BY <1>2, <1>3, <1>5, <1>6 DEF IInv

LEMMA LoadAliveStep == IInv /\ LoadAlive => IInv'
<1> SUFFICES ASSUME IInv, LoadAlive PROVE IInv'
  OBVIOUS
<1> USE DEF LoadAlive, MainAt, books, signals
<1>1. mpc = "load" /\ mpc' = "store" /\ outcome = "running"
  BY DEF IInv, MainShape
<1>2. TypeOK' /\ MainShape'
  BY <1>1 DEF IInv, TypeOK, MainShape
<1>3. Asked' = Asked /\ Gone' = Gone
  BY DEF Asked, Gone
<1>4. AskedOnce' /\ RequestsCounted' /\ AnswersJustified'
  BY <1>1, <1>3, RequestsUntouched
<1>5. AliveNotTooLow' /\ ParentOutlivesChildren'
  BY <1>1, <1>3 DEF IInv, AliveNotTooLow, Left, Stored, ParentOutlivesChildren
<1> QED
  BY <1>2, <1>4, <1>5 DEF IInv

LEMMA StoreAliveStep == IInv /\ StoreAlive => IInv'
<1> SUFFICES ASSUME IInv, StoreAlive PROVE IInv'
  OBVIOUS
<1> USE SignalAssumption DEF StoreAlive, MainAt, books, signals
<1>1. /\ mpc = "store" /\ mpc' = "record" /\ outcome = "running"
      /\ i \in 0..N /\ i < N /\ reg \in Int /\ Cardinality(Gone) \in 0..N
  BY FiniteSets DEF IInv, TypeOK, MainShape
<1>2. MainShape'
  BY <1>1 DEF IInv, MainShape
<1>3. Asked' = Asked /\ Gone' = Gone
  BY DEF Asked, Gone
<1>4. AskedOnce' /\ RequestsCounted' /\ AnswersJustified'
  BY <1>1, <1>3, RequestsUntouched
<1>5. AliveNotTooLow' /\ ParentOutlivesChildren'
  BY <1>1, <1>3 DEF IInv, AliveNotTooLow, Left, Stored, ParentOutlivesChildren
<1>6. alive' \in -N..N
  BY <1>1, <1>5, AliveInRange DEF IInv, AliveNotTooLow, Left, Stored
<1>7. TypeOK'
  BY <1>1, <1>6 DEF IInv, TypeOK
<1> QED
  BY <1>2, <1>4, <1>5, <1>7 DEF IInv

LEMMA RecordStep == IInv /\ Record => IInv'
<1> SUFFICES ASSUME IInv, Record PROVE IInv'
  OBVIOUS
<1> USE SignalAssumption DEF Record, MainAt, signals
<1>1. /\ mpc = "record" /\ mpc' = IF i + 1 = N THEN "spin" ELSE "fork"
      /\ outcome = "running" /\ i \in 0..(N - 1) /\ i + 1 \in Pids /\ i \in Slots
  BY DEF IInv, TypeOK, MainShape, Pids, Slots
<1>2. TypeOK' /\ MainShape'
  BY <1>1 DEF IInv, TypeOK, MainShape, Pids, Slots
<1>3. Asked' = Asked /\ Gone' = Gone
  BY DEF Asked, Gone
<1>4. AskedOnce' /\ RequestsCounted' /\ AnswersJustified'
  BY <1>1, <1>3, RequestsUntouched
<1>5. AliveNotTooLow' /\ ParentOutlivesChildren'
  BY <1>1, <1>3 DEF IInv, AliveNotTooLow, Left, Stored, ParentOutlivesChildren
<1> QED
  BY <1>2, <1>4, <1>5 DEF IInv

(* When alive is 0 all have gone.                                          *)
LEMMA SpinEndsStep == IInv /\ SpinEnds => IInv'
<1> SUFFICES ASSUME IInv, SpinEnds PROVE IInv'
  OBVIOUS
<1> USE SignalAssumption DEF SpinEnds, MainAt, books, signals
<1>1. /\ mpc = "spin" /\ mpc' = "done" /\ i = N /\ alive <= 0 /\ alive \in Int
      /\ outcome = "running" /\ outcome' \in {"aborted", "returned"}
  BY DEF IInv, TypeOK, MainShape
<1>2. Cardinality(Gone) = N
  BY <1>1, FiniteSets DEF IInv, AliveNotTooLow, Left, Stored
<1>3. \A p \in Pids : cpc[p] = "gone"
  BY <1>2, FiniteSets DEF Gone
<1>4. TypeOK' /\ MainShape'
  BY <1>1 DEF IInv, TypeOK, MainShape
<1>5. Asked' = Asked /\ Gone' = Gone
  BY DEF Asked, Gone
<1>6. AskedOnce' /\ RequestsCounted' /\ AnswersJustified'
  BY <1>1, <1>5, RequestsUntouched
<1>7. AliveNotTooLow' /\ ParentOutlivesChildren'
  BY <1>1, <1>3 DEF AliveNotTooLow, ParentOutlivesChildren
<1> QED
  BY <1>4, <1>6, <1>7 DEF IInv

(* The first request of a child is one more request, and one more child    *)
(* that has asked.                                                         *)
LEMMA RequestStep == IInv /\ request_handler => IInv'
<1> SUFFICES ASSUME IInv, request_handler PROVE IInv'
  OBVIOUS
<1> DEFINE id == get_child_id(usr1)
<1>1. /\ mpc # "done" /\ usr1 # NoPid /\ usr1' = NoPid /\ outcome = "running"
      /\ UNCHANGED <<i, reg, children, alive, chld, cpc>>
      /\ usr1 \in Pids /\ usr1 \in Asked /\ ~allowed[usr1 - 1]
  BY DEF request_handler, IInv, TypeOK, MainShape, AskedOnce
<1>2. /\ id = IF children[usr1 - 1] = usr1 THEN usr1 - 1 ELSE -1
      /\ usr1 - 1 \in Slots
  BY <1>1, ChildId DEF IInv
<1>3. /\ request_count' = IF (IF id = -1 THEN ~stray ELSE ~allowed[id])
                            THEN request_count + 1 ELSE request_count
      /\ allowed' = [s \in Slots |-> s = id \/ allowed[s]]
      /\ stray' = (stray \/ id = -1)
      /\ \E to \in SUBSET (Pids \cup {NoPid}) :
             send_allow(to) /\ (to # {} => request_count' >= K)
  <2>1. CountRequest(id) /\ Answer(usr1)
    BY DEF request_handler
  <2>2. {children[s] : s \in {t \in Slots : allowed'[t]}} \in SUBSET (Pids \cup {NoPid})
    BY DEF IInv, TypeOK
  <2>3. request_count' \in Int
    BY <2>1 DEF CountRequest, IInv, TypeOK
  <2> QED
    BY <1>1, <2>1, <2>2, <2>3, SignalAssumption DEF CountRequest, Answer
<1> HIDE DEF id
<1>31. \A s \in Slots : allowed'[s] <=> s = id \/ allowed[s]
  BY <1>3, Zenon
<1>4. id \in {usr1 - 1, -1} /\ \A s \in Slots : s \in Int /\ s >= 0
  BY <1>2 DEF Slots
<1>5. PICK to \in SUBSET (Pids \cup {NoPid}) :
             send_allow(to) /\ (to # {} => request_count' >= K)
  BY <1>3
<1>6. Asked' = Asked /\ Gone' = Gone
  BY <1>1 DEF Asked, Gone
<1>7. AskedOnce'
  <2>1. \A s \in Slots : allowed'[s] => s + 1 \in Asked
    <3>1. usr1 - 1 + 1 = usr1
      BY <1>1 DEF Pids
    <3> QED
      BY <1>1, <1>31, <1>4, <3>1 DEF IInv, AskedOnce
  <2>2. stray' => \E p \in Asked : p # NoPid /\ ~allowed'[p - 1]
    <3>1. \A p \in Asked : p \in Pids /\ p # NoPid /\ p - 1 \in Slots
      BY SignalAssumption DEF Asked, Pids, NoPid, Slots
    <3>2. CASE id = -1
      <4>1. ~allowed'[usr1 - 1]
        BY <1>1, <1>2, <1>31, <1>4, <3>2
      <4> QED
        BY <1>1, <3>1, <4>1
    <3>3. CASE id # -1
      <4> SUFFICES ASSUME stray PROVE \E p \in Asked : p # NoPid /\ ~allowed'[p - 1]
        BY <1>3, <3>3
      <4>1. PICK p \in Asked : p # usr1 /\ ~allowed[p - 1]
        BY DEF IInv, AskedOnce
      <4>2. p - 1 # usr1 - 1
        BY <1>1, <3>1, <4>1 DEF Pids
      <4>3. ~allowed'[p - 1]
        BY <1>31, <1>4, <3>1, <3>3, <4>1, <4>2
      <4> QED
        BY <3>1, <4>3
    <3> QED
      BY <3>2, <3>3
  <2> QED
    BY <1>1, <1>6, <2>1, <2>2 DEF AskedOnce
<1>8. RequestsCounted' /\ request_count' >= request_count /\ request_count' \in Int
  <2>1. /\ IsFiniteSet(AllowedSlots) /\ Cardinality(AllowedSlots) \in Nat
        /\ request_count = Cardinality(AllowedSlots) + IF stray THEN 1 ELSE 0
    BY FiniteSets DEF IInv, RequestsCounted
  <2>2. CASE id = -1
    <3>1. AllowedSlots' = AllowedSlots
      BY <1>31, <1>4, <2>2 DEF AllowedSlots
    <3>11. stray'
      BY <1>3, <2>2, Zenon
    <3>2. request_count' = IF stray THEN request_count ELSE request_count + 1
      BY <1>3, <2>2
    <3> QED
      BY <2>1, <3>1, <3>11, <3>2 DEF RequestsCounted
  <2>3. CASE id # -1
    <3>1. id = usr1 - 1 /\ id \notin AllowedSlots /\ AllowedSlots' = AllowedSlots \cup {id}
      BY <1>1, <1>2, <1>31, <1>4, <2>3 DEF AllowedSlots
    <3>2. request_count' = request_count + 1 /\ stray' = stray
      <4>1. ~allowed[id]
        BY <1>1, <3>1
      <4>2. request_count' = IF ~allowed[id] THEN request_count + 1 ELSE request_count
        BY <1>3, <2>3, Zenon
      <4>3. stray \in BOOLEAN /\ stray' = (stray \/ id = -1)
        BY <1>3 DEF IInv, TypeOK
      <4> QED
        BY <4>1, <4>2, <4>3, <2>3, Zenon
    <3>3. Cardinality(AllowedSlots \cup {id}) = Cardinality(AllowedSlots) + 1
      BY <2>1, <3>1, FS_AddElement
    <3> QED
      BY <2>1, <3>1, <3>2, <3>3 DEF RequestsCounted
  <2> QED
    BY <2>2, <2>3
<1>9. request_count' \in 0..N
  <2>1. (AskedOnce /\ RequestsCounted => request_count \in 0..Cardinality(Asked))'
    BY RequestsAreAsked, PTL
  <2> QED
    BY <1>6, <1>7, <1>8, <2>1, FiniteSets, SignalAssumption
<1>10. /\ outcome' \in {"running", "killed"} /\ mpc' \in {mpc, "done"}
       /\ (outcome' = "running" <=> mpc' # "done") /\ (mpc' = "done" => outcome' = "killed")
       /\ alrm' \subseteq Pids /\ (alrm' # {} => alrm # {} \/ to # {})
  BY <1>1, <1>5 DEF send_allow, IInv, TypeOK
<1>11. TypeOK'
  <2>1. stray' \in BOOLEAN /\ allowed' \in [Slots -> BOOLEAN]
    BY <1>3 DEF IInv, TypeOK
  <2>2. lost' \in BOOLEAN
    BY DEF request_handler, IInv, TypeOK
  <2> QED
    BY <1>1, <1>9, <1>10, <2>1, <2>2 DEF IInv, TypeOK
<1>12. MainShape'
  BY <1>1, <1>10 DEF IInv, MainShape
<1>13. AnswersJustified'
  <2>1. alrm' # {} \/ Gone # {} => K <= request_count \/ K <= request_count'
    BY <1>1, <1>5, <1>8, <1>10, SignalAssumption DEF IInv, AnswersJustified, Gone, TypeOK
  <2>2. alrm' # {} \/ Gone # {} => K <= request_count'
    BY <1>8, <2>1, SignalAssumption DEF IInv, TypeOK
  <2> QED
    BY <1>1, <2>2 DEF AnswersJustified, Gone
<1>14. AliveNotTooLow' /\ ParentOutlivesChildren'
  BY <1>1, <1>6, <1>10 DEF IInv, AliveNotTooLow, Left, Stored, ParentOutlivesChildren
<1> QED
  BY <1>7, <1>8, <1>11, <1>12, <1>13, <1>14 DEF IInv

LEMMA SigchldStep == IInv /\ sigchld_handler => IInv'
<1> SUFFICES ASSUME IInv, sigchld_handler PROVE IInv'
  OBVIOUS
<1>1. /\ mpc # "done" /\ chld # NoPid /\ chld' = NoPid /\ alive' = alive - 1
      /\ children' = [s \in Slots |-> IF s = get_child_id(chld) THEN NoPid ELSE children[s]]
      /\ UNCHANGED <<mpc, i, reg, allowed, stray, request_count, usr1, alrm, cpc, outcome>>
      /\ outcome = "running" /\ lost' \in BOOLEAN
  BY DEF sigchld_handler, mainVars, IInv, TypeOK, MainShape
<1>2. Asked' = Asked /\ Gone' = Gone
  BY <1>1 DEF Asked, Gone
<1>3. AskedOnce' /\ RequestsCounted' /\ AnswersJustified'
  BY <1>1, <1>2, RequestsUntouched
<1>4. MainShape'
  BY <1>1 DEF IInv, MainShape
<1>5. AliveNotTooLow' /\ ParentOutlivesChildren'
  <2>1. Cardinality(Gone) \in Int /\ i \in Int /\ alive \in Int /\ reg \in Int
    BY FiniteSets, SignalAssumption DEF IInv, TypeOK
  <2> QED
    BY <1>1, <1>2, <2>1 DEF IInv, AliveNotTooLow, Left, Stored, ParentOutlivesChildren
<1>6. alive' \in -N..N
  <2>1. (mpc # "done" /\ i \in 0..N /\ (mpc = "record" => i < N) /\ AliveNotTooLow
            /\ alive \in Int /\ reg \in Int => alive \in -N..N)'
    BY AliveInRange, PTL
  <2> QED
    BY <1>1, <1>4, <1>5, <2>1, SignalAssumption DEF IInv, TypeOK, MainShape
<1>7. TypeOK'
  BY <1>1, <1>6 DEF IInv, TypeOK
<1> QED
  BY <1>3, <1>4, <1>5, <1>7 DEF IInv

LEMMA SigintStep == IInv /\ sigint_handler => IInv'
<1> SUFFICES ASSUME IInv, sigint_handler PROVE IInv'
  OBVIOUS
<1> USE DEF sigint_handler, books, signals
<1>1. TypeOK' /\ MainShape'
  BY DEF IInv, TypeOK, MainShape
<1>2. Asked \subseteq Asked' /\ AllowedSlots' = AllowedSlots
  BY DEF IInv, TypeOK, Asked, AllowedSlots
<1>3. AskedOnce' /\ RequestsCounted'
  BY <1>2 DEF IInv, AskedOnce, RequestsCounted
<1>4. AnswersJustified' /\ AliveNotTooLow' /\ ParentOutlivesChildren'
  BY DEF IInv, AnswersJustified, AliveNotTooLow, ParentOutlivesChildren
<1> QED
  BY <1>1, <1>3, <1>4 DEF IInv

LEMMA AskStep == ASSUME NEW p \in Pids PROVE IInv /\ Ask(p) => IInv'
<1> SUFFICES ASSUME IInv, Ask(p) PROVE IInv'
  OBVIOUS
<1>1. /\ cpc[p] = "sleep" /\ cpc' = [cpc EXCEPT ![p] = "pause"]
      /\ usr1' = IF usr1 = NoPid THEN p ELSE usr1
      /\ UNCHANGED <<mpc, i, reg, children, allowed, stray, request_count, alive,
                     chld, alrm, outcome>>
      /\ lost' \in BOOLEAN
  BY DEF Ask, mainVars, books, IInv, TypeOK
<1>2. TypeOK' /\ MainShape'
  BY <1>1 DEF IInv, TypeOK, MainShape
<1>3. Gone' = Gone /\ Asked' = Asked \cup {p} /\ p \notin Asked
  BY <1>1 DEF IInv, TypeOK, Gone, Asked
<1>4. ~allowed[p - 1] /\ p # NoPid
  <2>1. p - 1 \in Slots /\ (p - 1) + 1 = p /\ p # NoPid
    BY SignalAssumption DEF Pids, Slots, NoPid
  <2> QED
    BY <1>3, <2>1 DEF IInv, AskedOnce
<1>5. AskedOnce'
  BY <1>1, <1>3, <1>4 DEF IInv, AskedOnce
<1>6. RequestsCounted' /\ AnswersJustified'
  BY <1>1, <1>3 DEF IInv, TypeOK, RequestsCounted, AnswersJustified, AllowedSlots, Gone
<1>7. AliveNotTooLow' /\ ParentOutlivesChildren'
  BY <1>1, <1>3 DEF IInv, TypeOK, AliveNotTooLow, Left, Stored, ParentOutlivesChildren
<1> QED
  BY <1>2, <1>5, <1>6, <1>7 DEF IInv

(* One more has gone, and its SIGCHLD is pending or lost.                  *)
LEMMA ExitStep == ASSUME NEW p \in Pids PROVE IInv /\ Exit(p) => IInv'
<1> SUFFICES ASSUME IInv, Exit(p) PROVE IInv'
  OBVIOUS
<1>1. /\ cpc[p] \in {"sleep", "pause"} /\ p \in alrm /\ cpc' = [cpc EXCEPT ![p] = "gone"]
      /\ alrm' = alrm \ {p} /\ chld' = IF chld = NoPid THEN p ELSE chld
      /\ UNCHANGED <<mpc, i, reg, children, allowed, stray, request_count, alive,
                     usr1, outcome>>
      /\ lost' \in BOOLEAN /\ p # NoPid
  BY DEF Exit, mainVars, books, IInv, TypeOK, Pids, NoPid
<1>2. TypeOK' /\ MainShape'
  BY <1>1 DEF IInv, TypeOK, MainShape
<1>3. Gone' = Gone \cup {p} /\ p \notin Gone /\ Asked' = Asked \cup {p}
  BY <1>1 DEF IInv, TypeOK, Gone, Asked
<1>4. AllowedSlots' = AllowedSlots
  BY <1>1 DEF AllowedSlots
<1>5. AskedOnce' /\ RequestsCounted'
  BY <1>1, <1>3, <1>4 DEF IInv, AskedOnce, RequestsCounted
<1>6. AnswersJustified'
  BY <1>1 DEF IInv, AnswersJustified
<1>7. Cardinality(Gone') = Cardinality(Gone) + 1 /\ Cardinality(Gone) \in Nat
  <2>1. IsFiniteSet(Gone) /\ Cardinality(Gone) \in Nat
    BY FiniteSets
  <2>2. Cardinality(Gone \cup {p}) = Cardinality(Gone) + 1
    BY <1>3, <2>1, FS_AddElement
  <2> QED
    BY <1>3, <2>1, <2>2
<1>8. AliveNotTooLow'
  <2>1. i \in Int /\ alive \in Int /\ reg \in Int
    BY SignalAssumption DEF IInv, TypeOK
  <2> QED
    BY <1>1, <1>7, <2>1 DEF IInv, AliveNotTooLow, Left, Stored
<1>9. ParentOutlivesChildren'
  BY <1>1 DEF IInv, TypeOK, ParentOutlivesChildren
<1> QED
  BY <1>2, <1>5, <1>6, <1>8, <1>9 DEF IInv

LEMMA SignalInvariant == Spec => []IInv
<1>1. IInv /\ [Next]_vars => IInv'
  <2> SUFFICES ASSUME IInv, [Next]_vars PROVE IInv'
    OBVIOUS
  <2>1. CASE UNCHANGED vars
    <3>1. UNCHANGED <<mpc, i, reg, children, allowed, stray, request_count, alive, usr1, chld,
                      alrm, cpc, outcome, lost>>
      BY <2>1 DEF vars, mainVars, books, signals
    <3>2. TypeOK' /\ MainShape' /\ Asked' = Asked /\ Gone' = Gone /\ AllowedSlots' = AllowedSlots
      BY <3>1 DEF IInv, TypeOK, MainShape, Asked, Gone, AllowedSlots
    <3>3. AskedOnce' /\ RequestsCounted' /\ AnswersJustified'
      BY <3>1, <3>2 DEF IInv, AskedOnce, RequestsCounted, AnswersJustified
    <3>4. AliveNotTooLow' /\ ParentOutlivesChildren'
      BY <3>1, <3>2 DEF IInv, AliveNotTooLow, Left, Stored, ParentOutlivesChildren
    <3> QED
      BY <3>2, <3>3, <3>4 DEF IInv
  <2>2. CASE main
    BY <2>1, <2>2, ForkStep, LoadAliveStep, StoreAliveStep, RecordStep, SpinEndsStep
    DEF main, Spin
  <2>3. CASE handlers
    BY <2>3, RequestStep, SigchldStep DEF handlers
  <2>4. ASSUME NEW p \in Pids, child(p) PROVE IInv'
    BY <2>4, AskStep, ExitStep DEF child
  <2> QED
    BY <2>1, <2>2, <2>3, <2>4, SigintStep DEF Next, Ended
<1> QED
  BY Init_IInv, <1>1, PTL DEF Spec

(* Every variable keeps its type: alive stays within -N and N, and         *)
(* request_count does not pass N.                                          *)
THEOREM SignalTypeCorrect == Spec => []TypeOK
<1>1. IInv => TypeOK
  BY DEF IInv
<1> QED
  BY SignalInvariant, <1>1, PTL

(* No child may go before K children have asked, for all N and K.          *)
THEOREM SignalPermissionNeedsK == Spec => []PermissionNeedsK
<1>1. IInv => PermissionNeedsK
  <2> SUFFICES ASSUME IInv, NEW p \in Pids,
                      p \in alrm \/ (cpc[p] = "gone" /\ outcome # "interrupted")
               PROVE  K <= Cardinality(Asked)
    BY DEF PermissionNeedsK, Asked
  <2>1. K <= request_count
    BY DEF IInv, AnswersJustified
  <2> QED
    BY <2>1, RequestsAreAsked, FiniteSets, SignalAssumption DEF IInv
<1> QED
  BY SignalInvariant, <1>1, PTL

(* The parent does not return while a child lives, whatever becomes of the *)
(* unguarded ++alive.                                                      *)
THEOREM SignalParentOutlivesChildren == Spec => []ParentOutlivesChildren
<1>1. IInv => ParentOutlivesChildren
  BY DEF IInv
<1> QED
  BY SignalInvariant, <1>1, PTL
=============================================================================

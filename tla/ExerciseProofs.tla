--------------------------- MODULE ExerciseProofs ---------------------------
(***************************************************************************)
(* Proofs about the smaller programs: the record sort, the counted         *)
(* signals, the date printer, the image filter and the command pipelines.  *)
(* They share no variable and no constant; every part states its inductive *)
(* invariant, shows that each action keeps it and draws the theorem from   *)
(* it.                                                                     *)
(***************************************************************************)
EXTENDS RecordSort, SignalCount, DatePrinter, ImageFilter, Pipeline, FiniteSetTheorems,
        SequenceTheorems, TLAPS
-----------------------------------------------------------------------------
(***************************************************************************)
(* RecordSort: the file is sorted up to i, and while record i is on its    *)
(* way there is a hole at pos, the one place whose record is elsewhere.    *)
(***************************************************************************)
Inserting == sort_pc \in {"compare", "move", "insert"}

(* The counters agree with the file descriptor.                            *)
SortShape ==
    /\ sort_pc = "generate" => size = 0
    /\ sort_pc \in {"generate", "copy"} => i = 0 /\ \A p \in Places : file[p] = p
    /\ sort_pc \notin {"generate", "copy"} => i >= 1 /\ size <= records
    /\ sort_pc = "read" => offset = i /\ pos = i
    /\ Inserting => offset = pos /\ pos <= i /\ i < size /\ current = i

(* What is before i are the first i records, sorted; the rest is as it was.*)
SortedPrefix ==
    sort_pc \in {"read", "done", "failed"} =>
        /\ \A p, q \in Places : p < q /\ q < i => Before(p, q)
        /\ \A p \in Places : p < i => file[p] < i
        /\ \A p \in Places : p >= i => file[p] = p
        /\ \A r \in Places : \E p \in Places : file[p] = r
        /\ sort_pc = "done" => i >= size

(* The same around the hole; what has been moved goes after current.       *)
SortedHole ==
    Inserting =>
        /\ \A p, q \in Places : p < q /\ q <= i /\ p # pos /\ q # pos => Before(p, q)
        /\ \A p \in Places : p <= i /\ p # pos => file[p] < i
        /\ \A q \in Places : pos < q /\ q <= i => key[current] < key[file[q]]
        /\ \A p \in Places : p > i => file[p] = p
        /\ \A r \in Places : r = current \/ \E p \in Places : p # pos /\ file[p] = r
        /\ sort_pc = "move" =>
               pos > 0 /\ buffer = file[pos - 1] /\ key[current] < key[buffer]
        /\ sort_pc = "insert" => pos = 0 \/ key[current] >= key[file[pos - 1]]

SortIInv == SortTypeOK /\ SortShape /\ SortedPrefix /\ SortedHole /\ NothingLost

-----------------------------------------------------------------------------
LEMMA SortInit_SortIInv == SortInit => SortIInv
<1> SUFFICES ASSUME SortInit PROVE SortIInv
  OBVIOUS
<1> USE DEF SortInit, Places
<1>1. Places = {}
  OBVIOUS
<1>2. SortTypeOK
  BY <1>1 DEF SortTypeOK
<1> QED
  BY <1>1, <1>2 DEF SortIInv, SortShape, SortedPrefix, SortedHole, NothingLost, Inserting

LEMMA GenerateStep == SortIInv /\ Generate => SortIInv'
<1> SUFFICES ASSUME SortIInv, Generate PROVE SortIInv'
  OBVIOUS
<1> USE DEF Generate, SortAt
<1>1. SortTypeOK'
  <2>1. size' \in Nat /\ records' \in Nat /\ sort_pc' = "copy"
    BY SortAssumption
  <2>2. key' \in [Places' -> Keys] /\ file' \in [Places' -> Places']
    BY DEF Places
  <2> QED
    BY <2>1, <2>2 DEF SortIInv, SortTypeOK
<1>2. SortShape'
  BY DEF SortIInv, SortShape, Places, Inserting
<1>3. SortedPrefix' /\ SortedHole' /\ NothingLost'
  BY DEF SortIInv, SortShape, SortedPrefix, SortedHole, NothingLost, Inserting, Places
<1> QED
  BY <1>1, <1>2, <1>3 DEF SortIInv

LEMMA CopyStep == SortIInv /\ Copy => SortIInv'
<1> SUFFICES ASSUME SortIInv, Copy PROVE SortIInv'
  OBVIOUS
<1> USE DEF Copy, SortAt
<1>1. size' \in Nat /\ size' <= size /\ size' <= records
  BY DEF SortIInv, SortTypeOK
<1>2. \A p \in Places' : p \in Places /\ file[p] = p /\ key[p] \in Keys
  BY <1>1 DEF SortIInv, SortTypeOK, SortShape, Places
<1>3. SortTypeOK'
  BY <1>1, <1>2 DEF SortIInv, SortTypeOK, Places
<1>4. \A p \in Places' : file'[p] = p
  BY <1>2 DEF Places
<1>5. SortShape'
  BY <1>1 DEF SortIInv, SortShape, Inserting
<1>6. SortedPrefix'
  <2>1. size' \in Nat /\ i' = 1 /\ sort_pc' = "read"
    BY <1>1
  <2> HIDE DEF Copy
  <2>2. \A p, q \in Places' : p < q /\ q < 1 => Before(p, q)'
    BY <2>1 DEF Places
  <2>3. \A p \in Places' : p < 1 => file'[p] < 1
    BY <1>4
  <2>4. \A r \in Places' : \E p \in Places' : file'[p] = r
    BY <1>4
  <2> QED
    BY <1>4, <2>1, <2>2, <2>3, <2>4 DEF SortedPrefix
<1>7. SortedHole' /\ NothingLost'
  BY <1>4 DEF SortedHole, NothingLost, Inserting
<1> QED
  BY <1>3, <1>5, <1>6, <1>7 DEF SortIInv

LEMMA ReadStep == SortIInv /\ ReadCurrent => SortIInv'
<1> SUFFICES ASSUME SortIInv, ReadCurrent PROVE SortIInv'
  OBVIOUS
<1> USE DEF ReadCurrent, SortAt
<1>1. CASE offset < size
  <2> USE <1>1
  <2>1. sort_pc = "read" /\ sort_pc' = "compare" /\ current' = file[offset]
    BY DEF SortIInv, SortTypeOK
  <2>2. offset \in Places /\ offset = i /\ pos = i /\ file[offset] = i
    BY <2>1 DEF SortIInv, SortTypeOK, SortShape, SortedPrefix, Places
  <2>3. SortTypeOK'
    BY <2>1, <2>2 DEF SortIInv, SortTypeOK, Places
  <2>4. SortShape' /\ SortedPrefix'
    BY <2>1, <2>2 DEF SortIInv, SortTypeOK, SortShape, SortedPrefix, Inserting, Places
  <2>5. SortedHole'
    <3>1. /\ \A p, q \in Places : p < q /\ q < i => Before(p, q)
          /\ \A p \in Places : p < i => file[p] < i
          /\ \A p \in Places : p >= i => file[p] = p
          /\ \A r \in Places : \E p \in Places : file[p] = r
      BY <2>1 DEF SortIInv, SortedPrefix
    <3>2. UNCHANGED <<size, key, file, i, pos, Places>> /\ current' = i /\ i \in Nat
      BY <2>1, <2>2 DEF Places, SortIInv, SortTypeOK
    <3>3. \A p, q \in Places : Before(p, q)' <=> Before(p, q)
      BY <3>2 DEF Before
    <3>4. \A p \in Places : p \in Int
      BY DEF Places
    <3>5. \A p, q \in Places : p < q /\ q <= i /\ p # i /\ q # i => Before(p, q)
      BY <3>1, <3>2, <3>4
    <3>6. \A r \in Places : r = i \/ \E p \in Places : p # i /\ file[p] = r
      BY <3>1, <2>2
    <3> QED
      BY SMTT(40), <2>1, <2>2, <3>1, <3>2, <3>3, <3>4, <3>5, <3>6 DEF SortedHole, Inserting
  <2>6. NothingLost'
    BY <2>1 DEF SortIInv, SortedPrefix, NothingLost, Places
  <2> QED
    BY <2>3, <2>4, <2>5, <2>6 DEF SortIInv
<1>2. CASE offset >= size
  <2>1. sort_pc = "read" /\ sort_pc' = "failed" /\ UNCHANGED current
    BY <1>2 DEF SortIInv, SortTypeOK
  <2>2. SortTypeOK' /\ SortShape' /\ SortedHole'
    BY <2>1 DEF SortIInv, SortTypeOK, SortShape, SortedHole, Inserting, Places
  <2>3. SortedPrefix' /\ NothingLost'
    BY <2>1 DEF SortIInv, SortedPrefix, NothingLost, Places, Before
  <2> QED
    BY <2>2, <2>3 DEF SortIInv
<1> QED
  BY <1>1, <1>2 DEF SortIInv, SortTypeOK

LEMMA AllSortedStep == SortIInv /\ AllSorted => SortIInv'
<1> SUFFICES ASSUME SortIInv, AllSorted PROVE SortIInv'
  OBVIOUS
<1> USE DEF AllSorted, SortAt
<1>1. SortTypeOK' /\ SortShape' /\ SortedHole'
  BY DEF SortIInv, SortTypeOK, SortShape, SortedHole, Inserting, Places
<1>2. SortedPrefix' /\ NothingLost'
  BY DEF SortIInv, SortTypeOK, SortShape, SortedPrefix, NothingLost, Places, Before
<1> QED
  BY <1>1, <1>2 DEF SortIInv

LEMMA CompareStep == SortIInv /\ Compare => SortIInv'
<1> SUFFICES ASSUME SortIInv, Compare PROVE SortIInv'
  OBVIOUS
<1> USE DEF Compare
<1>1. /\ sort_pc = "compare" /\ offset = pos /\ pos \in Places /\ i < size /\ pos <= i
      /\ current = i /\ i \in Places
  BY DEF SortIInv, SortTypeOK, SortShape, Inserting, Places
<1>2. SortedPrefix' /\ NothingLost'
  BY <1>1 DEF SortIInv, SortedPrefix, SortedHole, NothingLost, Inserting, Places
<1>3. CASE pos > 0
  <2>1. buffer' = file[pos - 1] /\ pos - 1 \in Places /\ file[pos - 1] \in Places
    BY <1>1, <1>3 DEF SortIInv, SortTypeOK, Places
  <2>2. sort_pc' = IF key[current] < key[buffer'] THEN "move" ELSE "insert"
    BY <1>3, <1>1
  <2>3. key[current] \in Int /\ key[buffer'] \in Int
    BY <1>1, <2>1, SortAssumption DEF SortIInv, SortTypeOK
  <2>4. SortTypeOK' /\ SortShape'
    BY <1>1, <2>1, <2>2 DEF SortIInv, SortTypeOK, SortShape, Inserting, Places
  <2>5. SortedHole'
    BY <1>1, <1>3, <2>1, <2>2, <2>3 DEF SortIInv, SortedHole, Inserting, Places, Before
  <2> QED
    BY <1>2, <2>4, <2>5 DEF SortIInv
<1>4. CASE pos = 0
  <2>1. sort_pc' = "insert" /\ UNCHANGED buffer
    BY <1>4
  <2>2. SortTypeOK' /\ SortShape'
    BY <1>1, <2>1 DEF SortIInv, SortTypeOK, SortShape, Inserting, Places
  <2>3. SortedHole'
    BY <1>1, <1>4, <2>1 DEF SortIInv, SortedHole, Inserting, Places, Before
  <2> QED
    BY <1>2, <2>2, <2>3 DEF SortIInv
<1> QED
  BY <1>1, <1>3, <1>4 DEF Places

LEMMA MoveStep == SortIInv /\ MoveRight => SortIInv'
<1> SUFFICES ASSUME SortIInv, MoveRight PROVE SortIInv'
  OBVIOUS
<1> USE DEF MoveRight, SortAt
<1>1. /\ sort_pc = "move" /\ offset = pos /\ pos \in Places /\ i < size /\ pos <= i
      /\ current = i /\ i \in Places /\ pos > 0 /\ buffer = file[pos - 1]
      /\ pos - 1 \in Places /\ file[pos - 1] \in Places
      /\ key[current] < key[buffer]
  BY SMTT(40) DEF SortIInv, SortTypeOK, SortShape, SortedHole, Inserting, Places
<1>2. /\ file' \in [Places -> Places] /\ file'[pos] = file[pos - 1]
      /\ \A p \in Places : p # pos => file'[p] = file[p]
      /\ pos' = pos - 1 /\ offset' = pos - 1
  BY <1>1 DEF SortIInv, SortTypeOK
<1>3. UNCHANGED <<size, key, i, current, Places>> /\ sort_pc' = "compare"
  BY DEF Places
<1>4. SortTypeOK' /\ SortShape' /\ SortedPrefix'
  BY SMTT(40), <1>1, <1>2, <1>3 DEF SortIInv, SortTypeOK, SortShape, SortedPrefix, Inserting, Places
<1>5. SortedHole'
  <2> USE <1>1, <1>2, <1>3
  <2>1. \A p, q \in Places : p < q /\ q <= i /\ p # pos /\ q # pos => Before(p, q)
    BY DEF SortIInv, SortedHole, Inserting
  <2>2. \A p, q \in Places : p < q /\ q <= i /\ p # pos' /\ q # pos' => Before(p, q)'
    <3> SUFFICES ASSUME NEW p \in Places, NEW q \in Places, p < q, q <= i,
                        p # pos - 1, q # pos - 1
                 PROVE  Before(p, q)'
      OBVIOUS
    <3>1. CASE p = pos
      BY <2>1, <3>1 DEF Before, Places
    <3>2. CASE q = pos
      BY <2>1, <3>2 DEF Before, Places
    <3>3. CASE p # pos /\ q # pos
      BY <2>1, <3>3 DEF Before
    <3> QED
      BY <3>1, <3>2, <3>3
  <2>3. \A p \in Places : p <= i /\ p # pos' => file'[p] < i
    BY DEF SortIInv, SortedHole, Inserting, Places
  <2>4. \A q \in Places : pos' < q /\ q <= i => key[current] < key[file'[q]]
    <3>1. \A q \in Places : pos < q /\ q <= i => key[current] < key[file[q]]
      BY DEF SortIInv, SortedHole, Inserting
    <3> QED
      BY <3>1 DEF Places
  <2>5. \A p \in Places : p > i => file'[p] = p
    BY DEF SortIInv, SortedHole, Inserting, Places
  <2>6. \A r \in Places : r = current \/ \E p \in Places : p # pos' /\ file'[p] = r
    <3> SUFFICES ASSUME NEW r \in Places, r # current
                 PROVE  \E p \in Places : p # pos' /\ file'[p] = r
      OBVIOUS
    <3>1. PICK p \in Places : p # pos /\ file[p] = r
      BY DEF SortIInv, SortedHole, Inserting
    <3>2. CASE p = pos - 1
      BY <3>1, <3>2 DEF Places
    <3> QED
      BY <3>1, <3>2
  <2> QED
    BY <2>2, <2>3, <2>4, <2>5, <2>6 DEF SortedHole, Inserting
<1>6. NothingLost'
  BY <1>3, <1>5 DEF SortedHole, NothingLost, Inserting
<1> QED
  BY <1>4, <1>5, <1>6 DEF SortIInv

LEMMA InsertStep == SortIInv /\ Insert => SortIInv'
<1> SUFFICES ASSUME SortIInv, Insert PROVE SortIInv'
  OBVIOUS
<1> USE DEF Insert, SortAt
<1>1. /\ sort_pc = "insert" /\ offset = pos /\ pos \in Places /\ i < size /\ pos <= i
      /\ current = i /\ i \in Places /\ i >= 1
      /\ pos = 0 \/ key[current] >= key[file[pos - 1]]
  BY DEF SortIInv, SortTypeOK, SortShape, SortedHole, Inserting, Places
<1>2. /\ file' \in [Places -> Places] /\ file'[pos] = i
      /\ \A p \in Places : p # pos => file'[p] = file[p]
      /\ offset' = i + 1 /\ pos' = i + 1 /\ i' = i + 1
  BY <1>1 DEF SortIInv, SortTypeOK, Places
<1>3. UNCHANGED <<size, key, current, Places>> /\ sort_pc' = "read"
  BY DEF Places
<1>4. SortTypeOK' /\ SortShape' /\ SortedHole'
  BY SMTT(40), <1>1, <1>2, <1>3 DEF SortIInv, SortTypeOK, SortShape, SortedHole, Inserting, Places
<1>5. SortedPrefix'
  <2> USE <1>1, <1>2, <1>3
  <2> HIDE DEF Insert, SortAt
  <2>1. /\ \A p, q \in Places : p < q /\ q <= i /\ p # pos /\ q # pos => Before(p, q)
        /\ \A p \in Places : p <= i /\ p # pos => file[p] < i
        /\ \A q \in Places : pos < q /\ q <= i => key[current] < key[file[q]]
    BY DEF SortIInv, SortedHole, Inserting
  <2>2. \A r \in Places : file[r] \in Places /\ key[r] \in Int
    BY SortAssumption DEF SortIInv, SortTypeOK
  <2>3. \A p, q \in Places : p < q /\ q < i' => Before(p, q)'
    <3> SUFFICES ASSUME NEW p \in Places, NEW q \in Places, p < q, q <= i
                 PROVE  Before(p, q)'
      BY DEF Places
    <3>1. CASE p = pos
      BY <2>1, <3>1 DEF Before, Places
    <3>2. CASE q = pos
      <4>1. pos - 1 \in Places /\ pos - 1 # pos /\ p <= pos - 1 /\ p # pos /\ p <= i
        <5>1. p \in Nat /\ p < pos /\ pos \in Nat /\ i \in Nat /\ size \in Int
          BY <3>2 DEF Places, SortIInv, SortTypeOK
        <5> QED
          BY <5>1 DEF Places
      <4>2. file[p] < i
        BY <4>1, <2>1
      <4>3. /\ key[i] \in Int /\ key[file[p]] \in Int /\ key[file[pos - 1]] \in Int
            /\ key[i] >= key[file[pos - 1]]
        <5>1. pos # 0
          BY <4>1 DEF Places
        <5> QED
          BY <5>1, <2>2, <4>1
      <4>4. p = pos - 1 \/ Before(p, pos - 1)
        BY <4>1, <2>1 DEF Places
      <4>5. key[file[p]] <= key[i]
        BY <4>3, <4>4 DEF Before
      <4>6. file'[p] = file[p] /\ file'[q] = i /\ key' = key
        BY <4>1, <3>2
      <4> QED
        BY <4>2, <4>3, <4>5, <4>6 DEF Before
    <3>3. CASE p # pos /\ q # pos
      BY <2>1, <3>3 DEF Before
    <3> QED
      BY <3>1, <3>2, <3>3
  <2>4. \A p \in Places : p < i' => file'[p] < i'
    BY <2>1, <2>2 DEF Places
  <2>5. \A p \in Places : p >= i' => file'[p] = p
    BY DEF SortIInv, SortedHole, Inserting, Places
  <2>6. \A r \in Places : \E p \in Places : file'[p] = r
    BY DEF SortIInv, SortedHole, Inserting
  <2> QED
    BY <2>3, <2>4, <2>5, <2>6 DEF SortedPrefix
<1>6. NothingLost'
  BY <1>3, <1>5 DEF SortedPrefix, NothingLost
<1> QED
  BY <1>4, <1>5, <1>6 DEF SortIInv

LEMMA KillStep == SortIInv /\ Kill => SortIInv'
<1> SUFFICES ASSUME SortIInv, Kill PROVE SortIInv'
  OBVIOUS
<1> USE DEF Kill
<1>1. SortTypeOK' /\ SortShape'
  BY DEF SortIInv, SortTypeOK, SortShape, Inserting, Places
<1>2. SortedPrefix' /\ SortedHole'
  BY DEF SortedPrefix, SortedHole, Inserting
<1>3. NothingLost'
  BY DEF SortIInv, NothingLost, Places
<1> QED
  BY <1>1, <1>2, <1>3 DEF SortIInv

LEMMA SortInvariant == SortSpec => []SortIInv
<1>1. SortIInv /\ [SortNext]_sortVars => SortIInv'
  <2> SUFFICES ASSUME SortIInv, [SortNext]_sortVars PROVE SortIInv'
    OBVIOUS
  <2>1. CASE UNCHANGED sortVars
    BY <2>1 DEF sortVars, SortIInv, SortTypeOK, SortShape, SortedPrefix, SortedHole,
                NothingLost, Inserting, Places, Before
  <2> QED
    BY <2>1, GenerateStep, CopyStep, ReadStep, AllSortedStep, CompareStep, MoveStep,
       InsertStep, KillStep DEF SortNext
<1> QED
  BY SortInit_SortIInv, <1>1, PTL DEF SortSpec

(* Every place of the file holds one of its records, and pos, i and the    *)
(* offset of the descriptor never become negative.                         *)
THEOREM SortTypeCorrect == SortSpec => []SortTypeOK
<1>1. SortIInv => SortTypeOK
  BY DEF SortIInv
<1> QED
  BY SortInvariant, <1>1, PTL

(* The copy is sorted stably, up to where the sort has come, for files and *)
(* arguments of any size.                                                  *)
THEOREM SortSortedSoFar == SortSpec => []SortedSoFar
<1>1. SortIInv => SortedSoFar
  BY DEF SortIInv, SortTypeOK, SortedPrefix, SortedSoFar, Places
<1> QED
  BY SortInvariant, <1>1, PTL

(* Wherever the sort is killed, at most the record it was inserting is     *)
(* missing.                                                                *)
THEOREM SortNothingLost == SortSpec => []NothingLost
<1>1. SortIInv => NothingLost
  BY DEF SortIInv
<1> QED
  BY SortInvariant, <1>1, PTL
-----------------------------------------------------------------------------
(***************************************************************************)
(* SignalCount.                                                            *)
(***************************************************************************)

(* No more answers are on their way, or to be given, than signals sent.    *)
Conserved ==
    received + to_parent + Len(handlers) + to_child <=
        IF parent_pc = "kill" THEN sent - 1 ELSE sent

(* sent is a count of the loop; and the child is only sent away at the end.*)
CountShape ==
    /\ sent <= L
    /\ parent_pc \in {"all_sent", "stop", "summary"} => sent = L
    /\ parent_pc \in {"start", "sleep"} =>
           sent = 0 /\ received = 0 /\ child_received = 0
    /\ stop_pending => parent_pc \in {"summary", "ended"}

AnswerMissing == received = sent - 1 /\ to_parent = 0 /\ ~confirmed

(* With confirmation one signal is on its way, which is still pending,     *)
(* being handled, answered or confirmed; and none when the parent does not *)
(* wait for one.                                                           *)
OneAtATime ==
    Type = 2 /\ ~unready =>
        /\ parent_pc \in {"sleep", "send", "all_sent", "stop", "summary"} =>
               /\ received = sent /\ child_received = sent
               /\ to_parent = 0 /\ to_child = 0 /\ handlers = <<>>
        /\ parent_pc = "kill" =>
               /\ received = sent - 1 /\ child_received = sent - 1
               /\ to_parent = 0 /\ to_child = 0 /\ handlers = <<>> /\ ~confirmed
        /\ parent_pc = "confirm" =>
               /\ child_at = "ready"
               /\ \/ /\ AnswerMissing /\ to_child = 1 /\ handlers = <<>>
                     /\ child_received = sent - 1
                  \/ /\ AnswerMissing /\ to_child = 0 /\ Len(handlers) = 1
                     /\ handlers[1].at \in {"load", "store"} => child_received = sent - 1
                     /\ handlers[1].at = "store" => handlers[1].count = sent - 1
                     /\ handlers[1].at = "answer" => child_received = sent
                  \/ /\ received = sent - 1 /\ to_parent = 1 /\ ~confirmed
                     /\ to_child = 0 /\ handlers = <<>> /\ child_received = sent
                  \/ /\ received = sent /\ to_parent = 0 /\ confirmed
                     /\ to_child = 0 /\ handlers = <<>> /\ child_received = sent

CountIInv == CountTypeOK /\ Conserved /\ CountShape /\ OneAtATime

Handlers == [at: {"load", "store", "answer"}, count: Nat]

LEMMA HandlersLen ==
    CountTypeOK =>
        /\ handlers \in Seq(Handlers) /\ Len(handlers) \in Nat
        /\ handlers # <<>> => Len(handlers) >= 1 /\ Top \in Handlers
<1> HAVE CountTypeOK
<1>1. handlers \in Seq(Handlers)
  BY DEF CountTypeOK, Handlers
<1>2. handlers # <<>> => Len(handlers) \in Nat \ {0}
  BY <1>1, EmptySeq
<1>3. handlers # <<>> => handlers[Len(handlers)] \in Handlers
  BY <1>1, <1>2, ElementOfSeq
<1>4. Len(handlers) \in Nat
  BY <1>1, LenProperties
<1> QED
  BY <1>1, <1>2, <1>3, <1>4 DEF Top

LEMMA CountInit_CountIInv == CountInit => CountIInv
<1> SUFFICES ASSUME CountInit PROVE CountIInv
  OBVIOUS
<1>1. CountTypeOK
  <2>1. /\ confirmed \in BOOLEAN /\ stop_pending \in BOOLEAN
        /\ blocks \in BOOLEAN /\ unready \in BOOLEAN
    BY DEF CountInit
  <2>2. Type \in 1..3 /\ L \in 0..MaxSignals
    BY CountAssumption DEF CountInit
  <2> QED
    BY <2>1, <2>2 DEF CountInit, CountTypeOK
<1>2. Conserved /\ CountShape /\ OneAtATime
  BY DEF CountInit, Conserved, CountShape, OneAtATime
<1> QED
  BY <1>1, <1>2 DEF CountIInv

LEMMA StartStep == CountIInv /\ Start => CountIInv'
<1> SUFFICES ASSUME CountIInv, Start PROVE CountIInv'
  OBVIOUS
<1> USE DEF Start, ParentAt, Pends, arguments, ofParent, ofCounter
<1>1. CountTypeOK'
  BY DEF CountIInv, CountTypeOK
<1>2. Conserved'
  BY DEF CountIInv, CountTypeOK, Conserved, CountShape
<1>3. CountShape'
  BY DEF CountIInv, CountTypeOK, CountShape
<1>4. OneAtATime'
  <2>1. /\ sent = 0 /\ received = 0 /\ child_received = 0
        /\ Len(handlers) \in Nat /\ to_parent \in Nat /\ to_child \in Nat
        /\ Len(handlers) + to_parent + to_child <= 0
    BY DEF CountIInv, CountTypeOK, CountShape, Conserved
  <2>2. handlers = <<>> /\ to_parent = 0 /\ to_child = 0
    BY <2>1, HandlersLen DEF CountIInv, CountTypeOK
  <2> QED
    BY <2>1, <2>2 DEF OneAtATime
<1> QED
  BY <1>1, <1>2, <1>3, <1>4 DEF CountIInv

LEMMA WakesStep == CountIInv /\ Wakes => CountIInv'
<1> SUFFICES ASSUME CountIInv, Wakes PROVE CountIInv'
  OBVIOUS
<1> USE DEF Wakes, ParentAt, Pends, arguments, ofParent, ofCounter
<1>1. CountTypeOK'
  BY DEF CountIInv, CountTypeOK
<1>2. Conserved'
  BY DEF CountIInv, CountTypeOK, Conserved, CountShape
<1>3. CountShape'
  BY DEF CountIInv, CountTypeOK, CountShape
<1>4. OneAtATime'
  BY DEF CountIInv, CountTypeOK, CountShape, OneAtATime, AnswerMissing
<1> QED
  BY <1>1, <1>2, <1>3, <1>4 DEF CountIInv

LEMMA NextSignalStep == CountIInv /\ NextSignal => CountIInv'
<1> SUFFICES ASSUME CountIInv, NextSignal PROVE CountIInv'
  OBVIOUS
<1> USE DEF NextSignal, ParentAt, Pends, arguments, ofParent, ofCounter
<1>1. CountTypeOK'
  <2>1. sent \in Nat /\ confirmed \in BOOLEAN
    BY DEF CountIInv, CountTypeOK
  <2>2. sent' \in Nat /\ parent_pc' \in {"kill", "all_sent"}
    BY <2>1
  <2>3. confirmed' \in BOOLEAN
    BY <2>1, Zenon
  <2> QED
    BY <2>2, <2>3 DEF CountIInv, CountTypeOK
<1>2. Conserved'
  BY DEF CountIInv, CountTypeOK, Conserved, CountShape
<1>3. CountShape'
  BY DEF CountIInv, CountTypeOK, CountShape
<1>4. OneAtATime'
  BY DEF CountIInv, CountTypeOK, CountShape, OneAtATime, AnswerMissing
<1> QED
  BY <1>1, <1>2, <1>3, <1>4 DEF CountIInv

LEMMA WaitConfirmedStep == CountIInv /\ WaitConfirmed => CountIInv'
<1> SUFFICES ASSUME CountIInv, WaitConfirmed PROVE CountIInv'
  OBVIOUS
<1> USE DEF WaitConfirmed, ParentAt, Pends, arguments, ofParent, ofCounter
<1>1. CountTypeOK'
  BY DEF CountIInv, CountTypeOK
<1>2. Conserved'
  BY DEF CountIInv, CountTypeOK, Conserved, CountShape
<1>3. CountShape'
  BY DEF CountIInv, CountTypeOK, CountShape
<1>4. OneAtATime'
  BY DEF CountIInv, CountTypeOK, CountShape, OneAtATime, AnswerMissing
<1> QED
  BY <1>1, <1>2, <1>3, <1>4 DEF CountIInv

LEMMA Kill1Step == CountIInv /\ Kill1 => CountIInv'
<1> SUFFICES ASSUME CountIInv, Kill1 PROVE CountIInv'
  OBVIOUS
<1> USE DEF Kill1, ParentAt, Pends, arguments, ofParent, ofCounter
<1>1. CountTypeOK'
  BY DEF CountIInv, CountTypeOK
<1>2. Conserved'
  BY DEF CountIInv, CountTypeOK, Conserved, CountShape
<1>3. CountShape'
  BY DEF CountIInv, CountTypeOK, CountShape
<1>4. OneAtATime'
  <2> SUFFICES ASSUME Type = 2, ~unready' PROVE OneAtATime'
    BY DEF OneAtATime
  <2>1. ~unready /\ child_at = "ready" /\ parent_pc = "kill" /\ parent_pc' = "confirm"
    BY DEF CountIInv, CountTypeOK
  <2>2. to_child' = 1
    BY <2>1
  <2> QED
    BY <2>1, <2>2 DEF CountIInv, CountTypeOK, OneAtATime, AnswerMissing
<1> QED
  BY <1>1, <1>2, <1>3, <1>4 DEF CountIInv

LEMMA SleepOverStep == CountIInv /\ SleepOver => CountIInv'
<1> SUFFICES ASSUME CountIInv, SleepOver PROVE CountIInv'
  OBVIOUS
<1> USE DEF SleepOver, ParentAt, Pends, arguments, ofParent, ofCounter
<1>1. CountTypeOK'
  BY DEF CountIInv, CountTypeOK
<1>2. Conserved'
  BY DEF CountIInv, CountTypeOK, Conserved, CountShape
<1>3. CountShape'
  BY DEF CountIInv, CountTypeOK, CountShape
<1>4. OneAtATime'
  BY DEF CountIInv, CountTypeOK, CountShape, OneAtATime, AnswerMissing
<1> QED
  BY <1>1, <1>2, <1>3, <1>4 DEF CountIInv

LEMMA Kill2Step == CountIInv /\ Kill2 => CountIInv'
<1> SUFFICES ASSUME CountIInv, Kill2 PROVE CountIInv'
  OBVIOUS
<1> USE DEF Kill2, ParentAt, Pends, arguments, ofParent, ofCounter
<1>1. CountTypeOK'
  BY DEF CountIInv, CountTypeOK
<1>2. Conserved'
  BY DEF CountIInv, CountTypeOK, Conserved, CountShape
<1>3. CountShape'
  BY DEF CountIInv, CountTypeOK, CountShape
<1>4. OneAtATime'
  BY DEF CountIInv, CountTypeOK, CountShape, OneAtATime, AnswerMissing
<1> QED
  BY <1>1, <1>2, <1>3, <1>4 DEF CountIInv

LEMMA SummaryStep == CountIInv /\ Summary => CountIInv'
<1> SUFFICES ASSUME CountIInv, Summary PROVE CountIInv'
  OBVIOUS
<1> USE DEF Summary, ParentAt, Pends, arguments, ofParent, ofCounter
<1>1. CountTypeOK'
  BY DEF CountIInv, CountTypeOK
<1>2. Conserved'
  BY DEF CountIInv, CountTypeOK, Conserved, CountShape
<1>3. CountShape'
  BY DEF CountIInv, CountTypeOK, CountShape
<1>4. OneAtATime'
  BY DEF CountIInv, CountTypeOK, CountShape, OneAtATime, AnswerMissing
<1> QED
  BY <1>1, <1>2, <1>3, <1>4 DEF CountIInv

LEMMA AnswerStep == CountIInv /\ Answer => CountIInv'
<1> SUFFICES ASSUME CountIInv, Answer PROVE CountIInv'
  OBVIOUS
<1> USE DEF Answer, Pends, arguments, ofParent, ofCounter
<1>1. CountTypeOK'
  BY DEF CountIInv, CountTypeOK
<1>2. Conserved'
  BY DEF CountIInv, CountTypeOK, Conserved, CountShape
<1>3. CountShape'
  <2>1. sent - received >= 1
    BY SMTT(40) DEF CountIInv, CountTypeOK, Conserved
  <2> QED
    BY <2>1 DEF CountIInv, CountTypeOK, CountShape
<1>4. OneAtATime'
  BY DEF CountIInv, CountTypeOK, CountShape, OneAtATime, AnswerMissing
<1> QED
  BY <1>1, <1>2, <1>3, <1>4 DEF CountIInv

LEMMA InterruptedStep == CountIInv /\ Interrupted => CountIInv'
<1> SUFFICES ASSUME CountIInv, Interrupted PROVE CountIInv'
  OBVIOUS
<1> USE DEF Interrupted, Pends, arguments, ofParent, ofCounter
<1>1. CountTypeOK'
  BY DEF CountIInv, CountTypeOK
<1>2. Conserved'
  BY DEF CountIInv, CountTypeOK, Conserved, CountShape
<1>3. CountShape'
  BY DEF CountIInv, CountTypeOK, CountShape
<1>4. OneAtATime'
  BY DEF CountIInv, CountTypeOK, CountShape, OneAtATime, AnswerMissing
<1> QED
  BY <1>1, <1>2, <1>3, <1>4 DEF CountIInv

LEMMA SetHandlersStep == CountIInv /\ SetHandlers => CountIInv'
<1> SUFFICES ASSUME CountIInv, SetHandlers PROVE CountIInv'
  OBVIOUS
<1> USE DEF SetHandlers, Pends, arguments, ofParent, ofCounter
<1>1. CountTypeOK'
  BY DEF CountIInv, CountTypeOK
<1>2. Conserved'
  BY DEF CountIInv, CountTypeOK, Conserved, CountShape
<1>3. CountShape'
  BY DEF CountIInv, CountTypeOK, CountShape
<1>4. OneAtATime'
  BY DEF CountIInv, CountTypeOK, CountShape, OneAtATime, AnswerMissing
<1> QED
  BY <1>1, <1>2, <1>3, <1>4 DEF CountIInv

LEMMA InheritedStep == CountIInv /\ Inherited => CountIInv'
<1> SUFFICES ASSUME CountIInv, Inherited PROVE CountIInv'
  OBVIOUS
<1> USE DEF Inherited, Pends, arguments, ofParent, ofCounter
<1>1. CountTypeOK'
  BY DEF CountIInv, CountTypeOK
<1>2. Conserved'
  BY DEF CountIInv, CountTypeOK, Conserved, CountShape
<1>3. CountShape'
  BY DEF CountIInv, CountTypeOK, CountShape
<1>4. OneAtATime'
  BY DEF CountIInv, CountTypeOK, CountShape, OneAtATime, AnswerMissing
<1> QED
  BY <1>1, <1>2, <1>3, <1>4 DEF CountIInv

LEMMA UnhandledStep == CountIInv /\ Unhandled => CountIInv'
<1> SUFFICES ASSUME CountIInv, Unhandled PROVE CountIInv'
  OBVIOUS
<1> USE DEF Unhandled, Pends, arguments, ofParent, ofCounter
<1>1. CountTypeOK'
  <2>1. child_at' = "gone" /\ to_child' = 0 /\ stop_pending' \in BOOLEAN
    OBVIOUS
  <2>2. handlers' \in Seq([at: {"load", "store", "answer"}, count: Nat])
    BY DEF CountIInv, CountTypeOK
  <2> QED
    BY <2>1, <2>2 DEF CountIInv, CountTypeOK
<1>2. Conserved'
  BY DEF CountIInv, CountTypeOK, Conserved, CountShape
<1>3. CountShape'
  BY DEF CountIInv, CountTypeOK, CountShape
<1>4. OneAtATime'
  BY DEF CountIInv, CountTypeOK, CountShape, OneAtATime, AnswerMissing
<1> QED
  BY <1>1, <1>2, <1>3, <1>4 DEF CountIInv

LEMMA DeliverStep == CountIInv /\ Deliver => CountIInv'
<1> SUFFICES ASSUME CountIInv, Deliver PROVE CountIInv'
  OBVIOUS
<1> USE DEF Deliver, Pends, arguments, ofParent, ofCounter
<1>1. CountTypeOK'
  BY DEF CountIInv, CountTypeOK
<1>2. Conserved'
  <2>1. /\ received \in Nat /\ to_parent \in Nat /\ to_child \in Nat
        /\ Len(handlers) \in Nat /\ Len(handlers') = Len(handlers) + 1
        /\ to_child' = to_child - 1
    BY HandlersLen DEF CountIInv, CountTypeOK, Handlers
  <2>2. UNCHANGED <<received, to_parent, parent_pc, sent>>
    OBVIOUS
  <2> QED
    BY <2>1, <2>2 DEF CountIInv, Conserved
<1>3. CountShape'
  BY DEF CountIInv, CountTypeOK, CountShape
<1>4. OneAtATime'
  BY DEF CountIInv, CountTypeOK, CountShape, OneAtATime, AnswerMissing
<1> QED
  BY <1>1, <1>2, <1>3, <1>4 DEF CountIInv

LEMMA LoadReceivedStep == CountIInv /\ LoadReceived => CountIInv'
<1> SUFFICES ASSUME CountIInv, LoadReceived PROVE CountIInv'
  OBVIOUS
<1> USE DEF LoadReceived, Handling, Top, Pends, arguments, ofParent, ofCounter
<1>1. CountTypeOK'
  BY DEF CountIInv, CountTypeOK
<1>2. Conserved'
  BY DEF CountIInv, CountTypeOK, Conserved, CountShape
<1>3. CountShape'
  BY DEF CountIInv, CountTypeOK, CountShape
<1>4. OneAtATime'
  BY DEF CountIInv, CountTypeOK, CountShape, OneAtATime, AnswerMissing
<1> QED
  BY <1>1, <1>2, <1>3, <1>4 DEF CountIInv

LEMMA StoreReceivedStep == CountIInv /\ StoreReceived => CountIInv'
<1> SUFFICES ASSUME CountIInv, StoreReceived PROVE CountIInv'
  OBVIOUS
<1> USE DEF StoreReceived, Handling, Top, Pends, arguments, ofParent, ofCounter
<1>1. CountTypeOK'
  <2>1. Top \in Handlers /\ Len(handlers) \in Nat
    BY HandlersLen DEF CountIInv
  <2>2. child_received' \in Nat /\ handlers' \in Seq([at: {"load", "store", "answer"}, count: Nat])
    BY <2>1 DEF CountIInv, CountTypeOK, Handlers
  <2> QED
    BY <2>2 DEF CountIInv, CountTypeOK
<1>2. Conserved'
  BY DEF CountIInv, CountTypeOK, Conserved, CountShape
<1>3. CountShape'
  <2>1. sent - received >= 1
    BY SMTT(40), HandlersLen DEF CountIInv, CountTypeOK, Conserved
  <2> QED
    BY <2>1 DEF CountIInv, CountTypeOK, CountShape
<1>4. OneAtATime'
  BY DEF CountIInv, CountTypeOK, CountShape, OneAtATime, AnswerMissing
<1> QED
  BY <1>1, <1>2, <1>3, <1>4 DEF CountIInv

LEMMA SendAnswerStep == CountIInv /\ SendAnswer => CountIInv'
<1> SUFFICES ASSUME CountIInv, SendAnswer PROVE CountIInv'
  OBVIOUS
<1> USE DEF SendAnswer, Handling, Top, Pends, arguments, ofParent, ofCounter
<1>0. /\ Len(handlers) - 1 \in 0..Len(handlers) /\ to_parent' \in Nat
      /\ Len(handlers') = Len(handlers) - 1 /\ to_parent' <= to_parent + 1
      /\ handlers' \in Seq([at: {"load", "store", "answer"}, count: Nat])
  <2>1. handlers \in Seq(Handlers) /\ Len(handlers) >= 1 /\ Len(handlers) \in Nat
    BY HandlersLen DEF CountIInv
  <2>2. /\ handlers' \in Seq(Handlers)
        /\ Len(handlers') = Len(handlers) - 1
    <3>1. \A n \in 1..(Len(handlers) - 1) : handlers[n] \in Handlers
      BY <2>1, ElementOfSeq
    <3>2. Len(handlers) - 1 \in Int /\ 1 \in Int
      BY <2>1
    <3> DEFINE rest == SubSeq(handlers, 1, Len(handlers) - 1)
    <3>3. /\ rest \in Seq(Handlers)
          /\ Len(rest) = IF 1 <= Len(handlers) - 1 THEN Len(handlers) - 1 - 1 + 1 ELSE 0
      BY <3>1, <3>2, SubSeqProperties
    <3>4. handlers' = rest
      OBVIOUS
    <3> HIDE DEF rest, SendAnswer
    <3> QED
      BY <2>1, <3>3, <3>4
  <2>3. to_parent' \in Nat /\ to_parent' <= to_parent + 1
    BY DEF CountIInv, CountTypeOK
  <2> QED
    BY <2>1, <2>2, <2>3 DEF Handlers
<1>1. CountTypeOK'
  BY <1>0 DEF CountIInv, CountTypeOK
<1>2. Conserved'
  <2>1. received \in Nat /\ to_parent \in Nat /\ to_child \in Nat /\ sent \in Nat
    BY DEF CountIInv, CountTypeOK
  <2> QED
    <3>1. /\ Len(handlers) \in Nat /\ to_parent' \in Nat
          /\ to_parent' + Len(handlers') <= to_parent + Len(handlers)
      <4>1. Len(handlers) \in Nat /\ to_parent' \in Nat /\ to_parent' <= to_parent + 1
        BY <1>0, HandlersLen DEF CountIInv
      <4>2. Len(handlers') = Len(handlers) - 1
        BY <1>0
      <4> HIDE DEF SendAnswer
      <4> QED
        BY <4>1, <4>2, <2>1
    <3>2. UNCHANGED <<received, to_child, sent, parent_pc>>
      OBVIOUS
    <3>3. Conserved
      BY DEF CountIInv
    <3> HIDE DEF SendAnswer
    <3> QED
      BY <2>1, <3>1, <3>2, <3>3, SMTT(40) DEF Conserved
<1>3. CountShape'
  BY DEF CountIInv, CountTypeOK, CountShape
<1>4. OneAtATime'
  BY DEF CountIInv, CountTypeOK, CountShape, OneAtATime, AnswerMissing
<1> QED
  BY <1>1, <1>2, <1>3, <1>4 DEF CountIInv

LEMMA ExitStep == CountIInv /\ Exit => CountIInv'
<1> SUFFICES ASSUME CountIInv, Exit PROVE CountIInv'
  OBVIOUS
<1> USE DEF Exit, Pends, arguments, ofParent, ofCounter
<1>1. CountTypeOK'
  <2>1. child_at' = "gone" /\ to_child' = 0 /\ stop_pending' \in BOOLEAN
    OBVIOUS
  <2>2. handlers' \in Seq([at: {"load", "store", "answer"}, count: Nat])
    BY DEF CountIInv, CountTypeOK
  <2> QED
    BY <2>1, <2>2 DEF CountIInv, CountTypeOK
<1>2. Conserved'
  BY DEF CountIInv, CountTypeOK, Conserved, CountShape
<1>3. CountShape'
  BY DEF CountIInv, CountTypeOK, CountShape
<1>4. OneAtATime'
  BY DEF CountIInv, CountTypeOK, CountShape, OneAtATime, AnswerMissing
<1> QED
  BY <1>1, <1>2, <1>3, <1>4 DEF CountIInv

LEMMA CountInvariant == CountSpec => []CountIInv
<1>1. CountIInv /\ [CountNext]_countVars => CountIInv'
  <2> SUFFICES ASSUME CountIInv, [CountNext]_countVars PROVE CountIInv'
    OBVIOUS
  <2>1. CASE UNCHANGED countVars
    BY <2>1 DEF countVars, CountIInv, CountTypeOK, Conserved, CountShape, OneAtATime,
                AnswerMissing
  <2>2. CASE ParentRuns
    BY <2>2, StartStep, WakesStep, NextSignalStep, WaitConfirmedStep, Kill1Step,
       SleepOverStep, Kill2Step, SummaryStep, AnswerStep DEF ParentRuns
  <2>3. CASE ChildRuns
    BY <2>3, SetHandlersStep, InheritedStep, UnhandledStep, DeliverStep,
       LoadReceivedStep, StoreReceivedStep, SendAnswerStep, ExitStep DEF ChildRuns
  <2> QED
    BY <2>1, <2>2, <2>3, InterruptedStep DEF CountNext
<1> QED
  BY CountInit_CountIInv, <1>1, PTL DEF CountSpec

(* However often the child's handler interrupts itself, each of its calls  *)
(* is at one of the three steps of the code, and no counter is negative.   *)
THEOREM CountTypeCorrect == CountSpec => []CountTypeOK
<1>1. CountIInv => CountTypeOK
  BY DEF CountIInv
<1> QED
  BY CountInvariant, <1>1, PTL

(* For any number of signals: no answer is counted that no signal was sent *)
(* for, and with confirmation parent and child count the same.             *)
THEOREM CountCountsAgree == CountSpec => []CountsAgree
<1>1. CountIInv => CountsAgree
  BY DEF CountIInv, CountTypeOK, Conserved, CountShape, OneAtATime, CountsAgree
<1> QED
  BY CountInvariant, <1>1, PTL
-----------------------------------------------------------------------------
(***************************************************************************)
(* DatePrinter.                                                            *)
(***************************************************************************)
Prints(d) == daters[d] = "prints"
NobodyPrints == \A d \in DOMAIN daters : ~Prints(d)

(* The handling of a signal begins once, and a ^Z that is not raced is not *)
(* handled while a ^C is.                                                  *)
CallsShape ==
    /\ \A n \in 1..Len(calls) :
           /\ calls[n].signal = "SIGTSTP" =>
                  n = 1 /\ dater_pc = "loop" /\ calls[n].at \in {"test", "store", "wait", "clear"}
           /\ calls[n].signal = "SIGINT" =>
                  n = Len(calls) /\ calls[n].at \in {"test", "kill", "exit"}
    /\ dater_pc \in {"spawn", "store"} => dater_pid = 0
    /\ dater_pc = "spawn" => daters = <<>>
    /\ dater_pc = "store" => first \in DOMAIN daters

(* Only one child prints, and where its pid is.                            *)
OnePrints ==
    /\ \A d \in DOMAIN daters : Prints(d) =>
           \/ d = dater_pid
           \/ d = first /\ dater_pc = "store"
           \/ Len(calls) # 0 /\ calls[1].at = "store" /\ calls[1].pid = d
    /\ dater_pc = "ended" => NobodyPrints
    /\ \A n \in 1..Len(calls) :
           /\ calls[n].at = "store" => dater_pid = 0
           /\ calls[n].at \in {"wait", "clear", "exit"} => NobodyPrints
           /\ calls[n].at = "kill" => calls[n].pid = dater_pid

DaterIInv == DaterTypeOK /\ (~raced => CallsShape /\ OnePrints)

ChildStates == {"prints", "zombie", "reaped"}
Calls(n) ==
    [signal: Signals, pid: 0..n, at: {"test", "store", "wait", "clear", "kill", "exit"}]

LEMMA DaterSeqs ==
    DaterTypeOK =>
        /\ daters \in Seq(ChildStates) /\ Len(daters) \in Nat /\ DOMAIN daters = 1..Len(daters)
        /\ calls \in Seq(Calls(Len(daters))) /\ Len(calls) \in Nat
        /\ DOMAIN calls = 1..Len(calls)
        /\ calls # <<>> => Len(calls) >= 1 /\ Last(calls) \in Calls(Len(daters))
<1> HAVE DaterTypeOK
<1>1. daters \in Seq(ChildStates) /\ calls \in Seq(Calls(Len(daters)))
  BY DEF DaterTypeOK, ChildStates, Calls
<1>2. /\ Len(daters) \in Nat /\ DOMAIN daters = 1..Len(daters)
      /\ Len(calls) \in Nat /\ DOMAIN calls = 1..Len(calls)
  BY <1>1, LenProperties
<1>3. calls # <<>> => Len(calls) \in Nat \ {0}
  BY <1>1, EmptySeq
<1>4. calls # <<>> => calls[Len(calls)] \in Calls(Len(daters))
  BY <1>1, <1>3, ElementOfSeq
<1> QED
  BY <1>1, <1>2, <1>3, <1>4 DEF Last

(* A kill makes nobody print.                                              *)
LEMMA KilledDaters ==
  ASSUME DaterTypeOK, NEW victims, Killed(victims)
  PROVE  /\ daters' \in Seq(ChildStates) /\ Len(daters') = Len(daters)
         /\ DOMAIN daters' = DOMAIN daters
         /\ \A d \in DOMAIN daters : Prints(d)' => Prints(d) /\ d \notin victims
<1>1. /\ daters \in Seq(ChildStates) /\ DOMAIN daters = 1..Len(daters) /\ Len(daters) \in Nat
  BY DaterSeqs
<1>2. \A d \in DOMAIN daters : daters[d] \in ChildStates
  BY <1>1, ElementOfSeq
<1>3. daters' \in [1..Len(daters) -> ChildStates]
  BY <1>1, <1>2 DEF Killed, ChildStates
<1>4. daters' \in Seq(ChildStates) /\ Len(daters') = Len(daters)
  BY <1>1, <1>3
<1> QED
  BY <1>1, <1>3, <1>4 DEF Killed, Prints

(* The call on top goes on.                                                *)
LEMMA GoesCalls ==
  ASSUME DaterTypeOK, calls # <<>>, NEW at, NEW pid, Goes(at, pid)
  PROVE  /\ Len(calls') = Len(calls)
         /\ \A n \in 1..Len(calls) :
                /\ calls'[n].signal = calls[n].signal
                /\ n # Len(calls) => calls'[n] = calls[n]
         /\ calls'[Len(calls)].at = at /\ calls'[Len(calls)].pid = pid
         /\ \A m \in Nat : /\ Len(daters) <= m /\ pid \in 0..m
                           /\ at \in {"test", "store", "wait", "clear", "kill", "exit"}
                           => calls' \in Seq(Calls(m))
<1>1. /\ calls \in Seq(Calls(Len(daters))) /\ Len(calls) \in Nat /\ Len(daters) \in Nat
      /\ DOMAIN calls = 1..Len(calls) /\ Len(calls) >= 1
  BY DaterSeqs
<1>2. \A n \in 1..Len(calls) : calls[n] \in Calls(Len(daters))
  BY <1>1, ElementOfSeq
<1>3. calls' = [calls EXCEPT ![Len(calls)] = [calls[Len(calls)] EXCEPT !.at = at, !.pid = pid]]
  BY <1>1, <1>2 DEF Goes, Calls
<1>4. Len(calls') = Len(calls)
  BY <1>1, <1>3
<1>5. /\ calls'[Len(calls)] = [calls[Len(calls)] EXCEPT !.at = at, !.pid = pid]
      /\ \A n \in 1..Len(calls) : n # Len(calls) => calls'[n] = calls[n]
  BY <1>1, <1>3
<1>6. /\ calls'[Len(calls)].signal = calls[Len(calls)].signal
      /\ calls'[Len(calls)].pid = pid /\ calls'[Len(calls)].at = at
  <2>1. calls[Len(calls)] \in Calls(Len(daters))
    BY <1>1, <1>2
  <2> QED
    BY <1>5, <2>1 DEF Calls
<1>7. ASSUME NEW m \in Nat, Len(daters) <= m, pid \in 0..m,
             at \in {"test", "store", "wait", "clear", "kill", "exit"}
      PROVE  calls' \in Seq(Calls(m))
  <2>1. \A n \in 1..Len(calls) : calls'[n] \in Calls(m)
    <3>1. calls[Len(calls)] \in Calls(Len(daters))
      BY <1>1, <1>2
    <3>2. calls'[Len(calls)] \in Calls(m)
      BY <1>5, <1>7, <3>1 DEF Calls
    <3>3. \A c \in Calls(Len(daters)) : c \in Calls(m)
      BY <1>1, <1>7 DEF Calls
    <3> QED
      BY <1>2, <1>5, <3>2, <3>3
  <2>2. calls' \in [1..Len(calls) -> Calls(m)]
    BY <1>1, <1>3, <2>1
  <2> QED
    BY <1>1, <2>2
<1> QED
  BY <1>1, <1>4, <1>5, <1>6, <1>7

(* The call on top returns.                                                *)
LEMMA ReturnsCalls ==
  ASSUME DaterTypeOK, calls # <<>>, calls' = Front(calls)
  PROVE  /\ calls' \in Seq(Calls(Len(daters))) /\ Len(calls') = Len(calls) - 1
         /\ \A n \in 1..Len(calls') : calls'[n] = calls[n]
<1>1. /\ calls \in Seq(Calls(Len(daters))) /\ Len(calls) \in Nat /\ Len(calls) >= 1
  BY DaterSeqs
<1>2. \A n \in 1..(Len(calls) - 1) : calls[n] \in Calls(Len(daters))
  BY <1>1, ElementOfSeq
<1>3. 1 \in Int /\ Len(calls) - 1 \in Int
  BY <1>1
<1> DEFINE rest == SubSeq(calls, 1, Len(calls) - 1)
<1>4. /\ rest \in Seq(Calls(Len(daters)))
      /\ Len(rest) = IF 1 <= Len(calls) - 1 THEN Len(calls) - 1 - 1 + 1 ELSE 0
      /\ \A n \in 1..(Len(calls) - 1 - 1 + 1) : rest[n] = calls[1 + n - 1]
  BY <1>2, <1>3, SubSeqProperties
<1>5. calls' = rest
  BY DEF Front
<1> HIDE DEF rest
<1> QED
  BY <1>1, <1>4, <1>5

LEMMA DaterInit_DaterIInv == DaterInit => DaterIInv
<1> SUFFICES ASSUME DaterInit PROVE DaterIInv
  OBVIOUS
<1>1. DaterTypeOK
  <2>0. raced \in BOOLEAN
    BY DEF DaterInit
  <2>1. keys \in 0..MaxKeys
    BY DaterAssumption DEF DaterInit
  <2>2. daters \in Seq(ChildStates) /\ calls \in Seq(Calls(Len(daters)))
    BY EmptySeq DEF DaterInit
  <2> QED
    BY <2>0, <2>1, <2>2 DEF DaterInit, DaterTypeOK, ChildStates, Calls
<1>2. CallsShape /\ OnePrints
  BY DEF DaterInit, CallsShape, OnePrints, NobodyPrints, Prints
<1> QED
  BY <1>1, <1>2 DEF DaterIInv

LEMMA SpawnFirstStep == DaterIInv /\ SpawnFirst => DaterIInv'
<1> SUFFICES ASSUME DaterIInv, SpawnFirst PROVE DaterIInv'
  OBVIOUS
<1>1. /\ daters \in Seq(ChildStates) /\ Len(daters) \in Nat /\ calls = <<>>
      /\ dater_pc = "spawn" /\ dater_pc' = "store"
      /\ UNCHANGED <<dater_pid, keys, pending, calls, raced>>
      /\ daters' = Append(daters, "prints") /\ first' = Len(daters')
  BY DaterSeqs DEF DaterIInv, SpawnFirst, InMain
<1>2. /\ daters' \in Seq(ChildStates) /\ Len(daters') = Len(daters) + 1
      /\ DOMAIN daters' = 1..Len(daters')
  BY <1>1 DEF ChildStates
<1>3. DaterTypeOK'
  BY <1>1, <1>2, EmptySeq DEF DaterIInv, DaterTypeOK, ChildStates
<1>4. ~raced => CallsShape' /\ OnePrints'
  BY <1>1, <1>2 DEF DaterIInv, CallsShape, OnePrints, NobodyPrints, Prints
<1> QED
  BY <1>1, <1>3, <1>4 DEF DaterIInv

LEMMA StoreFirstStep == DaterIInv /\ StoreFirst => DaterIInv'
<1> SUFFICES ASSUME DaterIInv, StoreFirst PROVE DaterIInv'
  OBVIOUS
<1>1. /\ calls = <<>> /\ dater_pc = "store" /\ dater_pc' = "loop" /\ dater_pid' = first
      /\ UNCHANGED <<daters, keys, pending, calls, first, raced>>
  BY DEF StoreFirst, InMain
<1>2. DaterTypeOK'
  BY <1>1 DEF DaterIInv, DaterTypeOK
<1>3. ~raced => CallsShape' /\ OnePrints'
  BY <1>1 DEF DaterIInv, CallsShape, OnePrints, NobodyPrints, Prints
<1> QED
  BY <1>1, <1>2, <1>3 DEF DaterIInv

LEMMA KeepsShape ==
  ASSUME DaterIInv, daters' \in Seq(ChildStates), Len(daters') = Len(daters),
         DOMAIN daters' = DOMAIN daters,
         \A d \in DOMAIN daters : Prints(d)' => Prints(d),
         UNCHANGED <<dater_pc, dater_pid, calls, first, raced>>
  PROVE  ~raced => CallsShape' /\ OnePrints'
<1> SUFFICES ASSUME ~raced PROVE CallsShape' /\ OnePrints'
  OBVIOUS
<1>1. CallsShape'
  <2>1. daters = <<>> => daters' = <<>>
    BY EmptySeq
  <2> QED
    BY <2>1 DEF DaterIInv, CallsShape
<1>2. OnePrints'
  BY DEF DaterIInv, OnePrints, NobodyPrints
<1> QED
  BY <1>1, <1>2

LEMMA PressStep == ASSUME NEW signal \in Signals PROVE DaterIInv /\ Press(signal) => DaterIInv'
<1> SUFFICES ASSUME DaterIInv, Press(signal) PROVE DaterIInv'
  OBVIOUS
<1>1. /\ daters' \in Seq(ChildStates) /\ Len(daters') = Len(daters)
      /\ DOMAIN daters' = DOMAIN daters
      /\ \A d \in DOMAIN daters : Prints(d)' => Prints(d)
  <2>1. CASE UNCHANGED daters
    BY <2>1, DaterSeqs DEF DaterIInv, Prints
  <2>2. CASE Killed(DOMAIN daters)
    BY <2>2, KilledDaters DEF DaterIInv
  <2> QED
    BY <2>1, <2>2 DEF Press
<1>2. DaterTypeOK'
  BY <1>1, DaterAssumption DEF Press, DaterIInv, DaterTypeOK, ChildStates
<1>3. UNCHANGED <<dater_pc, dater_pid, calls, first, raced>>
  BY DEF Press
<1> QED
  BY <1>1, <1>2, <1>3, KeepsShape DEF DaterIInv

LEMMA SpawnFailsStep == DaterIInv /\ SpawnFails => DaterIInv'
<1> SUFFICES ASSUME DaterIInv, SpawnFails PROVE DaterIInv'
  OBVIOUS
<1>1. PICK d \in DOMAIN daters : Killed({d})
  BY DEF SpawnFails
<1>2. /\ daters' \in Seq(ChildStates) /\ Len(daters') = Len(daters)
      /\ DOMAIN daters' = DOMAIN daters
      /\ \A e \in DOMAIN daters : Prints(e)' => Prints(e)
  BY <1>1, KilledDaters DEF DaterIInv
<1>3. UNCHANGED <<dater_pc, dater_pid, keys, pending, calls, first, raced>>
  BY DEF SpawnFails
<1>4. DaterTypeOK'
  BY <1>2, <1>3 DEF DaterIInv, DaterTypeOK, ChildStates
<1> QED
  BY <1>2, <1>3, <1>4, KeepsShape DEF DaterIInv

LEMMA CallStep == ASSUME NEW signal \in Signals PROVE DaterIInv /\ Call(signal) => DaterIInv'
<1> SUFFICES ASSUME DaterIInv, Call(signal) PROVE DaterIInv'
  OBVIOUS
<1> DEFINE call == [signal |-> signal, at |-> "test", pid |-> 0]
<1>1. /\ calls \in Seq(Calls(Len(daters))) /\ Len(calls) \in Nat /\ Len(daters) \in Nat
      /\ DOMAIN calls = 1..Len(calls) /\ call \in Calls(Len(daters))
  BY DaterSeqs DEF DaterIInv, Calls
<1>2. calls' = Append(calls, call) /\ UNCHANGED <<dater_pc, dater_pid, daters, keys, first>>
  BY DEF Call
<1>3. /\ calls' \in Seq(Calls(Len(daters))) /\ Len(calls') = Len(calls) + 1
      /\ \A n \in 1..Len(calls) : calls'[n] = calls[n]
      /\ calls'[Len(calls) + 1] = call
  BY <1>1, <1>2, AppendProperties
<1>0. \A n \in 1..Len(calls) : calls[n].signal \in {"SIGTSTP", "SIGINT"}
  <2>1. \A n \in 1..Len(calls) : calls[n] \in Calls(Len(daters))
    BY <1>1, ElementOfSeq
  <2> QED
    BY <2>1 DEF Calls, Signals
<1>4. DaterTypeOK'
  <2>1. pending' \subseteq Signals /\ raced' \in BOOLEAN
    BY DEF Call, DaterIInv, DaterTypeOK
  <2> QED
    BY <1>2, <1>3, <2>1 DEF DaterIInv, DaterTypeOK, Calls
<1>5. ASSUME ~raced' PROVE CallsShape' /\ OnePrints'
  <2>1. ~raced /\ CallsShape /\ OnePrints
    BY <1>5 DEF Call, DaterIInv
  <2>2. \A n \in 1..Len(calls) : calls[n].signal # signal
    BY <1>1 DEF Call, BeingHandled
  <2>3. signal = "SIGTSTP" => dater_pc = "loop" /\ Len(calls) = 0
    <3>1. signal = "SIGTSTP" =>
              dater_pc = "loop" /\ \A n \in 1..Len(calls) : calls[n].signal # "SIGINT"
      BY <1>1, <1>5 DEF Call, BeingHandled
    <3> QED
      BY <1>0, <1>1, <2>2, <3>1
  <2>4. signal = "SIGINT" => \A n \in 1..Len(calls) : n = 1 /\ calls[n].signal = "SIGTSTP"
    BY <1>0, <2>1, <2>2 DEF CallsShape
  <2>5. CallsShape'
    <3> SUFFICES ASSUME NEW n \in 1..Len(calls')
                 PROVE  /\ calls'[n].signal = "SIGTSTP" =>
                               /\ n = 1 /\ dater_pc = "loop"
                               /\ calls'[n].at \in {"test", "store", "wait", "clear"}
                        /\ calls'[n].signal = "SIGINT" =>
                               n = Len(calls') /\ calls'[n].at \in {"test", "kill", "exit"}
      BY <1>2, <2>1 DEF CallsShape
    <3>1. CASE n = Len(calls) + 1
      BY <1>1, <1>3, <2>3, <3>1
    <3>2. CASE n \in 1..Len(calls)
      <4>1. signal = "SIGINT" /\ n = 1 /\ calls'[n] = calls[n] /\ calls[n].signal = "SIGTSTP"
        BY <1>1, <1>3, <2>3, <2>4, <3>2 DEF Signals
      <4> QED
        BY <2>1, <3>2, <4>1 DEF CallsShape
    <3> QED
      BY <1>1, <1>3, <3>1, <3>2
  <2>6. OnePrints'
    <3>1. \A n \in 1..Len(calls') : n \in 1..Len(calls) \/ (n = Len(calls) + 1 /\ calls'[n].at = "test")
      BY <1>1, <1>3
    <3>2. Len(calls) # 0 => 1 \in 1..Len(calls) /\ Len(calls') # 0
      BY <1>1, <1>3
    <3> QED
      BY <1>2, <1>3, <2>1, <3>1, <3>2 DEF OnePrints, NobodyPrints, Prints
  <2> QED
    BY <2>5, <2>6
<1> QED
  BY <1>4, <1>5 DEF DaterIInv

(* A handling of ^Z that goes on is the only call, unless it is raced.     *)
LEMMA StopOnTop ==
  ASSUME DaterIInv, ~raced, calls # <<>>, Last(calls).signal = "SIGTSTP"
  PROVE  /\ Len(calls) = 1 /\ Last(calls) = calls[1] /\ dater_pc = "loop"
         /\ CallsShape /\ OnePrints
<1>1. Len(calls) \in Nat /\ Len(calls) >= 1 /\ Last(calls) = calls[Len(calls)]
  BY DaterSeqs DEF DaterIInv, Last
<1>2. Len(calls) \in 1..Len(calls)
  BY <1>1
<1> QED
  BY <1>1, <1>2 DEF DaterIInv, CallsShape

LEMMA TestStep == DaterIInv /\ Test => DaterIInv'
<1> SUFFICES ASSUME DaterIInv, Test PROVE DaterIInv'
  OBVIOUS
<1>0. /\ calls # <<>> /\ Last(calls).signal = "SIGTSTP" /\ Last(calls).at = "test"
      /\ UNCHANGED <<dater_pc, dater_pid, keys, pending, first, raced>>
      /\ DaterTypeOK /\ dater_pid \in 0..Len(daters)
  BY DEF Test, Runs, DaterIInv, DaterTypeOK
<1>1. /\ daters \in Seq(ChildStates) /\ Len(daters) \in Nat /\ DOMAIN daters = 1..Len(daters)
      /\ Len(calls) \in Nat /\ Len(calls) >= 1 /\ Last(calls) = calls[Len(calls)]
  BY <1>0, DaterSeqs DEF Last
<1>2. ~raced => Len(calls) = 1 /\ dater_pc = "loop" /\ CallsShape /\ OnePrints
  BY <1>0, StopOnTop
<1>3. CASE dater_pid = 0
  <2>1. daters' = Append(daters, "prints") /\ Goes("store", Len(daters'))
    BY <1>0, <1>3 DEF Test
  <2>2. /\ daters' \in Seq(ChildStates) /\ Len(daters') = Len(daters) + 1
        /\ DOMAIN daters' = 1..Len(daters')
        /\ \A d \in 1..Len(daters) : daters'[d] = daters[d]
    BY <1>1, <2>1 DEF ChildStates
  <2>3. /\ Len(calls') = Len(calls) /\ calls' \in Seq(Calls(Len(daters')))
        /\ calls'[Len(calls)].signal = "SIGTSTP"
        /\ calls'[Len(calls)].at = "store" /\ calls'[Len(calls)].pid = Len(daters')
    BY <1>0, <1>1, <2>1, <2>2, GoesCalls
  <2>4. DaterTypeOK'
    BY <1>0, <1>1, <2>2, <2>3 DEF DaterTypeOK, ChildStates, Calls
  <2>5. ~raced => CallsShape' /\ OnePrints'
    BY SMTT(40), <1>0, <1>1, <1>2, <1>3, <2>2, <2>3 DEF CallsShape, OnePrints, NobodyPrints, Prints
  <2> QED
    BY <1>0, <2>4, <2>5 DEF DaterIInv
<1>4. CASE dater_pid # 0
  <2>1. Killed({dater_pid}) /\ Goes("wait", dater_pid)
    BY <1>0, <1>4 DEF Test
  <2>2. /\ daters' \in Seq(ChildStates) /\ Len(daters') = Len(daters)
        /\ DOMAIN daters' = DOMAIN daters
        /\ \A d \in DOMAIN daters : Prints(d)' => Prints(d) /\ d # dater_pid
    BY <1>0, <2>1, KilledDaters
  <2>3. /\ Len(calls') = Len(calls) /\ calls' \in Seq(Calls(Len(daters')))
        /\ calls'[Len(calls)].signal = "SIGTSTP" /\ calls'[Len(calls)].at = "wait"
    BY <1>0, <1>1, <2>1, <2>2, GoesCalls
  <2>4. DaterTypeOK'
    BY <1>0, <1>1, <2>2, <2>3 DEF DaterTypeOK, ChildStates, Calls
  <2>5. ~raced => NobodyPrints'
    BY <1>0, <1>1, <1>2, <2>2 DEF OnePrints, NobodyPrints
  <2>6. ~raced => CallsShape' /\ OnePrints'
    BY <1>0, <1>1, <1>2, <2>2, <2>3, <2>5 DEF CallsShape, OnePrints, NobodyPrints
  <2> QED
    BY <1>0, <2>4, <2>6 DEF DaterIInv
<1> QED
  BY <1>3, <1>4

LEMMA StoreStep == DaterIInv /\ Store => DaterIInv'
<1> SUFFICES ASSUME DaterIInv, Store PROVE DaterIInv'
  OBVIOUS
<1>0. /\ calls # <<>> /\ Last(calls).signal = "SIGTSTP" /\ Last(calls).at = "store"
      /\ dater_pid' = Last(calls).pid /\ calls' = Front(calls)
      /\ UNCHANGED <<dater_pc, daters, keys, pending, first, raced>> /\ DaterTypeOK
  BY DEF Store, Runs, Returns, DaterIInv
<1>1. /\ Len(calls) \in Nat /\ Len(calls) >= 1 /\ Last(calls) = calls[Len(calls)]
      /\ Last(calls) \in Calls(Len(daters))
  BY <1>0, DaterSeqs DEF Last
<1>2. calls' \in Seq(Calls(Len(daters))) /\ Len(calls') = Len(calls) - 1
  BY <1>0, ReturnsCalls
<1>3. DaterTypeOK'
  BY <1>0, <1>1, <1>2 DEF DaterTypeOK, Calls
<1>4. ~raced => CallsShape' /\ OnePrints'
  <2>1. ~raced => Len(calls) = 1 /\ dater_pc = "loop" /\ CallsShape /\ OnePrints /\ dater_pid = 0
    BY <1>0, <1>1, StopOnTop DEF OnePrints
  <2>2. ~raced => \A d \in DOMAIN daters : Prints(d) => d = dater_pid'
    BY <1>0, <1>1, <2>1, DaterSeqs DEF OnePrints
  <2> QED
    BY <1>0, <1>1, <1>2, <2>1, <2>2 DEF CallsShape, OnePrints, NobodyPrints, Prints
<1> QED
  BY <1>0, <1>3, <1>4 DEF DaterIInv

LEMMA WaitPidStep == DaterIInv /\ WaitPid => DaterIInv'
<1> SUFFICES ASSUME DaterIInv, WaitPid PROVE DaterIInv'
  OBVIOUS
<1>0. /\ calls # <<>> /\ Last(calls).signal = "SIGTSTP" /\ Last(calls).at = "wait"
      /\ daters' = [daters EXCEPT ![Last(calls).pid] = "reaped"] /\ Goes("clear", 0)
      /\ UNCHANGED <<dater_pc, dater_pid, keys, pending, first, raced>> /\ DaterTypeOK
  BY DEF WaitPid, Runs, DaterIInv
<1>1. /\ daters \in Seq(ChildStates) /\ Len(daters) \in Nat /\ DOMAIN daters = 1..Len(daters)
      /\ Len(calls) \in Nat /\ Len(calls) >= 1 /\ Last(calls) = calls[Len(calls)]
  BY <1>0, DaterSeqs DEF Last
<1>2. /\ daters' \in Seq(ChildStates) /\ Len(daters') = Len(daters)
      /\ DOMAIN daters' = DOMAIN daters
      /\ \A d \in DOMAIN daters : Prints(d)' => Prints(d)
  <2>1. daters' \in Seq(ChildStates) /\ Len(daters') = Len(daters)
    <3>1. \A d \in 1..Len(daters) : daters[d] \in ChildStates
      BY <1>1, ElementOfSeq
    <3>2. daters' \in [1..Len(daters) -> ChildStates]
      BY <1>0, <1>1, <3>1 DEF ChildStates
    <3> QED
      BY <1>1, <3>2
  <2>2. DOMAIN daters' = DOMAIN daters
    BY <1>0
  <2>3. \A d \in DOMAIN daters : Prints(d)' => Prints(d)
    BY <1>0 DEF Prints
  <2> QED
    BY <2>1, <2>2, <2>3
<1>3. /\ Len(calls') = Len(calls) /\ calls' \in Seq(Calls(Len(daters')))
      /\ calls'[Len(calls)].signal = "SIGTSTP" /\ calls'[Len(calls)].at = "clear"
  BY <1>0, <1>1, <1>2, GoesCalls
<1>4. DaterTypeOK'
  BY <1>0, <1>2, <1>3 DEF DaterTypeOK, ChildStates, Calls
<1>5. ~raced => CallsShape' /\ OnePrints'
  <2>1. ~raced => Len(calls) = 1 /\ dater_pc = "loop" /\ CallsShape /\ OnePrints /\ NobodyPrints
    BY <1>0, <1>1, StopOnTop DEF OnePrints
  <2> QED
    BY <1>0, <1>1, <1>2, <1>3, <2>1 DEF CallsShape, OnePrints, NobodyPrints
<1> QED
  BY <1>0, <1>4, <1>5 DEF DaterIInv

LEMMA ClearStep == DaterIInv /\ Clear => DaterIInv'
<1> SUFFICES ASSUME DaterIInv, Clear PROVE DaterIInv'
  OBVIOUS
<1>0. /\ calls # <<>> /\ Last(calls).signal = "SIGTSTP" /\ Last(calls).at = "clear"
      /\ dater_pid' = 0 /\ calls' = Front(calls)
      /\ UNCHANGED <<dater_pc, daters, keys, pending, first, raced>> /\ DaterTypeOK
  BY DEF Clear, Runs, Returns, DaterIInv
<1>1. /\ Len(calls) \in Nat /\ Len(calls) >= 1 /\ Last(calls) = calls[Len(calls)]
      /\ Len(daters) \in Nat
  BY <1>0, DaterSeqs DEF Last
<1>2. calls' \in Seq(Calls(Len(daters))) /\ Len(calls') = Len(calls) - 1
  BY <1>0, ReturnsCalls
<1>3. DaterTypeOK'
  BY <1>0, <1>1, <1>2 DEF DaterTypeOK, Calls
<1>4. ~raced => CallsShape' /\ OnePrints'
  <2>1. ~raced => Len(calls) = 1 /\ dater_pc = "loop" /\ CallsShape /\ OnePrints /\ NobodyPrints
    BY <1>0, <1>1, StopOnTop DEF OnePrints
  <2> QED
    BY <1>0, <1>1, <1>2, <2>1 DEF CallsShape, OnePrints, NobodyPrints, Prints
<1> QED
  BY <1>0, <1>3, <1>4 DEF DaterIInv

LEMMA LoadPidStep == DaterIInv /\ LoadPid => DaterIInv'
<1> SUFFICES ASSUME DaterIInv, LoadPid PROVE DaterIInv'
  OBVIOUS
<1>0. /\ calls # <<>> /\ Last(calls).signal = "SIGINT" /\ Last(calls).at = "test"
      /\ Goes("kill", dater_pid)
      /\ UNCHANGED <<dater_pc, dater_pid, daters, keys, pending, first, raced>>
      /\ DaterTypeOK /\ dater_pid \in 0..Len(daters)
  BY DEF LoadPid, Runs, DaterIInv, DaterTypeOK
<1>1. /\ Len(daters) \in Nat /\ Len(calls) \in Nat /\ Len(calls) >= 1
      /\ Last(calls) = calls[Len(calls)]
  BY <1>0, DaterSeqs DEF Last
<1>2. /\ Len(calls') = Len(calls) /\ calls' \in Seq(Calls(Len(daters)))
      /\ \A n \in 1..Len(calls) :
             calls'[n].signal = calls[n].signal /\ (n # Len(calls) => calls'[n] = calls[n])
      /\ calls'[Len(calls)].at = "kill" /\ calls'[Len(calls)].pid = dater_pid
  BY <1>0, <1>1, GoesCalls
<1>3. DaterTypeOK'
  BY <1>0, <1>2 DEF DaterTypeOK, Calls
<1>4. ~raced => CallsShape' /\ OnePrints'
  <2> SUFFICES ASSUME ~raced PROVE CallsShape' /\ OnePrints'
    OBVIOUS
  <2>1. CallsShape /\ OnePrints /\ calls'[Len(calls)].signal = "SIGINT"
    BY <1>0, <1>1, <1>2 DEF DaterIInv
  <2>2. CallsShape'
    BY <1>0, <1>1, <1>2, <2>1 DEF CallsShape
  <2>3. OnePrints'
    BY <1>0, <1>1, <1>2, <2>1 DEF OnePrints, NobodyPrints, Prints
  <2> QED
    BY <2>2, <2>3
<1> QED
  BY <1>0, <1>3, <1>4 DEF DaterIInv

LEMMA KillDaterStep == DaterIInv /\ KillDater => DaterIInv'
<1> SUFFICES ASSUME DaterIInv, KillDater PROVE DaterIInv'
  OBVIOUS
<1>0. /\ calls # <<>> /\ Last(calls).signal = "SIGINT" /\ Last(calls).at = "kill"
      /\ UNCHANGED <<dater_pid, keys, pending, first, raced>> /\ DaterTypeOK
  BY DEF KillDater, Runs, DaterIInv
<1>1. /\ Len(daters) \in Nat /\ Len(calls) \in Nat /\ Len(calls) >= 1
      /\ Last(calls) = calls[Len(calls)] /\ DOMAIN daters = 1..Len(daters)
  BY <1>0, DaterSeqs DEF Last
<1>2. CASE Last(calls).pid = 0
  <2>1. Killed(DOMAIN daters) /\ calls' = <<>> /\ dater_pc' = "ended"
    BY <1>2 DEF KillDater
  <2>2. /\ daters' \in Seq(ChildStates) /\ Len(daters') = Len(daters)
        /\ DOMAIN daters' = DOMAIN daters /\ NobodyPrints'
    BY <1>0, <2>1, KilledDaters DEF NobodyPrints
  <2>3. DaterTypeOK'
    BY <1>0, <2>1, <2>2, EmptySeq DEF DaterTypeOK, ChildStates, Calls
  <2>4. CallsShape' /\ OnePrints'
    BY <2>1, <2>2 DEF CallsShape, OnePrints, NobodyPrints
  <2> QED
    BY <2>3, <2>4 DEF DaterIInv
<1>3. CASE Last(calls).pid # 0
  <2>1. Killed({Last(calls).pid}) /\ Goes("exit", 0) /\ UNCHANGED dater_pc
    BY <1>3 DEF KillDater
  <2>2. /\ daters' \in Seq(ChildStates) /\ Len(daters') = Len(daters)
        /\ DOMAIN daters' = DOMAIN daters
        /\ \A d \in DOMAIN daters : Prints(d)' => Prints(d) /\ d # Last(calls).pid
    BY <1>0, <2>1, KilledDaters
  <2>3. /\ Len(calls') = Len(calls) /\ calls' \in Seq(Calls(Len(daters')))
        /\ \A n \in 1..Len(calls) :
               calls'[n].signal = calls[n].signal /\ (n # Len(calls) => calls'[n] = calls[n])
        /\ calls'[Len(calls)].at = "exit"
    BY <1>0, <1>1, <2>1, <2>2, GoesCalls
  <2>4. DaterTypeOK'
    BY <1>0, <2>1, <2>2, <2>3 DEF DaterTypeOK, ChildStates, Calls
  <2>5. ASSUME ~raced PROVE CallsShape' /\ OnePrints'
    <3>1. /\ CallsShape /\ OnePrints /\ calls'[Len(calls)].signal = "SIGINT"
          /\ Last(calls).pid = dater_pid /\ dater_pc = dater_pc'
      BY <1>0, <1>1, <2>1, <2>3, <2>5 DEF DaterIInv, OnePrints
    <3>2. CallsShape'
      <4>1. dater_pc # "spawn" /\ dater_pc # "store"
        BY <1>3, <3>1 DEF CallsShape
      <4> QED
        BY <1>0, <1>1, <2>2, <2>3, <3>1, <4>1 DEF CallsShape
    <3>3. NobodyPrints'
      <4>1. \A d \in DOMAIN daters : Prints(d)' =>
                Len(calls) # 0 /\ calls[1].at = "store" /\ dater_pid # 0
        BY <1>3, <2>2, <3>1 DEF OnePrints, CallsShape
      <4> QED
        BY <1>1, <2>2, <3>1, <4>1 DEF OnePrints, NobodyPrints
    <3>4. OnePrints'
      BY <1>0, <1>1, <2>2, <2>3, <3>1, <3>3 DEF OnePrints, NobodyPrints
    <3> QED
      BY <3>2, <3>4
  <2> QED
    BY <1>0, <2>4, <2>5 DEF DaterIInv
<1> QED
  BY <1>2, <1>3

LEMMA ExitProgramStep == DaterIInv /\ ExitProgram => DaterIInv'
<1> SUFFICES ASSUME DaterIInv, ExitProgram PROVE DaterIInv'
  OBVIOUS
<1>0. /\ calls # <<>> /\ Last(calls).signal = "SIGINT" /\ Last(calls).at = "exit"
      /\ calls' = <<>> /\ dater_pc' = "ended"
      /\ UNCHANGED <<dater_pid, daters, keys, pending, first, raced>> /\ DaterTypeOK
  BY DEF ExitProgram, Runs, DaterIInv
<1>1. /\ Len(calls) \in Nat /\ Len(calls) >= 1 /\ Last(calls) = calls[Len(calls)]
  BY <1>0, DaterSeqs DEF Last
<1>2. DaterTypeOK'
  BY <1>0, EmptySeq DEF DaterTypeOK
<1>3. ~raced => CallsShape' /\ OnePrints'
  <2>1. ~raced => CallsShape /\ OnePrints /\ NobodyPrints
    BY <1>0, <1>1 DEF DaterIInv, OnePrints
  <2> QED
    BY <1>0, <2>1 DEF CallsShape, OnePrints, NobodyPrints, Prints
<1> QED
  BY <1>0, <1>2, <1>3 DEF DaterIInv

LEMMA DaterInvariant == DaterSpec => []DaterIInv
<1>1. DaterIInv /\ [DaterNext]_daterVars => DaterIInv'
  <2> SUFFICES ASSUME DaterIInv, [DaterNext]_daterVars PROVE DaterIInv'
    OBVIOUS
  <2>1. CASE UNCHANGED daterVars
    BY <2>1 DEF daterVars, DaterIInv, DaterTypeOK, CallsShape, OnePrints, NobodyPrints, Prints
  <2>2. CASE handler
    BY <2>2, TestStep, StoreStep, WaitPidStep, ClearStep, LoadPidStep, KillDaterStep,
       ExitProgramStep DEF handler
  <2> QED
    BY <2>1, <2>2, SpawnFirstStep, StoreFirstStep, SpawnFailsStep, PressStep, CallStep
    DEF DaterNext
<1> QED
  BY DaterInit_DaterIInv, <1>1, PTL DEF DaterSpec

(* dater_pid, and the pid a call of the handler holds, is 0 or that of a   *)
(* child that has been forked.                                             *)
THEOREM DaterTypeCorrect == DaterSpec => []DaterTypeOK
<1>1. DaterIInv => DaterTypeOK
  BY DEF DaterIInv
<1> QED
  BY DaterInvariant, <1>1, PTL

(* However the handling of the two signals is interleaved, the one child   *)
(* that prints is known to the program, unless a ^Z came too early or too  *)
(* late.                                                                   *)
THEOREM DaterNoStrayDater == DaterSpec => []NoStrayDater
<1>1. DaterIInv => NoStrayDater
  <2> SUFFICES ASSUME DaterIInv, ~raced, NEW d \in DOMAIN daters, Prints(d)
               PROVE  /\ dater_pc # "ended"
                      /\ \/ d = dater_pid
                         \/ d = first /\ dater_pc = "store"
                         \/ \E n \in DOMAIN calls : calls[n].at = "store" /\ calls[n].pid = d
    BY DEF NoStrayDater, Prints
  <2>1. Len(calls) # 0 => 1 \in DOMAIN calls
    BY DaterSeqs DEF DaterIInv
  <2> QED
    BY <2>1 DEF DaterIInv, OnePrints, NobodyPrints
<1> QED
  BY DaterInvariant, <1>1, PTL
-----------------------------------------------------------------------------
(***************************************************************************)
(* ImageFilter.                                                            *)
(***************************************************************************)
PartLen == divceil(image_h, threads)
PartEnd(t) == IF t * PartLen <= image_h THEN t * PartLen ELSE image_h

FilterShape ==
    /\ filter_pc = "read" => params = <<>> /\ joined = 0 /\ image_h = 0
    /\ filter_pc # "read" => threads >= 1 /\ filter_size >= 1
    /\ filter_pc = "create" => Len(params) < threads /\ joined = 0
    /\ filter_pc \in {"join", "write", "finished"} => Len(params) = threads
    /\ filter_pc = "join" => joined < threads
    /\ filter_pc \in {"write", "finished"} => joined = threads
    /\ \A t \in 1..joined : params[t].begin >= params[t].end

(* A thread has done its rows up to begin, and nobody else has.            *)
PartsDone ==
    filter_pc # "read" =>
        /\ \A t \in 1..Len(params) :
               params[t].begin >= (t - 1) * PartLen /\ params[t].end = PartEnd(t)
        /\ \A r \in Rows :
               \/ r >= Len(params) * PartLen /\ image_out[r] = <<>>
               \/ \E t \in 1..Len(params) :
                      /\ (t - 1) * PartLen <= r /\ r < t * PartLen
                      /\ r < params[t].begin <=> Len(image_out[r]) = 1
                      /\ r >= params[t].begin <=> image_out[r] = <<>>

Neighbours(r, rows) ==
    rows \subseteq Rows /\ \A k \in rows : k - r \in -filter_size..filter_size

RowsNear ==
    \A r \in Rows : \A n \in 1..Len(image_out[r]) : Neighbours(r, image_out[r][n])

FilterIInv == FilterTypeOK /\ FilterShape /\ PartsDone /\ RowsNear

LEMMA DivceilCovers ==
  ASSUME NEW x \in Nat, NEW divisor \in Nat, divisor >= 1
  PROVE  divceil(x, divisor) \in Nat /\ divisor * divceil(x, divisor) >= x
<1>1. /\ x \div divisor \in Nat /\ x % divisor \in 0..(divisor - 1)
      /\ x = divisor * (x \div divisor) + (x % divisor)
  OBVIOUS
<1>2. divisor * ((x \div divisor) + 1) = divisor * (x \div divisor) + divisor
  BY <1>1
<1> QED
  BY <1>1, <1>2 DEF divceil

LEMMA TimesMonotone ==
  ASSUME NEW a \in Nat, NEW b \in Nat, a <= b, NEW p \in Nat
  PROVE  a * p \in Nat /\ b * p \in Nat /\ a * p <= b * p
<1>1. b - a \in Nat /\ b = a + (b - a)
  OBVIOUS
<1>2. (b - a) * p \in Nat
  BY <1>1
<1>3. b * p = a * p + (b - a) * p
  BY <1>1
<1> QED
  BY <1>2, <1>3

LEMMA TimesNext == ASSUME NEW t \in Int, NEW p \in Nat PROVE t * p = (t - 1) * p + p
OBVIOUS

Part == [begin: Nat, end: Int]

LEMMA FilterSeqs ==
    FilterTypeOK =>
        /\ params \in Seq(Part) /\ Len(params) \in Nat
        /\ \A t \in 1..Len(params) : params[t].begin \in Nat /\ params[t].end \in Int
        /\ \A r \in Rows : image_out[r] \in Seq(SUBSET Int) /\ Len(image_out[r]) \in Nat
<1> HAVE FilterTypeOK
<1>1. params \in Seq(Part)
  BY DEF FilterTypeOK, Part
<1>2. Len(params) \in Nat
  BY <1>1, LenProperties
<1>3. \A t \in 1..Len(params) : params[t] \in Part
  BY <1>1, ElementOfSeq
<1>4. \A r \in Rows : image_out[r] \in Seq(SUBSET Int)
  BY DEF FilterTypeOK
<1>5. \A r \in Rows : Len(image_out[r]) \in Nat
  BY <1>4, LenProperties
<1> QED
  BY <1>1, <1>2, <1>3, <1>4, <1>5 DEF Part

LEMMA PartLenNat ==
    FilterTypeOK /\ threads >= 1 => PartLen \in Nat /\ threads * PartLen >= image_h
BY DivceilCovers DEF FilterTypeOK, PartLen

(* The rows a pixel is computed from are in the image, and near.           *)
LEMMA IndexNear ==
  ASSUME NEW r \in Rows, NEW k \in 0..(filter_size - 1), image_h \in Nat, filter_size \in Nat
  PROVE  get_idx(r, k, image_h) \in Rows /\ get_idx(r, k, image_h) - r \in -filter_size..filter_size
<1> DEFINE half == divceil(filter_size, 2)
           idx == r - half + k
<1>1. half \in 0..filter_size
  <2>1. filter_size \div 2 \in Nat /\ filter_size % 2 \in 0..1
        /\ filter_size = 2 * (filter_size \div 2) + (filter_size % 2)
    OBVIOUS
  <2> QED
    BY <2>1 DEF divceil
<1>2. get_idx(r, k, image_h) = IF idx < 0 THEN 0 ELSE IF idx >= image_h THEN image_h - 1 ELSE idx
  BY DEF get_idx
<1> HIDE DEF half
<1> QED
  BY <1>1, <1>2 DEF Rows

LEMMA FilterInit_FilterIInv == FilterInit => FilterIInv
<1> SUFFICES ASSUME FilterInit PROVE FilterIInv
  OBVIOUS
<1>1. Rows = {}
  BY DEF FilterInit, Rows
<1>2. FilterTypeOK
  BY <1>1, EmptySeq DEF FilterInit, FilterTypeOK
<1>3. FilterShape /\ PartsDone /\ RowsNear
  BY <1>1 DEF FilterInit, FilterShape, PartsDone, RowsNear
<1> QED
  BY <1>2, <1>3 DEF FilterIInv

LEMMA ReadInputStep == FilterIInv /\ ReadInput => FilterIInv'
<1> SUFFICES ASSUME FilterIInv, ReadInput PROVE FilterIInv'
  OBVIOUS
<1>1. /\ params = <<>> /\ joined = 0 /\ params' = <<>> /\ joined' = 0
      /\ filter_pc' = "create" /\ image_h' \in Nat
      /\ filter_size' \in Nat /\ filter_size' >= 1
      /\ threads' \in Nat /\ threads' >= 1
      /\ image_out' = [r \in Rows' |-> <<>>]
  BY FilterAssumption DEF FilterIInv, FilterShape, ReadInput, FilterAt, Rows
<1>2. FilterTypeOK'
  <2>1. params' \in Seq([begin: Nat, end: Int]) /\ image_out' \in [Rows' -> Seq(SUBSET Int)]
    BY <1>1, EmptySeq
  <2> QED
    BY <1>1, <2>1 DEF FilterTypeOK
<1>3. FilterShape'
  BY <1>1 DEF FilterShape
<1>4. PartsDone'
  <2>1. PartLen' \in Nat
    BY <1>1, <1>2, PartLenNat, DivceilCovers DEF PartLen
  <2>2. Len(params') * PartLen' = 0
    <3>1. Len(params') = 0
      BY <1>1
    <3>2. \A p \in Nat : 0 * p = 0
      OBVIOUS
    <3> QED
      BY <2>1, <3>1, <3>2
  <2>3. \A r \in Rows' : r >= 0 /\ image_out'[r] = <<>>
    BY <1>1 DEF Rows
  <2>4. \A t \in 1..Len(params') : FALSE
    BY <1>1
  <2> QED
    BY <2>2, <2>3, <2>4 DEF PartsDone
<1>5. RowsNear'
  BY <1>1 DEF RowsNear
<1> QED
  BY <1>2, <1>3, <1>4, <1>5 DEF FilterIInv

LEMMA CreateThreadStep == FilterIInv /\ CreateThread => FilterIInv'
<1> SUFFICES ASSUME FilterIInv, CreateThread PROVE FilterIInv'
  OBVIOUS
<1> DEFINE P == PartLen
           n == Len(params)
           begin == n * P
           end == IF begin + P <= image_h THEN begin + P ELSE image_h
           part == [begin |-> begin, end |-> end]
<1>1. /\ filter_pc = "create" /\ params' = Append(params, part)
      /\ filter_pc' = IF Len(params') = threads THEN "join" ELSE "create"
      /\ UNCHANGED <<image_h, filter_size, threads, joined, image_out>>
  BY DEF CreateThread, PartLen
<1>2. /\ FilterTypeOK /\ threads >= 1 /\ filter_size >= 1 /\ Len(params) < threads /\ joined = 0
      /\ image_h \in Nat /\ threads \in Nat /\ PartLen \in Nat
      /\ params \in Seq(Part) /\ Len(params) \in Nat
  BY <1>1, FilterSeqs, PartLenNat DEF FilterIInv, FilterShape, FilterTypeOK
<1>3. begin \in Nat /\ end \in Int /\ (n + 1) * P = begin + P /\ end = PartEnd(n + 1)
  <2>1. n * P \in Nat
    BY <1>2, TimesMonotone
  <2>2. (n + 1) * P = n * P + P
    BY <1>2, TimesNext
  <2> QED
    BY <1>2, <2>1, <2>2 DEF PartEnd
<1>4. /\ params' \in Seq(Part) /\ Len(params') = n + 1 /\ params'[n + 1] = part
      /\ \A t \in 1..n : params'[t] = params[t]
  <2>1. part \in Part
    BY <1>3 DEF Part
  <2> HIDE DEF part
  <2> QED
    BY <1>1, <1>2, <2>1, AppendProperties
<1>5. UNCHANGED <<PartLen, Rows>> /\ \A t : PartEnd(t)' = PartEnd(t)
  BY <1>1 DEF PartLen, PartEnd, Rows, divceil
<1>6. FilterTypeOK'
  BY <1>1, <1>2, <1>4, <1>5 DEF FilterTypeOK, Part
<1>7. FilterShape'
  BY <1>1, <1>2, <1>4 DEF FilterShape
<1>8. PartsDone'
  <2>1. /\ \A t \in 1..n :
               params[t].begin >= (t - 1) * PartLen /\ params[t].end = PartEnd(t)
        /\ \A r \in Rows :
               \/ r >= n * PartLen /\ image_out[r] = <<>>
               \/ \E t \in 1..n :
                      /\ (t - 1) * PartLen <= r /\ r < t * PartLen
                      /\ r < params[t].begin <=> Len(image_out[r]) = 1
                      /\ r >= params[t].begin <=> image_out[r] = <<>>
    BY <1>1 DEF FilterIInv, PartsDone
  <2>2. \A t \in 1..(n + 1) :
            params'[t].begin >= (t - 1) * PartLen /\ params'[t].end = PartEnd(t)
    <3> SUFFICES ASSUME NEW t \in 1..(n + 1)
                 PROVE  params'[t].begin >= (t - 1) * PartLen /\ params'[t].end = PartEnd(t)
      OBVIOUS
    <3>1. CASE t = n + 1
      BY <1>2, <1>3, <1>4, <3>1
    <3>2. CASE t \in 1..n
      BY <1>4, <2>1, <3>2
    <3> QED
      BY <1>2, <3>1, <3>2
  <2>3. ASSUME NEW r \in Rows
        PROVE  \/ r >= (n + 1) * PartLen /\ image_out[r] = <<>>
               \/ \E t \in 1..(n + 1) :
                      /\ (t - 1) * PartLen <= r /\ r < t * PartLen
                      /\ r < params'[t].begin <=> Len(image_out[r]) = 1
                      /\ r >= params'[t].begin <=> image_out[r] = <<>>
    <3>1. CASE r >= n * PartLen /\ image_out[r] = <<>>
      <4>1. CASE r >= (n + 1) * PartLen
        BY <3>1, <4>1
      <4>2. CASE r < (n + 1) * PartLen
        <5>1. /\ n + 1 \in 1..(n + 1) /\ (n + 1) - 1 = n
              /\ params'[n + 1].begin = n * PartLen /\ Len(image_out[r]) = 0
              /\ r \in Nat /\ n * PartLen \in Nat
          BY <1>2, <1>3, <1>4, <3>1 DEF Rows
        <5> HIDE DEF n
        <5>2. /\ ((n + 1) - 1) * PartLen <= r /\ r < (n + 1) * PartLen
              /\ r < params'[n + 1].begin <=> Len(image_out[r]) = 1
              /\ r >= params'[n + 1].begin <=> image_out[r] = <<>>
          BY <3>1, <4>2, <5>1
        <5>3. \E t \in 1..(n + 1) :
                 /\ (t - 1) * PartLen <= r /\ r < t * PartLen
                 /\ r < params'[t].begin <=> Len(image_out[r]) = 1
                 /\ r >= params'[t].begin <=> image_out[r] = <<>>
          BY <5>1, <5>2, Zenon
        <5> QED
          BY <5>3
      <4> QED
        BY <4>1, <4>2, <1>2, <1>3 DEF Rows
    <3>2. CASE \E t \in 1..n :
                      /\ (t - 1) * PartLen <= r /\ r < t * PartLen
                      /\ r < params[t].begin <=> Len(image_out[r]) = 1
                      /\ r >= params[t].begin <=> image_out[r] = <<>>
      <4>1. \A t \in 1..n : t \in 1..(n + 1) /\ params'[t] = params[t]
        BY <1>2, <1>4
      <4> QED
        BY <3>2, <4>1
    <3> QED
      BY <2>1, <3>1, <3>2
  <2> QED
    BY <1>1, <1>4, <1>5, <2>2, <2>3 DEF PartsDone
<1>9. RowsNear'
  BY <1>1, <1>5 DEF FilterIInv, RowsNear, Neighbours
<1> QED
  BY <1>6, <1>7, <1>8, <1>9 DEF FilterIInv

LEMMA ProcessRowStep ==
  ASSUME NEW t \in 1..MaxThreads PROVE FilterIInv /\ ProcessRow(t) => FilterIInv'
<1> SUFFICES ASSUME FilterIInv, ProcessRow(t) PROVE FilterIInv'
  OBVIOUS
<1> DEFINE row == params[t].begin
           rows == {get_idx(row, k, image_h) : k \in 0..(filter_size - 1)}
           begin(s) == params[s].begin
<1>1. /\ t \in 1..Len(params) /\ row < params[t].end
      /\ params' = [params EXCEPT ![t].begin = row + 1]
      /\ image_out' = [image_out EXCEPT ![row] = Append(@, rows)]
      /\ UNCHANGED <<filter_pc, image_h, filter_size, threads, joined>>
  BY DEF ProcessRow
<1>2. /\ FilterTypeOK /\ image_h \in Nat /\ filter_size \in Nat /\ threads \in Nat
      /\ params \in Seq(Part) /\ Len(params) \in Nat
      /\ \A s \in 1..Len(params) : params[s] \in Part
      /\ \A s \in 1..Len(params) : params[s].begin \in Nat /\ params[s].end \in Int
      /\ image_out \in [Rows -> Seq(SUBSET Int)]
  BY FilterSeqs, ElementOfSeq DEF FilterIInv, FilterTypeOK
<1>3. filter_pc # "read" /\ threads >= 1 /\ PartLen \in Nat
  <2>1. filter_pc # "read"
    BY <1>1 DEF FilterIInv, FilterShape
  <2> QED
    BY <1>2, <2>1, PartLenNat DEF FilterIInv, FilterShape
<1>4. /\ \A s \in 1..Len(params) :
             params[s].begin >= (s - 1) * PartLen /\ params[s].end = PartEnd(s)
      /\ \A r \in Rows :
             \/ r >= Len(params) * PartLen /\ image_out[r] = <<>>
             \/ \E s \in 1..Len(params) :
                    /\ (s - 1) * PartLen <= r /\ r < s * PartLen
                    /\ r < params[s].begin <=> Len(image_out[r]) = 1
                    /\ r >= params[s].begin <=> image_out[r] = <<>>
  BY <1>3 DEF FilterIInv, PartsDone
<1>5. /\ row \in Rows /\ row \in Nat /\ (t - 1) * PartLen <= row /\ row < t * PartLen
      /\ t * PartLen <= Len(params) * PartLen
  <2>1. t * PartLen \in Nat /\ (t - 1) * PartLen \in Nat
        /\ t * PartLen <= Len(params) * PartLen
    BY SMTT(40), <1>1, <1>2, <1>3, TimesMonotone
  <2> QED
    BY SMTT(40), <1>1, <1>2, <1>4, <2>1 DEF PartEnd, Rows
(* A row belongs to one part only. *)
<1>6. \A s \in 1..Len(params), r \in Nat :
          (s - 1) * PartLen <= r /\ r < s * PartLen /\ (t - 1) * PartLen <= r /\ r < t * PartLen
          => s = t
  <2> SUFFICES ASSUME NEW s \in 1..Len(params), NEW r \in Nat,
                      (s - 1) * PartLen <= r, r < s * PartLen,
                      (t - 1) * PartLen <= r, r < t * PartLen
               PROVE  s = t
    OBVIOUS
  <2>1. CASE s <= t - 1
    <3>1. s * PartLen <= (t - 1) * PartLen /\ s * PartLen \in Nat /\ (t - 1) * PartLen \in Nat
      <4>1. s \in Nat /\ t - 1 \in Nat
        BY <1>1, <1>2
      <4> QED
        BY <4>1, <1>3, <2>1, TimesMonotone
    <3> QED
      BY <3>1
  <2>2. CASE t <= s - 1
    <3>1. t * PartLen <= (s - 1) * PartLen /\ t * PartLen \in Nat /\ (s - 1) * PartLen \in Nat
      <4>1. t \in Nat /\ s - 1 \in Nat
        BY <1>1, <1>2
      <4> QED
        BY <4>1, <1>3, <2>2, TimesMonotone
    <3> QED
      BY <3>1
  <2> QED
    BY <1>1, <1>2, <2>1, <2>2
<1>7. image_out[row] = <<>>
  <2>1. ~(row >= Len(params) * PartLen)
    <3>1. t * PartLen \in Nat /\ Len(params) * PartLen \in Nat
      BY <1>1, <1>2, <1>3, TimesMonotone
    <3> QED
      BY <1>5, <3>1
  <2>2. PICK s \in 1..Len(params) :
                    /\ (s - 1) * PartLen <= row /\ row < s * PartLen
                    /\ row < params[s].begin <=> Len(image_out[row]) = 1
                    /\ row >= params[s].begin <=> image_out[row] = <<>>
    BY <1>4, <1>5, <2>1
  <2>3. s = t
    BY <1>5, <1>6, <2>2
  <2> QED
    BY <1>5, <2>2, <2>3
<1>8. rows \subseteq Rows /\ Neighbours(row, rows)
  BY <1>2, <1>5, IndexNear DEF Neighbours
<1>9. /\ image_out'[row] = <<rows>> /\ Len(image_out'[row]) = 1 /\ image_out'[row] # <<>>
      /\ \A r \in Rows : r # row => image_out'[r] = image_out[r]
      /\ image_out' \in [Rows -> Seq(SUBSET Int)]
  <2>1. rows \in SUBSET Int
    BY <1>8 DEF Rows
  <2> HIDE DEF rows, row
  <2>2. Append(image_out[row], rows) = <<rows>> /\ <<rows>> \in Seq(SUBSET Int)
    BY <1>7, <2>1
  <2> QED
    BY <1>1, <1>2, <1>5, <2>2
<1>10. /\ params' \in Seq(Part) /\ Len(params') = Len(params)
       /\ params'[t].begin = row + 1
       /\ \A s \in 1..Len(params) :
              params'[s].end = params[s].end /\ (s # t => params'[s] = params[s])
  <2>1. params' = [params EXCEPT ![t] = [params[t] EXCEPT !.begin = row + 1]]
    BY <1>1, <1>2 DEF Part
  <2>2. [params[t] EXCEPT !.begin = row + 1] \in Part
    <3>1. params[t] \in Part /\ row + 1 \in Nat
      BY <1>1, <1>2, <1>5
    <3> HIDE DEF row
    <3> QED
      BY <3>1 DEF Part
  <2>3. params' \in Seq(Part) /\ Len(params') = Len(params)
    BY <1>1, <1>2, <2>1, <2>2, ExceptSeq
  <2> QED
    BY <1>1, <1>2, <2>1, <2>3 DEF Part
<1>11. UNCHANGED <<PartLen, Rows>> /\ \A s : PartEnd(s)' = PartEnd(s)
  BY <1>1 DEF PartLen, PartEnd, Rows, divceil
<1>12. FilterTypeOK'
  BY <1>1, <1>2, <1>9, <1>10, <1>11 DEF FilterTypeOK, Part
<1>13. FilterShape'
  <2>1. \A s \in 1..joined : s \in 1..Len(params) /\ params[s].begin >= params[s].end
    <3>1. joined <= Len(params) /\ joined \in Nat
      BY <1>2 DEF FilterIInv, FilterShape, FilterTypeOK
    <3> QED
      BY <1>2, <3>1 DEF FilterIInv, FilterShape
  <2>2. \A s \in 1..joined : s # t
    BY <1>1, <1>2, <2>1
  <2> QED
    BY <1>1, <1>2, <1>3, <1>10, <2>1, <2>2 DEF FilterIInv, FilterShape
<1>14. PartsDone'
  <2>1. \A s \in 1..Len(params) :
            params'[s].begin >= (s - 1) * PartLen /\ params'[s].end = PartEnd(s)
    <3> SUFFICES ASSUME NEW s \in 1..Len(params)
                 PROVE  params'[s].begin >= (s - 1) * PartLen /\ params'[s].end = PartEnd(s)
      OBVIOUS
    <3>1. s # t => params'[s] = params[s]
      BY <1>10
    <3>2. (t - 1) * PartLen \in Nat
      BY <1>1, <1>2, <1>3, TimesMonotone
    <3> QED
      BY <1>4, <1>5, <1>10, <3>1, <3>2
  <2>2. ASSUME NEW r \in Rows
        PROVE  \/ r >= Len(params) * PartLen /\ image_out'[r] = <<>>
               \/ \E s \in 1..Len(params) :
                      /\ (s - 1) * PartLen <= r /\ r < s * PartLen
                      /\ r < params'[s].begin <=> Len(image_out'[r]) = 1
                      /\ r >= params'[s].begin <=> image_out'[r] = <<>>
    <3>1. CASE r = row
      <4>1. /\ (t - 1) * PartLen <= r /\ r < t * PartLen
            /\ r < params'[t].begin /\ Len(image_out'[r]) = 1
            /\ ~(r >= params'[t].begin) /\ image_out'[r] # <<>>
        <5> HIDE DEF row, rows
        <5>1. /\ r \in Nat /\ params'[t].begin = r + 1
              /\ Len(image_out'[r]) = 1 /\ image_out'[r] # <<>>
          BY <1>5, <1>9, <1>10, <3>1
        <5>2. (t - 1) * PartLen <= r /\ r < t * PartLen
          BY <1>5, <3>1
        <5> QED
          BY <5>1, <5>2
      <4> QED
        BY <1>1, <4>1
    <3>2. CASE r # row
      <4>1. image_out'[r] = image_out[r] /\ r \in Nat
        BY <1>9, <3>2 DEF Rows
      <4>2. CASE r >= Len(params) * PartLen /\ image_out[r] = <<>>
        BY <4>1, <4>2
      <4>3. CASE \E s \in 1..Len(params) :
                    /\ (s - 1) * PartLen <= r /\ r < s * PartLen
                    /\ r < params[s].begin <=> Len(image_out[r]) = 1
                    /\ r >= params[s].begin <=> image_out[r] = <<>>
        <5>1. PICK s \in 1..Len(params) :
                    /\ (s - 1) * PartLen <= r /\ r < s * PartLen
                    /\ r < params[s].begin <=> Len(image_out[r]) = 1
                    /\ r >= params[s].begin <=> image_out[r] = <<>>
          BY <4>3
        <5>2. /\ r < params'[s].begin <=> r < params[s].begin
              /\ r >= params'[s].begin <=> r >= params[s].begin
          <6>1. CASE s = t
            BY <1>5, <1>10, <3>2, <4>1, <6>1
          <6>2. CASE s # t
            BY <1>10, <6>2
          <6> QED
            BY <6>1, <6>2
        <5> QED
          BY <4>1, <5>1, <5>2
      <4> QED
        BY <1>4, <4>2, <4>3
    <3> QED
      BY <3>1, <3>2
  <2> QED
    BY <1>1, <1>10, <1>11, <2>1, <2>2 DEF PartsDone
<1>15. RowsNear'
  <2> SUFFICES ASSUME NEW r \in Rows, NEW m \in 1..Len(image_out'[r])
               PROVE  Neighbours(r, image_out'[r][m])
    BY <1>1, <1>11 DEF RowsNear, Neighbours
  <2>1. CASE r = row
    <3>1. m = 1 /\ image_out'[r][m] = rows
      <4> HIDE DEF rows, row
      <4>1. m \in 1..1
        BY <1>9, <2>1
      <4> QED
        BY <1>9, <2>1, <4>1
    <3> QED
      BY <1>8, <2>1, <3>1
  <2>2. CASE r # row
    BY <1>9, <2>2 DEF FilterIInv, RowsNear
  <2> QED
    BY <2>1, <2>2
<1> QED
  BY <1>12, <1>13, <1>14, <1>15 DEF FilterIInv

LEMMA JoinStep == FilterIInv /\ Join => FilterIInv'
<1> SUFFICES ASSUME FilterIInv, Join PROVE FilterIInv'
  OBVIOUS
<1>1. /\ filter_pc = "join" /\ params[joined + 1].begin >= params[joined + 1].end
      /\ joined' = joined + 1 /\ filter_pc' = IF joined' = threads THEN "write" ELSE "join"
      /\ UNCHANGED <<image_h, filter_size, threads, params, image_out>>
  BY DEF Join
<1>2. joined \in Nat /\ threads \in Nat /\ joined < threads
  BY <1>1 DEF FilterIInv, FilterShape, FilterTypeOK
<1>3. FilterTypeOK'
  BY SMTT(40), <1>1, <1>2 DEF FilterIInv, FilterTypeOK, Rows
<1>4. FilterShape'
  BY <1>1, <1>2 DEF FilterIInv, FilterShape
<1>5. PartsDone' /\ RowsNear'
  BY <1>1 DEF FilterIInv, PartsDone, RowsNear, Rows, PartLen, PartEnd, divceil, Neighbours
<1> QED
  BY <1>3, <1>4, <1>5 DEF FilterIInv

LEMMA WriteOutputStep == FilterIInv /\ WriteOutput => FilterIInv'
<1> SUFFICES ASSUME FilterIInv, WriteOutput PROVE FilterIInv'
  OBVIOUS
<1>1. /\ filter_pc = "write" /\ filter_pc' = "finished"
      /\ UNCHANGED <<image_h, filter_size, threads, params, joined, image_out>>
  BY DEF WriteOutput, FilterAt
<1>2. FilterTypeOK' /\ FilterShape'
  BY <1>1 DEF FilterIInv, FilterTypeOK, FilterShape, Rows
<1>3. PartsDone' /\ RowsNear'
  BY <1>1 DEF FilterIInv, PartsDone, RowsNear, Rows, PartLen, PartEnd, divceil, Neighbours
<1> QED
  BY <1>2, <1>3 DEF FilterIInv

LEMMA FilterInvariant == FilterSpec => []FilterIInv
<1>1. FilterIInv /\ [FilterNext]_filterVars => FilterIInv'
  <2> SUFFICES ASSUME FilterIInv, [FilterNext]_filterVars PROVE FilterIInv'
    OBVIOUS
  <2>1. CASE UNCHANGED filterVars
    <3>1. FilterTypeOK' /\ FilterShape'
      BY <2>1 DEF filterVars, FilterIInv, FilterTypeOK, FilterShape, Rows
    <3>2. PartsDone' /\ RowsNear'
      BY <2>1 DEF filterVars, FilterIInv, PartsDone, RowsNear, Rows, PartLen, PartEnd,
                  divceil, Neighbours
    <3> QED
      BY <3>1, <3>2 DEF FilterIInv
  <2> QED
    BY <2>1, ReadInputStep, CreateThreadStep, ProcessRowStep, JoinStep, WriteOutputStep
    DEF FilterNext
<1> QED
  BY FilterInit_FilterIInv, <1>1, PTL DEF FilterSpec

(* Threads write rows of the image only, and main joins no more threads    *)
(* than it has created.                                                    *)
THEOREM FilterTypeCorrect == FilterSpec => []FilterTypeOK
<1>1. FilterIInv => FilterTypeOK
  BY DEF FilterIInv
<1> QED
  BY FilterInvariant, <1>1, PTL

(* For images, filters and threads in any number, every row is computed    *)
(* once, from neighbouring rows of the image, before the output is written.*)
THEOREM FilterRowsOnce == FilterSpec => []RowsOnce
<1>1. FilterIInv => RowsOnce
  <2> SUFFICES ASSUME FilterIInv, NEW r \in Rows
               PROVE  /\ Len(image_out[r]) <= 1
                      /\ filter_pc \in {"write", "finished"} => Len(image_out[r]) = 1
                      /\ \A n \in 1..Len(image_out[r]) :
                             Neighbours(r, image_out[r][n])
    BY DEF RowsOnce, Neighbours
  <2>1. filter_pc # "read" /\ threads >= 1 /\ r \in Nat /\ threads \in Nat
    BY DEF FilterIInv, FilterShape, FilterTypeOK, Rows
  <2>2. PartLen \in Nat /\ threads * PartLen >= image_h /\ threads * PartLen \in Nat
    BY <2>1, PartLenNat, TimesMonotone DEF FilterIInv
  <2>3. \/ r >= Len(params) * PartLen /\ image_out[r] = <<>>
        \/ \E t \in 1..Len(params) :
               /\ (t - 1) * PartLen <= r /\ r < t * PartLen
               /\ r < params[t].begin <=> Len(image_out[r]) = 1
               /\ r >= params[t].begin <=> image_out[r] = <<>>
    BY <2>1 DEF FilterIInv, PartsDone
  <2>4. Len(image_out[r]) <= 1
    <3>1. \A t \in 1..Len(params) : params[t].begin \in Nat
      BY FilterSeqs DEF FilterIInv
    <3>2. \A t \in 1..Len(params) : r < params[t].begin \/ r >= params[t].begin
      BY <2>1, <3>1
    <3>3. image_out[r] = <<>> \/ Len(image_out[r]) = 1
      BY <2>3, <3>2
    <3>4. image_out[r] = <<>> => Len(image_out[r]) = 0
      OBVIOUS
    <3>5. Len(image_out[r]) \in Nat
      BY FilterSeqs DEF FilterIInv
    <3>6. \A n \in Nat : n = 0 \/ n = 1 => n <= 1
      OBVIOUS
    <3> QED
      BY <3>3, <3>4, <3>5, <3>6, Zenon
  <2>5. ASSUME filter_pc \in {"write", "finished"} PROVE Len(image_out[r]) = 1
    <3>1. Len(params) = threads /\ joined = threads /\ r < image_h /\ image_h \in Nat
      BY <2>5 DEF FilterIInv, FilterShape, FilterTypeOK, Rows
    <3>2. PICK t \in 1..threads :
               /\ (t - 1) * PartLen <= r /\ r < t * PartLen
               /\ r < params[t].begin <=> Len(image_out[r]) = 1
      BY <2>1, <2>2, <2>3, <3>1
    <3>3. params[t].begin >= params[t].end /\ params[t].end = PartEnd(t)
          /\ params[t].begin \in Nat
      BY <2>1, <3>1, FilterSeqs DEF FilterIInv, FilterShape, PartsDone
    <3>4. t * PartLen \in Nat
      BY <2>2, TimesMonotone
    <3> QED
      BY <2>1, <3>1, <3>2, <3>3, <3>4 DEF PartEnd
  <2> QED
    BY <2>4, <2>5 DEF FilterIInv, RowsNear
<1> QED
  BY FilterInvariant, <1>1, PTL
-----------------------------------------------------------------------------
(***************************************************************************)
(* Pipeline: the shared place in the batch file.  The shell never holds    *)
(* more than the ends of two pipes, so that it does not run out of         *)
(* descriptors however long a line is.                                     *)
(***************************************************************************)
(* Lines that getline has returned.                                        *)
Returned == file_place - Len(line_buffer)

ShellShape ==
    /\ shell_pc = "open" => batch = <<>> /\ fds[0] = Standard
    /\ shell_pc \in {"pipe", "run"} => launched < Len(commands)
    /\ shell_pc = "close" => launched <= Len(commands)
    /\ DOMAIN fds = 0..Len(commands)

(* The last command writes to standard output, so that nothing is open     *)
(* when the line is waited for.                                            *)
ShellDescriptors ==
    /\ shell_pc \in {"getline", "wait"} => Opened(fds[0]) \subseteq 0..3
    /\ shell_pc = "pipe" => Opened(fds[0]) \subseteq 0..3 \cup {in.r}
    /\ shell_pc \in {"run", "close"} => Opened(fds[0]) \subseteq 0..3 \cup {in.r, out.r, out.w}
    /\ shell_pc = "run" /\ launched + 1 = Len(commands) => out = ToStdOut
    /\ shell_pc = "close" /\ launched = Len(commands) => out = ToStdOut

FilePlaceSound ==
    /\ file_place <= Len(batch)
    /\ \A n \in 1..Len(line_buffer) : line_buffer[n] \in 1..Len(batch)

(* A line that has not been run is in the buffer or behind the place.      *)
Ahead(n) == n > file_place \/ \E m \in 1..Len(line_buffer) : line_buffer[m] = n

NothingSkipped ==
    /\ \A n \in 1..Len(batch) : batch[n] # <<>> => executed[n] >= 1 \/ Ahead(n)
    /\ shell_pc = "ended" => line_buffer = <<>> /\ file_place = Len(batch)

(* As long as nothing takes the place back the buffer holds the lines that *)
(* follow those returned, and no other has been run.                       *)
PlaceKept ==
    /\ Returned >= 0
    /\ \A n \in 1..Len(line_buffer) : line_buffer[n] = Returned + n
    /\ \A n \in 1..Len(batch) : executed[n] <= IF n <= Returned THEN 1 ELSE 0

PipeIInv ==
    /\ PipeTypeOK /\ ShellShape /\ ShellDescriptors /\ FilePlaceSound /\ NothingSkipped
    /\ ~ taken_back => PlaceKept

LEMMA LeastNumber ==
    ASSUME NEW T, T \subseteq Nat, T # {}
    PROVE  \E x \in T : \A y \in T : x <= y
<1>1. PICK x \in T : \A y \in T : ~ (<<y, x>> \in OpToRel(<, Nat))
  BY WFMin, NatLessThanWellFounded, Zenon
<1>2. \A y \in Nat : x \in Nat /\ y < x => <<y, x>> \in OpToRel(<, Nat)
  BY Zenon DEF OpToRel
<1>3. \A y \in T : ~ (y < x)
  BY <1>1, <1>2
<1> QED
  BY <1>3

(* The members of a set of numbers can be counted off.                     *)
LEMMA Ranked ==
    ASSUME NEW N \in Nat, NEW S \in SUBSET (1..N), NEW k \in 1..Cardinality(S)
    PROVE  \E n \in S : Cardinality({m \in S : m <= n}) = k
<1> DEFINE UpTo(n) == {m \in S : m <= n}
<1>0. S \subseteq 1..N /\ N \in Nat /\ \A m \in S : m \in Nat /\ m >= 1 /\ m <= N
  OBVIOUS
<1>1. IsFiniteSet(S)
  <2>1. IsFiniteSet(1..N)
    BY <1>0, FS_Interval
  <2> QED
    BY <1>0, <2>1, FS_Subset
<1>2. \A n \in Int : IsFiniteSet(UpTo(n)) /\ Cardinality(UpTo(n)) \in Nat
  <2>1. ASSUME NEW n \in Int PROVE IsFiniteSet(UpTo(n)) /\ Cardinality(UpTo(n)) \in Nat
    <3>1. UpTo(n) \in SUBSET S
      OBVIOUS
    <3> QED
      BY <1>1, <3>1, FS_Subset, FS_CardinalityType
  <2> QED
    BY <2>1
<1>3. k \in Nat /\ k >= 1 /\ Cardinality(S) >= k
  BY <1>1, FS_CardinalityType
<1>4. UpTo(0) = {} /\ UpTo(N) = S
  <2>1. ASSUME NEW m \in UpTo(0) PROVE FALSE
    <3>1. m \in S /\ m <= 0
      BY <2>1
    <3> QED
      BY <1>0, <3>1
  <2>2. UpTo(N) = S
    BY <1>0
  <2> QED
    BY <2>1, <2>2
<1>5. ASSUME NEW n \in Nat, n # 0
      PROVE  IF n \in S THEN UpTo(n) = UpTo(n - 1) \cup {n} /\ n \notin UpTo(n - 1)
             ELSE UpTo(n) = UpTo(n - 1)
  <2>1. \A m \in S : m \in Int /\ (m <= n <=> m <= n - 1 \/ m = n)
    BY <1>0
  <2>2. n \in Int /\ ~ (n <= n - 1)
    OBVIOUS
  <2> QED
    BY <2>1, <2>2
<1> HIDE DEF UpTo
<1>6. PICK x \in Nat : /\ Cardinality(UpTo(x)) >= k
                       /\ \A y \in Nat : Cardinality(UpTo(y)) >= k => x <= y
  <2> DEFINE Enough == {n \in Nat : Cardinality(UpTo(n)) >= k}
  <2>1. Enough \subseteq Nat /\ Enough # {}
    BY <1>0, <1>3, <1>4
  <2>2. \E x \in Enough : \A y \in Enough : x <= y
    <3> HIDE DEF Enough
    <3> QED
      BY <2>1, LeastNumber
  <2> QED
    BY <2>2
<1>7. x # 0
  BY <1>3, <1>4, <1>6, FS_EmptySet
<1>8. x - 1 \in Nat /\ Cardinality(UpTo(x - 1)) < k /\ Cardinality(UpTo(x - 1)) \in Nat
  <2>1. x - 1 \in Nat /\ x - 1 < x
    BY <1>7
  <2>2. ~ (Cardinality(UpTo(x - 1)) >= k) /\ Cardinality(UpTo(x - 1)) \in Nat
    BY <1>2, <1>6, <2>1
  <2> QED
    BY <1>3, <2>1, <2>2
<1>9. x \in S
  BY <1>3, <1>5, <1>6, <1>7, <1>8
<1>10. Cardinality(UpTo(x)) = Cardinality(UpTo(x - 1)) + 1
  BY <1>2, <1>5, <1>7, <1>8, <1>9, FS_AddElement
<1>11. Cardinality(UpTo(x)) = k
  BY <1>3, <1>6, <1>8, <1>10
<1> QED
  BY <1>9, <1>11 DEF UpTo

(* A line is split into commands, none when it is blank.                   *)
LEMMA SplitLine ==
    ASSUME NEW ts \in Seq(Tokens)
    PROVE  /\ split_commands(ts) \in Seq(Programs \cup {Empty})
           /\ split_commands(ts) = <<>> <=> ts = <<>>
<1> DEFINE begins == {n \in 1..Len(ts) : n = 1 \/ ts[n - 1] = Bar}
<1> DEFINE place(k) == CHOOSE n \in begins : Cardinality({m \in begins : m <= n}) = k
<1> DEFINE opening == [k \in 1..Cardinality(begins) |-> place(k)]
<1> DEFINE cmds == [k \in DOMAIN opening |-> IF ts[opening[k]] = Bar THEN Empty ELSE ts[opening[k]]]
<1>1. split_commands(ts) = cmds
  BY DEF split_commands
<1>2. begins \in SUBSET (1..Len(ts)) /\ Len(ts) \in Nat
  BY LenProperties
<1>3. IsFiniteSet(begins) /\ Cardinality(begins) \in Nat
  <2>1. IsFiniteSet(1..Len(ts))
    BY <1>2, FS_Interval
  <2> HIDE DEF begins
  <2> QED
    BY <1>2, <2>1, FS_Subset, FS_CardinalityType
<1>4. Cardinality(begins) = 0 <=> ts = <<>>
  <2>1. Cardinality(begins) = 0 <=> begins = {}
    BY <1>3, FS_EmptySet
  <2>2. ts # <<>> => 1 \in begins
    BY <1>2, EmptySeq
  <2>3. ts = <<>> => begins = {}
    OBVIOUS
  <2> QED
    BY <2>1, <2>2, <2>3
<1>5. ASSUME NEW k \in 1..Cardinality(begins) PROVE opening[k] \in begins
  <2> HIDE DEF begins
  <2>1. \E n \in begins : Cardinality({m \in begins : m <= n}) = k
    BY <1>2, Ranked
  <2>2. place(k) \in begins
    BY <2>1
  <2> HIDE DEF place
  <2> QED
    BY <2>2
<1>6. DOMAIN opening = 1..Cardinality(begins)
  OBVIOUS
<1> HIDE DEF opening
<1>7. ASSUME NEW k \in 1..Cardinality(begins)
      PROVE  cmds[k] \in Programs \cup {Empty}
  <2>1. opening[k] \in 1..Len(ts) /\ (opening[k] = 1 \/ ts[opening[k] - 1] = Bar)
    BY <1>5
  <2>2. ts[opening[k]] \in Tokens
    BY <2>1, ElementOfSeq
  <2>3. cmds[k] = IF ts[opening[k]] = Bar THEN Empty ELSE ts[opening[k]]
    BY <1>6
  <2> QED
    BY <2>2, <2>3 DEF Tokens, Bar
<1>8. Len(cmds) = Cardinality(begins) /\ DOMAIN cmds = 1..Cardinality(begins)
  BY <1>3, <1>6
<1>9. cmds \in Seq(Programs \cup {Empty})
  <2> HIDE DEF begins
  <2> SUFFICES \E n \in Nat : cmds \in [1..n -> Programs \cup {Empty}]
    BY SeqDef
  <2>1. cmds \in [1..Cardinality(begins) -> Programs \cup {Empty}]
    BY <1>6, <1>7
  <2> QED
    BY <1>3, <2>1
<1> HIDE DEF begins, cmds
<1>10. cmds = <<>> <=> Cardinality(begins) = 0
  BY <1>8, <1>9, EmptySeq
<1> QED
  BY <1>1, <1>4, <1>9, <1>10

LEMMA PipeFacts ==
    ASSUME PipeIInv
    PROVE  /\ batch \in Seq(Seq(Tokens)) /\ Len(batch) \in Nat
           /\ \A n \in 1..Len(batch) : batch[n] \in Seq(Tokens)
           /\ line_buffer \in Seq(Nat) /\ Len(line_buffer) \in Nat
           /\ commands \in Seq(Programs \cup {Empty}) /\ Len(commands) \in Nat
           /\ DOMAIN batch = 1..Len(batch)
           /\ file_place \in Nat /\ Returned \in Int
<1>1. batch \in Seq(Seq(Tokens))
  <2>1. <<>> \in Seq(Seq(Tokens))
    OBVIOUS
  <2> QED
    BY <2>1, BatchAssumption DEF PipeIInv, PipeTypeOK
<1>2. \A n \in 1..Len(batch) : batch[n] \in Seq(Tokens)
  BY <1>1, ElementOfSeq
<1>3. /\ line_buffer \in Seq(Nat) /\ commands \in Seq(Programs \cup {Empty}) /\ file_place \in Nat
  BY DEF PipeIInv, PipeTypeOK
<1>4. Len(line_buffer) \in Nat /\ Len(commands) \in Nat /\ Len(batch) \in Nat
      /\ DOMAIN batch = 1..Len(batch)
  BY <1>1, <1>3, LenProperties
<1> QED
  BY <1>1, <1>2, <1>3, <1>4 DEF Returned

LEMMA MinFd ==
    ASSUME NEW S \in SUBSET Fd, S # {}
    PROVE  Min(S) \in S /\ \A y \in S : Min(S) <= y
<1>1. S \subseteq Nat
  BY DEF Fd
<1>2. \E x \in S : \A y \in S : x <= y
  BY <1>1, LeastNumber
<1> QED
  BY <1>2 DEF Min

(* With at most two pipe ends open two more descriptors can be made.       *)
LEMMA FreeFd ==
    ASSUME NEW T, NEW a, T \subseteq 0..3 \cup {a}
    PROVE  /\ Min(Fd \ T) \in Fd
           /\ Min(Fd \ (T \cup {Min(Fd \ T)})) \in Fd
<1>1. \E x \in {4, 5, 6} : x \notin T
  OBVIOUS
<1>2. \A y : \E x \in {4, 5, 6} : x \notin T \cup {y}
  OBVIOUS
<1>3. Fd \ T # {}
  BY <1>1 DEF Fd
<1>4. Fd \ (T \cup {Min(Fd \ T)}) # {}
  BY <1>2 DEF Fd
<1> QED
  BY <1>3, <1>4, MinFd

LEMMA PipeInit_PipeIInv == PipeInit => PipeIInv
<1> SUFFICES ASSUME PipeInit PROVE PipeIInv
    OBVIOUS
<1> USE DEF PipeInit
<1>1. PipeTypeOK
  <2>1. DOMAIN Standard = Fd
    BY DEF Standard
  <2>2. taken_back \in BOOLEAN /\ Len(commands) = 0 /\ Len(batch) = 0
    OBVIOUS
  <2> QED
    BY <2>1, <2>2 DEF PipeTypeOK, Children, FromStdIn, ToStdOut, Fd
<1>2. ShellShape /\ ShellDescriptors /\ FilePlaceSound
  BY DEF ShellShape, ShellDescriptors, FilePlaceSound
<1>3. NothingSkipped /\ PlaceKept
  <2>1. Len(batch) = 0 /\ Len(line_buffer) = 0
    OBVIOUS
  <2> QED
    BY <2>1 DEF NothingSkipped, PlaceKept, Returned
<1> QED
  BY <1>1, <1>2, <1>3 DEF PipeIInv

LEMMA OpenBatchStep == PipeIInv /\ OpenBatch => PipeIInv'
<1> SUFFICES ASSUME PipeIInv, OpenBatch PROVE PipeIInv'
    OBVIOUS
<1>1. batch' \in Seq(Seq(Tokens)) /\ batch' \in Batches /\ Len(batch') \in Nat
  BY BatchAssumption, LenProperties DEF OpenBatch
<1>2. batch = <<>> /\ fds[0] = Standard /\ file_place = 0 /\ line_buffer = <<>>
  <2>1. batch = <<>> /\ fds[0] = Standard
    BY DEF OpenBatch, ShellAt, PipeIInv, ShellShape
  <2>2. Len(batch) = 0
    BY <2>1
  <2>3. file_place = 0
    BY <2>2, PipeFacts DEF PipeIInv, FilePlaceSound
  <2>4. line_buffer = <<>>
    BY <2>2, PipeFacts, EmptySeq DEF PipeIInv, FilePlaceSound
  <2> QED
    BY <2>1, <2>3, <2>4
<1>3. LowestFree(fds[0]) = 3
  <2>1. Opened(fds[0]) = {0, 1, 2}
    BY <1>2 DEF Opened, Standard, Fd, StdIn, StdOut, Null
  <2>2. Fd \ {0, 1, 2} \in SUBSET Fd /\ 3 \in Fd \ {0, 1, 2}
        /\ \A y \in Fd \ {0, 1, 2} : y \in Int /\ 3 <= y
    BY DEF Fd
  <2>3. LowestFree(fds[0]) \in Fd \ {0, 1, 2} /\ LowestFree(fds[0]) <= 3
    BY <2>1, <2>2, MinFd DEF LowestFree
  <2> QED
    BY <2>2, <2>3
<1>4. fds' = [fds EXCEPT ![0][3] = BatchFile] /\ DOMAIN fds = 0..Len(commands)
      /\ UNCHANGED <<file_place, line_buffer, line, commands, launched, waited, in, out, child_pc,
                     child_in, child_out, taken_back>>
      /\ shell_pc' = "getline"
  BY <1>3 DEF OpenBatch, ShellAt, ofChild, PipeIInv, ShellShape
<1>5. PipeTypeOK'
  <2>1. executed' \in [1..Len(batch') -> 0..2]
    BY DEF OpenBatch
  <2>2. \A p \in DOMAIN fds' : DOMAIN fds'[p] = Fd
    BY <1>4 DEF PipeIInv, PipeTypeOK
  <2> QED
    BY <1>1, <1>4, <2>1, <2>2 DEF PipeIInv, PipeTypeOK, Children
<1>6. ShellShape' /\ FilePlaceSound'
  BY <1>1, <1>2, <1>4, PipeFacts DEF PipeIInv, ShellShape, FilePlaceSound
<1>7. ShellDescriptors'
  <2>1. 0 \in DOMAIN fds /\ DOMAIN Standard = Fd
    BY <1>4, PipeFacts DEF Standard
  <2>2. Opened(fds'[0]) \subseteq 0..3
    BY <1>2, <1>4, <2>1 DEF Opened, Standard, Fd, Null
  <2> QED
    BY <1>4, <2>2 DEF ShellDescriptors
<1>8. NothingSkipped' /\ PlaceKept'
  <2>1. Returned' = 0 /\ Len(line_buffer') = 0
    <3>1. line_buffer' = <<>> /\ file_place' = 0
      BY <1>2, <1>4
    <3>2. Len(line_buffer') = 0
      BY <3>1
    <3>3. Returned' = file_place' - Len(line_buffer')
      BY DEF Returned
    <3> QED
      BY <3>1, <3>2, <3>3
  <2>2. \A n \in 1..Len(batch') : executed'[n] = 0 /\ n > file_place'
    BY <1>1, <1>2, <1>4 DEF OpenBatch
  <2> QED
    BY <1>1, <1>4, <2>1, <2>2 DEF NothingSkipped, Ahead, PlaceKept
<1> QED
  BY <1>5, <1>6, <1>7, <1>8 DEF PipeIInv

LEMMA MinOfTwo ==
    ASSUME NEW a \in Nat, NEW b \in Nat
    PROVE  Min({a, b}) = IF a <= b THEN a ELSE b
<1>1. \E x \in {a, b} : \A y \in {a, b} : x <= y
  OBVIOUS
<1>2. Min({a, b}) \in {a, b} /\ \A y \in {a, b} : Min({a, b}) <= y
  BY <1>1 DEF Min
<1> QED
  BY <1>2

(* What getline finds in its buffer once that has been filled, and where   *)
(* the place is then.                                                      *)
Filled == IF line_buffer # <<>> THEN file_place ELSE file_place + Len(Buffered)

LEMMA BufferedProperties ==
    ASSUME PipeIInv
    PROVE  /\ Buffered \in Seq(Nat) /\ Filled \in Nat /\ Filled <= Len(batch)
           /\ \A n \in 1..Len(Buffered) : Buffered[n] \in 1..Len(batch)
           /\ Buffered = <<>> =>
                  line_buffer = <<>> /\ file_place = Len(batch) /\ Filled = file_place
           /\ \A n \in 1..Len(batch) : Ahead(n) =>
                  n > Filled \/ \E m \in 1..Len(Buffered) : Buffered[m] = n
           /\ Returned = Filled - Len(Buffered)
           /\ PlaceKept => \A n \in 1..Len(Buffered) : Buffered[n] = Returned + n
<1>1. CASE line_buffer # <<>>
  BY <1>1, PipeFacts DEF Buffered, Filled, Ahead, PipeIInv, FilePlaceSound, PlaceKept, Returned
<1>2. CASE line_buffer = <<>>
  <2>1. /\ Len(batch) - file_place \in Nat /\ Returned = file_place
        /\ Len(batch) \in Nat /\ file_place \in Nat /\ Len(line_buffer) = 0
    <3>1. Len(line_buffer) = 0
      BY <1>2
    <3> QED
      BY <3>1, PipeFacts DEF PipeIInv, FilePlaceSound, Returned
  <2> DEFINE len == Min({BlockLines, Len(batch) - file_place})
  <2>2. Buffered = [n \in 1..len |-> file_place + n]
    BY <1>2 DEF Buffered
  <2>3. len \in Nat /\ len <= Len(batch) - file_place
        /\ (len = 0 => file_place = Len(batch))
    <3>1. BlockLines \in Nat /\ BlockLines # 0
      BY BatchAssumption
    <3>2. len = IF BlockLines <= Len(batch) - file_place THEN BlockLines
                ELSE Len(batch) - file_place
      BY <2>1, <3>1, MinOfTwo
    <3> HIDE DEF len
    <3> QED
      BY <2>1, <3>1, <3>2
  <2> HIDE DEF len
  <2>4. Buffered \in [1..len -> Nat]
    BY <2>1, <2>2, <2>3
  <2>5. Buffered \in Seq(Nat) /\ Len(Buffered) = len
    <3>1. Buffered \in Seq(Nat)
      BY <2>3, <2>4, SeqDef
    <3>2. DOMAIN Buffered = 1..len /\ DOMAIN Buffered = 1..Len(Buffered) /\ Len(Buffered) \in Nat
      BY <2>4, <3>1, LenProperties
    <3> QED
      BY <2>3, <3>1, <3>2
  <2>6. \A n \in 1..len : Buffered[n] = file_place + n /\ file_place + n \in 1..Len(batch)
    BY <2>1, <2>2, <2>3
  <2>7. Filled = file_place + len
    BY <1>2, <2>5 DEF Filled
  <2>8. Buffered = <<>> => file_place = Len(batch) /\ Filled = file_place
    <3>1. Buffered = <<>> => len = 0
      BY <2>5
    <3> QED
      BY <2>1, <2>3, <2>7, <3>1
  <2>9. ASSUME NEW n \in 1..Len(batch), Ahead(n), ~ (n > Filled)
        PROVE  \E m \in 1..Len(Buffered) : Buffered[m] = n
    <3>1. n > file_place
      BY <2>1, <2>9 DEF Ahead
    <3>2. n - file_place \in 1..len /\ file_place + (n - file_place) = n
      BY <2>1, <2>3, <2>7, <2>9, <3>1
    <3>3. Buffered[n - file_place] = n
      BY <2>6, <3>2
    <3> QED
      BY <2>5, <3>2, <3>3
  <2> QED
    BY <1>2, <2>1, <2>3, <2>5, <2>6, <2>7, <2>8, <2>9
<1> QED
  BY <1>1, <1>2

LEMMA EndOfFileStep ==
    ASSUME PipeIInv, Buffered = <<>>, shell_pc = "getline", shell_pc' = "ended",
           file_place' = Filled,
           UNCHANGED <<batch, line_buffer, line, commands, launched, waited, in, out, fds,
                       child_pc, child_in, child_out, executed, taken_back>>
    PROVE  PipeIInv'
<1>1. line_buffer = <<>> /\ file_place = Len(batch) /\ file_place' = file_place
  BY BufferedProperties
<1>2. PipeTypeOK'
  BY <1>1 DEF PipeIInv, PipeTypeOK, Children
<1>3. ShellShape' /\ ShellDescriptors' /\ FilePlaceSound'
  BY <1>1 DEF PipeIInv, ShellShape, ShellDescriptors, FilePlaceSound
<1>4. NothingSkipped' /\ (PlaceKept => PlaceKept')
  BY <1>1 DEF PipeIInv, NothingSkipped, Ahead, PlaceKept, Returned
<1> QED
  BY <1>2, <1>3, <1>4 DEF PipeIInv

LEMMA NextLineStep ==
    ASSUME PipeIInv, GetLine, Buffered # <<>>,
           line' = Head(Buffered), line_buffer' = Tail(Buffered),
           commands' = split_commands(batch[line']),
           executed' = IF commands' = <<>> \/ executed[line'] = 2 THEN executed
                       ELSE [executed EXCEPT ![line'] = @ + 1],
           shell_pc' = IF commands' = <<>> THEN "getline" ELSE "pipe",
           launched' = 0, waited' = 0,
           in' = IF commands' = <<>> THEN in ELSE FromStdIn,
           fds' = [p \in 0..Len(commands') |->
                       IF p = 0 THEN fds[0] ELSE [f \in Fd |-> Null]],
           child_pc' = [c \in 1..Len(commands') |-> "none"],
           child_in' = [c \in 1..Len(commands') |-> FromStdIn],
           child_out' = [c \in 1..Len(commands') |-> ToStdOut]
    PROVE  PipeIInv'
<1>1. /\ shell_pc = "getline" /\ batch' = batch /\ out' = out /\ taken_back' = taken_back
      /\ file_place' = Filled
  BY DEF GetLine, Filled
<1>2. /\ Buffered \in Seq(Nat) /\ Len(Buffered) \in Nat /\ Len(Buffered) >= 1
      /\ line' = Buffered[1] /\ line' \in 1..Len(batch) /\ line' \in Nat
  <2>1. Buffered \in Seq(Nat) /\ Len(Buffered) \in Nat /\ Len(Buffered) >= 1
    BY BufferedProperties, LenProperties, EmptySeq
  <2>2. line' = Buffered[1]
    BY <2>1, HeadTailProperties
  <2> QED
    BY <2>1, <2>2, BufferedProperties, PipeFacts
<1>3. /\ line_buffer' \in Seq(Nat) /\ Len(line_buffer') = Len(Buffered) - 1
      /\ \A n \in 1..Len(line_buffer') : line_buffer'[n] = Buffered[n + 1]
  BY <1>2, HeadTailProperties
<1>4. /\ commands' \in Seq(Programs \cup {Empty}) /\ Len(commands') \in Nat
      /\ commands' = <<>> <=> batch[line'] = <<>>
  <2>1. batch[line'] \in Seq(Tokens)
    BY <1>2, PipeFacts
  <2>2. commands' \in Seq(Programs \cup {Empty})
    BY <2>1, SplitLine
  <2> QED
    BY <2>1, <2>2, SplitLine, LenProperties
<1>5. file_place' \in Nat /\ file_place' <= Len(batch)
  BY <1>1, BufferedProperties
<1>6. executed \in [1..Len(batch) -> 0..2] /\ executed' \in [1..Len(batch) -> 0..2]
  <2>1. executed \in [1..Len(batch) -> 0..2] /\ executed[line'] \in 0..2
    BY <1>2 DEF PipeIInv, PipeTypeOK
  <2> QED
    BY <1>2, <2>1
<1>7. PipeTypeOK'
  <2>1. FromStdIn \in [r: Fd \cup {-1}, w: Fd \cup {-1}] /\ ToStdOut \in [r: Fd \cup {-1}, w: Fd \cup {-1}]
    BY DEF FromStdIn, ToStdOut, Fd
  <2>2. 0 \in DOMAIN fds /\ DOMAIN fds[0] = Fd
    <3>1. DOMAIN fds = 0..Len(commands) /\ Len(commands) \in Nat
      BY PipeFacts DEF PipeIInv, ShellShape
    <3>2. 0 \in DOMAIN fds
      BY <3>1
    <3> QED
      BY <3>2 DEF PipeIInv, PipeTypeOK
  <2>3. \A p \in DOMAIN fds' : DOMAIN fds'[p] = Fd
    BY <2>2
  <2>4. in' \in [r: Fd \cup {-1}, w: Fd \cup {-1}] /\ out' \in [r: Fd \cup {-1}, w: Fd \cup {-1}]
    BY <1>1, <2>1 DEF PipeIInv, PipeTypeOK
  <2>5. /\ {child_in', child_out'} \subseteq
               [1..Len(commands') -> [r: Fd \cup {-1}, w: Fd \cup {-1}]]
        /\ child_pc' \in [1..Len(commands') ->
                              {"none", "setup", "exec", "runs", "zombie", "reaped"}]
    BY <2>1
  <2>6. /\ batch' \in {<<>>} \cup Batches /\ launched' \in Nat /\ waited' \in Nat
        /\ taken_back' \in BOOLEAN
        /\ shell_pc' \in {"open", "getline", "pipe", "run", "close", "wait", "ended"}
    BY <1>1 DEF PipeIInv, PipeTypeOK
  <2> QED
    BY <1>1, <1>2, <1>3, <1>4, <1>5, <1>6, <2>3, <2>4, <2>5, <2>6 DEF PipeTypeOK, Children
<1>8. ShellShape' /\ ShellDescriptors'
  <2>1. commands' # <<>> => Len(commands') >= 1
    BY <1>4, EmptySeq
  <2>2. fds'[0] = fds[0] /\ DOMAIN fds' = 0..Len(commands')
    BY <1>4
  <2>3. Opened(fds'[0]) \subseteq 0..3
    BY <1>1, <2>2 DEF PipeIInv, ShellDescriptors
  <2> QED
    BY <1>4, <2>1, <2>2, <2>3 DEF ShellShape, ShellDescriptors
<1>9. FilePlaceSound'
  BY <1>1, <1>2, <1>3, <1>5, BufferedProperties DEF FilePlaceSound
<1>10. NothingSkipped'
  <2>0. ASSUME NEW n \in 1..Len(batch)
        PROVE  /\ executed[n] \in 0..2
               /\ executed'[n] = IF n = line' /\ commands' # <<>> /\ executed[n] # 2
                                 THEN executed[n] + 1 ELSE executed[n]
    BY <1>2, <1>6
  <2>1. ASSUME NEW n \in 1..Len(batch), batch[n] # <<>>
        PROVE  executed'[n] >= 1 \/ Ahead(n)'
    <3>1. executed[n] >= 1 \/ Ahead(n)
      BY <2>1 DEF PipeIInv, NothingSkipped
    <3>2. n # line' => executed'[n] = executed[n]
      BY <2>0
    <3>3. CASE n = line'
      <4>1. commands' # <<>>
        BY <1>4, <2>1, <3>3
      <4>2. executed'[n] >= 1
        <5>1. executed[n] \in 0..2
          BY <2>0
        <5>2. executed'[n] = IF executed[n] # 2 THEN executed[n] + 1 ELSE executed[n]
          BY <2>0, <3>3, <4>1
        <5> QED
          BY <5>1, <5>2
      <4> QED
        BY <4>2
    <3>4. CASE n # line' /\ Ahead(n)
      <4>1. CASE n > Filled
        BY <1>1, <4>1 DEF Ahead
      <4>2. CASE \E m \in 1..Len(Buffered) : Buffered[m] = n
        <5>1. PICK m \in 1..Len(Buffered) : Buffered[m] = n
          BY <4>2
        <5>2. m # 1 /\ m - 1 \in 1..Len(line_buffer') /\ (m - 1) + 1 = m
          BY <1>2, <1>3, <3>4, <5>1
        <5>3. line_buffer'[m - 1] = n
          BY <1>3, <5>1, <5>2
        <5> QED
          BY <5>2, <5>3 DEF Ahead
      <4> QED
        BY <3>4, <4>1, <4>2, BufferedProperties
    <3> QED
      BY <3>1, <3>2, <3>3, <3>4
  <2> QED
    BY <1>1, <2>1 DEF NothingSkipped
<1>11. ASSUME PlaceKept PROVE PlaceKept'
  <2>1. /\ \A n \in 1..Len(Buffered) : Buffered[n] = Returned + n
        /\ Returned = Filled - Len(Buffered) /\ Returned \in Int /\ Filled \in Nat
    BY <1>11, BufferedProperties, PipeFacts
  <2>2. line' = Returned + 1
    BY <1>2, <2>1
  <2>3. Returned' = Returned + 1
    <3>1. Returned' = Filled - Len(line_buffer')
      BY <1>1 DEF Returned
    <3> QED
      BY <1>2, <1>3, <2>1, <3>1
  <2>4. \A n \in 1..Len(line_buffer') : line_buffer'[n] = Returned' + n
    BY <1>2, <1>3, <2>1, <2>3
  <2>5. ASSUME NEW n \in 1..Len(batch)
        PROVE  executed'[n] <= IF n <= Returned' THEN 1 ELSE 0
    <3>1. executed[n] <= (IF n <= Returned THEN 1 ELSE 0) /\ executed[n] \in 0..2
      BY <1>6, <1>11 DEF PlaceKept
    <3>2. CASE n = line'
      <4>1. executed[n] = 0 /\ n <= Returned'
        BY <2>1, <2>2, <2>3, <3>1, <3>2
      <4> QED
        BY <1>6, <3>2, <4>1
    <3>3. CASE n # line'
      <4>1. executed'[n] = executed[n]
        BY <1>6, <3>3
      <4>2. n <= Returned' <=> n <= Returned
        BY <2>1, <2>2, <2>3, <3>3
      <4> QED
        BY <3>1, <4>1, <4>2
    <3> QED
      BY <3>2, <3>3
  <2>6. Returned' >= 0
    BY <1>11, <2>1, <2>3 DEF PlaceKept
  <2> QED
    BY <1>1, <2>4, <2>5, <2>6 DEF PlaceKept
<1> QED
  BY <1>1, <1>7, <1>8, <1>9, <1>10, <1>11 DEF PipeIInv

LEMMA GetLineStep == PipeIInv /\ GetLine => PipeIInv'
<1> SUFFICES ASSUME PipeIInv, GetLine PROVE PipeIInv'
    OBVIOUS
<1>1. CASE Buffered = <<>>
  <2>1. /\ shell_pc = "getline" /\ shell_pc' = "ended" /\ file_place' = Filled
        /\ UNCHANGED <<batch, line_buffer, line, commands, launched, waited, in, out, fds,
                       child_pc, child_in, child_out, executed, taken_back>>
    BY <1>1 DEF GetLine, Filled, ofChild
  <2> QED
    BY <1>1, <2>1, EndOfFileStep
<1>2. CASE Buffered # <<>>
  <2>1. /\ line' = Head(Buffered) /\ line_buffer' = Tail(Buffered)
        /\ commands' = split_commands(batch[line'])
        /\ executed' = IF commands' = <<>> \/ executed[line'] = 2 THEN executed
                       ELSE [executed EXCEPT ![line'] = @ + 1]
        /\ shell_pc' = IF commands' = <<>> THEN "getline" ELSE "pipe"
        /\ launched' = 0 /\ waited' = 0
        /\ in' = IF commands' = <<>> THEN in ELSE FromStdIn
        /\ fds' = [p \in 0..Len(commands') |->
                       IF p = 0 THEN fds[0] ELSE [f \in Fd |-> Null]]
        /\ child_pc' = [c \in 1..Len(commands') |-> "none"]
        /\ child_in' = [c \in 1..Len(commands') |-> FromStdIn]
        /\ child_out' = [c \in 1..Len(commands') |-> ToStdOut]
    BY <1>2 DEF GetLine
  <2> QED
    BY <1>2, <2>1, NextLineStep
<1> QED
  BY <1>1, <1>2

LEMMA MakePipeStep == PipeIInv /\ MakePipe => PipeIInv'
<1> SUFFICES ASSUME PipeIInv, MakePipe PROVE PipeIInv'
    OBVIOUS
<1>1. /\ shell_pc = "pipe" /\ shell_pc' = "run" /\ launched < Len(commands)
      /\ UNCHANGED <<batch, file_place, line_buffer, line, commands, launched, waited, in,
                     child_pc, child_in, child_out, executed, taken_back>>
  BY DEF MakePipe, ShellAt, ofChild, history, PipeIInv, ShellShape
<1>2. DOMAIN fds = 0..Len(commands) /\ Len(commands) \in Nat /\ 0 \in DOMAIN fds
  <2>1. DOMAIN fds = 0..Len(commands) /\ Len(commands) \in Nat
    BY PipeFacts DEF PipeIInv, ShellShape
  <2> QED
    BY <2>1
<1>3. DOMAIN fds[0] = Fd /\ Opened(fds[0]) \subseteq 0..3 \cup {in.r}
  BY <1>1, <1>2 DEF PipeIInv, PipeTypeOK, ShellDescriptors
<1>4. /\ out' \in [r: Fd \cup {-1}, w: Fd \cup {-1}]
      /\ DOMAIN fds' = DOMAIN fds /\ \A p \in DOMAIN fds : DOMAIN fds'[p] = Fd
      /\ Opened(fds'[0]) \subseteq 0..3 \cup {in.r, out'.r, out'.w}
      /\ launched + 1 = Len(commands) => out' = ToStdOut
  <2>1. CASE launched + 1 = Len(commands)
    <3>1. out' = ToStdOut /\ fds' = fds
      BY <2>1 DEF MakePipe
    <3>2. ToStdOut \in [r: Fd \cup {-1}, w: Fd \cup {-1}]
      BY DEF ToStdOut, Fd
    <3> QED
      BY <1>3, <3>1, <3>2 DEF PipeIInv, PipeTypeOK
  <2>2. CASE launched + 1 # Len(commands)
    <3> DEFINE r == LowestFree(fds[0])
    <3> DEFINE w == Min(Fd \ (Opened(fds[0]) \cup {r}))
    <3> DEFINE table == [fds[0] EXCEPT ![r] = ReadEnd(launched + 1),
                                       ![w] = WriteEnd(launched + 1)]
    <3>1. out' = [r |-> r, w |-> w] /\ fds' = [fds EXCEPT ![0] = table]
      BY <2>2 DEF MakePipe
    <3>2. r \in Fd /\ w \in Fd
      BY <1>3, FreeFd DEF LowestFree
    <3> HIDE DEF r, w
    <3>3. DOMAIN table = Fd /\ \A f \in Fd : f # r /\ f # w => table[f] = fds[0][f]
      BY <1>3
    <3>4. Opened(table) \subseteq Opened(fds[0]) \cup {r, w}
      <4> HIDE DEF table
      <4> QED
        BY <3>3 DEF Opened
    <3> HIDE DEF table
    <3>5. fds'[0] = table /\ DOMAIN fds' = DOMAIN fds
          /\ \A p \in DOMAIN fds : p # 0 => fds'[p] = fds[p]
      BY <1>2, <3>1
    <3>6. out'.r = r /\ out'.w = w /\ out' \in [r: Fd \cup {-1}, w: Fd \cup {-1}]
      BY <3>1, <3>2
    <3> QED
      BY <1>3, <2>2, <3>3, <3>4, <3>5, <3>6 DEF PipeIInv, PipeTypeOK
  <2> QED
    BY <2>1, <2>2
<1>5. PipeTypeOK'
  BY <1>1, <1>4 DEF PipeIInv, PipeTypeOK, Children
<1>6. ShellShape' /\ ShellDescriptors' /\ FilePlaceSound'
  BY <1>1, <1>4 DEF PipeIInv, ShellShape, ShellDescriptors, FilePlaceSound
<1>7. NothingSkipped' /\ (PlaceKept => PlaceKept')
  BY <1>1 DEF PipeIInv, NothingSkipped, Ahead, PlaceKept, Returned
<1> QED
  BY <1>1, <1>5, <1>6, <1>7 DEF PipeIInv

LEMMA RunStep == PipeIInv /\ Run => PipeIInv'
<1> SUFFICES ASSUME PipeIInv, Run PROVE PipeIInv'
    OBVIOUS
<1>1. /\ shell_pc = "run" /\ shell_pc' = "close" /\ launched < Len(commands)
      /\ launched' = launched + 1 /\ launched \in Nat
      /\ fds' = [fds EXCEPT ![launched'] = fds[0]]
      /\ child_pc' = [child_pc EXCEPT ![launched'] = "setup"]
      /\ child_in' = [child_in EXCEPT ![launched'] = in]
      /\ child_out' = [child_out EXCEPT ![launched'] = out]
      /\ UNCHANGED <<batch, file_place, line_buffer, line, commands, waited, in, out, executed,
                     taken_back>>
  BY DEF Run, ShellAt, history, PipeIInv, ShellShape, PipeTypeOK
<1>2. DOMAIN fds = 0..Len(commands) /\ Len(commands) \in Nat /\ 0 \in DOMAIN fds
  <2>1. DOMAIN fds = 0..Len(commands) /\ Len(commands) \in Nat
    BY PipeFacts DEF PipeIInv, ShellShape
  <2> QED
    BY <2>1
<1>3. launched' \in 1..Len(commands) /\ launched' # 0 /\ launched' \in Nat
  BY <1>1, <1>2
<1>4. /\ DOMAIN fds' = DOMAIN fds /\ fds'[0] = fds[0]
      /\ \A p \in DOMAIN fds : DOMAIN fds'[p] = Fd
  <2>1. \A p \in DOMAIN fds : DOMAIN fds[p] = Fd
    BY DEF PipeIInv, PipeTypeOK
  <2> QED
    BY <1>1, <1>2, <1>3, <2>1
<1>5. PipeTypeOK'
  <2> DEFINE ends == [r: Fd \cup {-1}, w: Fd \cup {-1}]
  <2>1. /\ child_in \in [1..Len(commands) -> ends] /\ child_out \in [1..Len(commands) -> ends]
        /\ in \in ends /\ out \in ends
    BY DEF PipeIInv, PipeTypeOK, Children
  <2>2. child_in' \in [1..Len(commands) -> ends] /\ child_out' \in [1..Len(commands) -> ends]
    <3> HIDE DEF ends
    <3> QED
      BY <1>1, <1>3, <2>1
  <2>3. child_pc' \in [1..Len(commands) ->
                           {"none", "setup", "exec", "runs", "zombie", "reaped"}]
    BY <1>1, <1>3 DEF PipeIInv, PipeTypeOK, Children
  <2> QED
    BY <1>1, <1>3, <1>4, <2>2, <2>3 DEF PipeIInv, PipeTypeOK, Children
<1>6. ShellShape' /\ FilePlaceSound'
  BY <1>1, <1>2, <1>3, <1>4 DEF PipeIInv, ShellShape, FilePlaceSound
<1>7. ShellDescriptors'
  BY <1>1, <1>4 DEF PipeIInv, ShellDescriptors
<1>8. NothingSkipped' /\ (PlaceKept => PlaceKept')
  BY <1>1 DEF PipeIInv, NothingSkipped, Ahead, PlaceKept, Returned
<1> QED
  BY <1>1, <1>5, <1>6, <1>7, <1>8 DEF PipeIInv

LEMMA CloseEndsStep == PipeIInv /\ CloseEnds => PipeIInv'
<1> SUFFICES ASSUME PipeIInv, CloseEnds PROVE PipeIInv'
    OBVIOUS
<1> DEFINE closing == ({in.r} \ {0}) \cup ({out.w} \ {1})
<1>1. /\ shell_pc = "close" /\ launched <= Len(commands) /\ launched \in Nat
      /\ shell_pc' = IF launched = Len(commands) THEN "wait" ELSE "pipe"
      /\ fds' = [fds EXCEPT ![0] = Closed(fds[0], closing)] /\ in' = out
      /\ UNCHANGED <<batch, file_place, line_buffer, line, commands, launched, waited, out,
                     child_pc, child_in, child_out, executed, taken_back>>
  BY DEF CloseEnds, PipeIInv, ShellShape, PipeTypeOK, ofChild, history
<1>2. DOMAIN fds = 0..Len(commands) /\ Len(commands) \in Nat /\ 0 \in DOMAIN fds
  <2>1. DOMAIN fds = 0..Len(commands) /\ Len(commands) \in Nat
    BY PipeFacts DEF PipeIInv, ShellShape
  <2> QED
    BY <2>1
<1>3. /\ Opened(fds[0]) \subseteq 0..3 \cup {in.r, out.r, out.w}
      /\ launched = Len(commands) => out = ToStdOut
  BY <1>1 DEF PipeIInv, ShellDescriptors
<1>4. Opened(Closed(fds[0], closing)) \subseteq 0..3 \cup {out.r}
  <2>1. Opened(Closed(fds[0], closing)) \subseteq Opened(fds[0]) \ closing
    <3> HIDE DEF closing
    <3> QED
      BY DEF Opened, Closed
  <2>2. \A x \in {in.r, out.r, out.w} : x \in closing \/ x = out.r \/ x \in 0..3
    OBVIOUS
  <2> HIDE DEF closing
  <2> QED
    BY <1>3, <2>1, <2>2
<1>5. /\ DOMAIN fds' = DOMAIN fds /\ fds'[0] = Closed(fds[0], closing)
      /\ \A p \in DOMAIN fds : DOMAIN fds'[p] = Fd
  <2>1. \A p \in DOMAIN fds : DOMAIN fds[p] = Fd
    BY DEF PipeIInv, PipeTypeOK
  <2>2. DOMAIN Closed(fds[0], closing) = Fd
    BY DEF Closed
  <2> HIDE DEF closing
  <2> QED
    BY <1>1, <1>2, <2>1, <2>2
<1> HIDE DEF closing
<1>6. PipeTypeOK'
  BY <1>1, <1>5 DEF PipeIInv, PipeTypeOK, Children
<1>7. ShellShape' /\ FilePlaceSound'
  BY <1>1, <1>2, <1>5 DEF PipeIInv, ShellShape, FilePlaceSound
<1>8. ShellDescriptors'
  <2>1. Opened(fds'[0]) \subseteq 0..3 \cup {in'.r}
    BY <1>1, <1>4, <1>5
  <2>2. CASE launched = Len(commands)
    <3>1. ~ (-1 \in Opened(fds'[0]))
      BY DEF Opened, Fd
    <3>2. in'.r = -1
      BY <1>1, <1>3, <2>2 DEF ToStdOut
    <3>3. Opened(fds'[0]) \subseteq 0..3
      BY <2>1, <3>1, <3>2
    <3> QED
      BY <1>1, <2>2, <3>3 DEF ShellDescriptors
  <2>3. CASE launched # Len(commands)
    BY <1>1, <2>1, <2>3 DEF ShellDescriptors
  <2> QED
    BY <2>2, <2>3
<1>9. NothingSkipped' /\ (PlaceKept => PlaceKept')
  BY <1>1 DEF PipeIInv, NothingSkipped, Ahead, PlaceKept, Returned
<1> QED
  BY <1>1, <1>6, <1>7, <1>8, <1>9 DEF PipeIInv

LEMMA WaitStep == PipeIInv /\ Wait => PipeIInv'
<1> SUFFICES ASSUME PipeIInv, Wait PROVE PipeIInv'
    OBVIOUS
<1>1. /\ shell_pc = "wait" /\ waited' = waited + 1 /\ shell_pc' \in {"getline", "wait"}
      /\ UNCHANGED <<batch, file_place, line_buffer, line, commands, launched, in, out, fds,
                     child_in, child_out, executed, taken_back>>
  BY DEF Wait, ofChild, history
<1>2. PICK c \in Children : child_pc' = [child_pc EXCEPT ![c] = "reaped"]
  BY DEF Wait
<1>3. PipeTypeOK'
  BY SMTT(40), <1>1, <1>2 DEF PipeIInv, PipeTypeOK, Children
<1>4. ShellShape' /\ ShellDescriptors' /\ FilePlaceSound'
  BY <1>1 DEF PipeIInv, ShellShape, ShellDescriptors, FilePlaceSound
<1>5. NothingSkipped' /\ (PlaceKept => PlaceKept')
  BY <1>1 DEF PipeIInv, NothingSkipped, Ahead, PlaceKept, Returned
<1> QED
  BY <1>1, <1>3, <1>4, <1>5 DEF PipeIInv

(* What a child leaves alone, and what it does to its own descriptors, is  *)
(* no concern of the shell.                                                *)
leftAlone == <<batch, line_buffer, line, commands, launched, waited, shell_pc, in, out,
               child_in, child_out, executed>>
Moves(c) == \E to \in {"exec", "runs", "zombie"} : child_pc' = [child_pc EXCEPT ![c] = to]

LEMMA ChildStep ==
    ASSUME PipeIInv, NEW c \in Children, DOMAIN fds' = DOMAIN fds, DOMAIN fds'[c] = Fd,
           \A p \in DOMAIN fds : p # c => fds'[p] = fds[p],
           Moves(c),
           UNCHANGED leftAlone,
           file_place' \in Nat, file_place' <= file_place,
           line_buffer = <<>> => file_place' = file_place,
           taken_back' = (taken_back \/ file_place' # file_place)
    PROVE  PipeIInv'
<1> USE DEF leftAlone, Moves
<1>1. DOMAIN fds = 0..Len(commands) /\ Len(commands) \in Nat
  BY PipeFacts DEF PipeIInv, ShellShape
<1>2. c \in DOMAIN fds /\ c # 0
  BY <1>1 DEF Children
<1>3. /\ DOMAIN fds' = DOMAIN fds /\ fds'[0] = fds[0]
      /\ \A p \in DOMAIN fds : DOMAIN fds'[p] = Fd
  <2>1. \A p \in DOMAIN fds : DOMAIN fds[p] = Fd
    BY DEF PipeIInv, PipeTypeOK
  <2> QED
    BY <1>1, <1>2, <2>1
<1>4. PipeTypeOK'
  BY <1>3 DEF PipeIInv, PipeTypeOK, Children
<1>5. ShellShape' /\ ShellDescriptors'
  BY <1>3 DEF PipeIInv, ShellShape, ShellDescriptors
<1>6. FilePlaceSound'
  BY PipeFacts DEF PipeIInv, FilePlaceSound
<1>7. NothingSkipped'
  <2>1. ASSUME NEW n \in 1..Len(batch), Ahead(n) PROVE Ahead(n)'
    BY <2>1, PipeFacts DEF Ahead
  <2> QED
    BY <2>1 DEF PipeIInv, NothingSkipped
<1>8. ASSUME ~ taken_back' PROVE PlaceKept'
  BY <1>8 DEF PipeIInv, PlaceKept, Returned
<1> QED
  BY <1>4, <1>5, <1>6, <1>7, <1>8 DEF PipeIInv

LEMMA ChildrenStep == ASSUME PipeIInv, NEW c \in Children, Child(c) PROVE PipeIInv'
<1> USE DEF ChildAt, ofShell, ofChild, history
<1>1. taken_back \in BOOLEAN /\ file_place \in Nat /\ c \in DOMAIN fds /\ DOMAIN fds[c] = Fd
  <2>1. DOMAIN fds = 0..Len(commands) /\ Len(commands) \in Nat /\ c \in 1..Len(commands)
    BY PipeFacts DEF PipeIInv, ShellShape, Children
  <2>2. c \in DOMAIN fds
    BY <2>1
  <2> QED
    BY <2>2, PipeFacts DEF PipeIInv, PipeTypeOK
<1>2. ASSUME NEW table, DOMAIN table = Fd, fds' = [fds EXCEPT ![c] = table]
      PROVE  /\ DOMAIN fds' = DOMAIN fds /\ DOMAIN fds'[c] = Fd
             /\ \A p \in DOMAIN fds : p # c => fds'[p] = fds[p]
  BY <1>1, <1>2
<1>3. CASE SetUp(c)
  <2> DEFINE copied == [fds[c] EXCEPT ![0] = fds[c][child_in[c].r],
                                      ![1] = fds[c][child_out[c].w]]
  <2> DEFINE table == Closed(copied, {child_in[c].w, child_out[c].r})
  <2>1. /\ fds' = [fds EXCEPT ![c] = table] /\ DOMAIN table = Fd /\ Moves(c)
    BY <1>3 DEF SetUp, Closed, Moves
  <2> HIDE DEF table
  <2>2. /\ DOMAIN fds' = DOMAIN fds /\ DOMAIN fds'[c] = Fd
        /\ \A p \in DOMAIN fds : p # c => fds'[p] = fds[p]
    BY <1>2, <2>1
  <2>3. UNCHANGED <<file_place, taken_back>> /\ UNCHANGED leftAlone
    BY <1>3 DEF SetUp, leftAlone
  <2> QED
    BY <1>1, <2>1, <2>2, <2>3, ChildStep
<1>4. CASE Exec(c)
  <2>1. fds' = fds /\ UNCHANGED <<file_place, taken_back>> /\ Moves(c) /\ UNCHANGED leftAlone
    BY <1>4 DEF Exec, Moves, leftAlone
  <2> QED
    BY <1>1, <2>1, ChildStep
<1>5. ASSUME NEW from, Dies(c, from)
      PROVE  /\ DOMAIN fds' = DOMAIN fds /\ DOMAIN fds'[c] = Fd
             /\ \A p \in DOMAIN fds : p # c => fds'[p] = fds[p]
             /\ Moves(c) /\ UNCHANGED leftAlone
  <2> DEFINE none == [f \in Fd |-> Null]
  <2>1. DOMAIN none = Fd /\ fds' = [fds EXCEPT ![c] = none]
    BY <1>5 DEF Dies
  <2> HIDE DEF none
  <2> QED
    BY <1>2, <1>5, <2>1 DEF Dies, Moves, leftAlone
<1>6. CASE ExecFails(c)
  <2>1. /\ file_place' \in Nat /\ file_place' <= file_place
        /\ line_buffer = <<>> => file_place' = file_place
    <3>1. line_buffer = <<>> => Len(line_buffer) = 0
      OBVIOUS
    <3>2. file_place' = IF file_place < Len(line_buffer) THEN file_place
                        ELSE file_place - Len(line_buffer)
      BY <1>6 DEF ExecFails, PlaceBack
    <3> QED
      BY <3>1, <3>2, PipeFacts
  <2>2. Dies(c, "exec") /\ taken_back' = (taken_back \/ file_place' # file_place)
    BY <1>6 DEF ExecFails
  <2> QED
    BY <1>5, <2>1, <2>2, ChildStep
<1>7. CASE Crashes(c)
  <2>1. Dies(c, "exec") /\ UNCHANGED <<file_place, taken_back>>
    BY <1>7 DEF Crashes
  <2> QED
    BY <1>1, <1>5, <2>1, ChildStep
<1>8. CASE Ends(c)
  <2>1. Dies(c, "runs") /\ UNCHANGED <<file_place, taken_back>>
    BY <1>8 DEF Ends
  <2> QED
    BY <1>1, <1>5, <2>1, ChildStep
<1> QED
  BY <1>3, <1>4, <1>6, <1>7, <1>8 DEF Child

LEMMA PipeInvariant == PipeSpec => []PipeIInv
<1>1. PipeIInv /\ [PipeNext]_pipeVars => PipeIInv'
  <2> SUFFICES ASSUME PipeIInv, [PipeNext]_pipeVars PROVE PipeIInv'
      OBVIOUS
  <2>1. CASE UNCHANGED pipeVars
    BY <2>1 DEF pipeVars, PipeIInv, PipeTypeOK, ShellShape, ShellDescriptors, FilePlaceSound,
                NothingSkipped, Ahead, PlaceKept, Returned, Children
  <2> QED
    BY <2>1, OpenBatchStep, GetLineStep, MakePipeStep, RunStep, CloseEndsStep, WaitStep,
       ChildrenStep DEF PipeNext, Shell
<1> QED
  BY PipeInit_PipeIInv, <1>1, PTL DEF PipeSpec

(* For batch files with any number of lines of any length, the shell and   *)
(* its children always find a free descriptor, and every variable keeps    *)
(* its type.                                                               *)
THEOREM PipeTypeCorrect == PipeSpec => []PipeTypeOK
<1>1. PipeIInv => PipeTypeOK
  BY DEF PipeIInv
<1> QED
  BY PipeInvariant, <1>1, PTL

(* For batch files with any number of lines of any length, and blocks of   *)
(* any size, every line with commands has been run when the shell ends,    *)
(* although the children share the place in the file and may move it; and  *)
(* none is run twice before a command that is not found has moved it.      *)
THEOREM PipeLinesOnce == PipeSpec => []LinesOnce
<1>1. PipeIInv => LinesOnce
  <2> SUFFICES ASSUME PipeIInv, NEW n \in DOMAIN batch
               PROVE  /\ shell_pc = "ended" /\ batch[n] # <<>> => executed[n] >= 1
                      /\ ~ taken_back => executed[n] <= 1
      BY DEF LinesOnce
  <2>1. n \in 1..Len(batch) /\ Len(batch) \in Nat /\ executed[n] \in Nat
    <3>1. n \in 1..Len(batch) /\ Len(batch) \in Nat
      BY PipeFacts
    <3>2. executed \in [1..Len(batch) -> 0..2]
      BY DEF PipeIInv, PipeTypeOK
    <3> QED
      BY <3>1, <3>2
  <2>2. ASSUME shell_pc = "ended", batch[n] # <<>> PROVE executed[n] >= 1
    <3>1. Len(line_buffer) = 0 /\ file_place = Len(batch)
      BY <2>2 DEF PipeIInv, NothingSkipped
    <3>2. ~ Ahead(n)
      BY <2>1, <3>1 DEF Ahead
    <3> QED
      BY <2>1, <2>2, <3>2 DEF PipeIInv, NothingSkipped
  <2>3. ~ taken_back => executed[n] <= 1
    <3>1. ~ taken_back => executed[n] <= IF n <= Returned THEN 1 ELSE 0
      BY <2>1 DEF PipeIInv, PlaceKept
    <3> QED
      BY <2>1, <3>1
  <2> QED
    BY <2>2, <2>3
<1> QED
  BY PipeInvariant, <1>1, PTL
=============================================================================

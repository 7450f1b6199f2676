----------------------------- MODULE RecordSort -----------------------------
(***************************************************************************)
(* lab2 zad1: a file of records is generated, copied, and the copy sorted  *)
(* in place.  The sort is an insertion sort that moves about in the file   *)
(* with relative seeks, and knows from pos where it should be.             *)
(*                                                                         *)
(* A record of the file is the number its place had before the sort; only  *)
(* its key, the first byte, matters.  The process may be killed.           *)
(***************************************************************************)
EXTENDS Integers

CONSTANTS
    Keys,
    MaxRecords      \* bound on the records of the file, and on the argument

ASSUME SortAssumption == Keys \subseteq Int /\ MaxRecords \in Nat

VARIABLES
    sort_pc,
    records,        \* the argument: how many records to copy and to sort
    size,           \* the records in the file
    key,            \* the key of every record generated
    file,           \* the record in every place
    offset,         \* where the file descriptor is
    i, pos, current, buffer

sortVars ==
    <<sort_pc, records, size, key, file, offset, i, pos, current, buffer>>

Places == 0..(size - 1)

SortTypeOK ==
    /\ sort_pc \in {"generate", "copy", "read", "compare", "move", "insert",
                    "done", "failed", "killed"}
    /\ records \in Nat /\ size \in Nat
    /\ key \in [Places -> Keys]
    /\ file \in [Places -> Places]
    /\ offset \in Nat /\ i \in Nat /\ pos \in Nat
    /\ current \in Nat /\ buffer \in Nat

SortInit ==
    /\ sort_pc = "generate"
    /\ records = 0 /\ size = 0
    /\ key = [p \in Places |-> 0] /\ file = [p \in Places |-> 0]
    /\ offset = 0 /\ i = 0 /\ pos = 0 /\ current = 0 /\ buffer = 0

SortAt(from, to) == sort_pc = from /\ sort_pc' = to
-----------------------------------------------------------------------------
(* generate: some file; the argument may be more than there is.            *)
Generate ==
    /\ SortAt("generate", "copy")
    /\ size' \in 0..MaxRecords /\ records' \in 0..MaxRecords
    /\ key' \in [0..(size' - 1) -> Keys]
    /\ file' = [p \in 0..(size' - 1) |-> p]
    /\ UNCHANGED <<offset, i, pos, current, buffer>>

(* copy reads at most as many records as it is told (what may be left of a *)
(* partial one, for read() but not for fread(), is no record).  sort       *)
(* begins at the second.                                                   *)
Copy ==
    /\ SortAt("copy", "read")
    /\ size' = IF records < size THEN records ELSE size
    /\ key' = [p \in 0..(size' - 1) |-> key[p]]
    /\ file' = [p \in 0..(size' - 1) |-> file[p]]
    /\ offset' = 1 /\ pos' = 1 /\ i' = 1
    /\ UNCHANGED <<records, current, buffer>>

(* The next record to insert; the seek that follows goes back to it.  The  *)
(* file may end first: exit(1).                                            *)
ReadCurrent ==
    /\ i < records
    /\ \/ /\ offset < size
          /\ SortAt("read", "compare")
          /\ current' = file[offset]
       \/ /\ offset >= size
          /\ SortAt("read", "failed")
          /\ UNCHANGED current
    /\ UNCHANGED <<records, size, key, file, offset, i, pos, buffer>>

AllSorted ==
    /\ i >= records
    /\ SortAt("read", "done")
    /\ UNCHANGED <<records, size, key, file, offset, i, pos, current, buffer>>

(* Mutant: equal records change places.                                    *)
CompareUnstable ==
    /\ sort_pc = "compare"
    /\ \/ /\ pos > 0
          /\ buffer' = file[offset - 1]
          /\ sort_pc' = IF key[current] <= key[buffer'] THEN "move" ELSE "insert"
       \/ pos = 0 /\ sort_pc' = "insert" /\ UNCHANGED buffer
    /\ UNCHANGED <<records, size, key, file, offset, i, pos, current>>

(* Mutant: when the record before stays, the seek back is not made good.   *)
CompareNotPassed ==
    /\ sort_pc = "compare"
    /\ \/ /\ pos > 0
          /\ buffer' = file[offset - 1]
          /\ IF key[current] < key[buffer'] THEN sort_pc' = "move" /\ UNCHANGED offset
             ELSE sort_pc' = "insert" /\ offset' = offset - 1
       \/ pos = 0 /\ sort_pc' = "insert" /\ UNCHANGED <<buffer, offset>>
    /\ UNCHANGED <<records, size, key, file, i, pos, current>>

(* The record before, read after a seek back.                              *)
Compare ==
    /\ sort_pc = "compare"
    /\ \/ /\ pos > 0
          /\ buffer' = file[offset - 1]
          /\ sort_pc' = IF key[current] < key[buffer'] THEN "move" ELSE "insert"
       \/ pos = 0 /\ sort_pc' = "insert" /\ UNCHANGED buffer
    /\ UNCHANGED <<records, size, key, file, offset, i, pos, current>>

(* It is written one place to the right, and the seek goes back by two.    *)
MoveRight ==
    /\ SortAt("move", "compare")
    /\ file' = [file EXCEPT ![offset] = buffer]
    /\ offset' = offset + 1 - 2
    /\ pos' = pos - 1
    /\ UNCHANGED <<records, size, key, i, current, buffer>>

(* ++pos, then a seek by i - pos + 1 and the same for pos.                 *)
Insert ==
    /\ SortAt("insert", "read")
    /\ file' = [file EXCEPT ![offset] = current]
    /\ offset' = offset + 1 + (i - (pos + 1) + 1)
    /\ pos' = pos + 1 + (i - (pos + 1) + 1)
    /\ i' = i + 1
    /\ UNCHANGED <<records, size, key, current, buffer>>

Kill ==
    /\ sort_pc \in {"read", "compare", "move", "insert"}
    /\ sort_pc' = "killed"
    /\ UNCHANGED <<records, size, key, file, offset, i, pos, current, buffer>>

SortNext ==
    Generate \/ Copy \/ ReadCurrent \/ AllSorted \/ Compare \/ MoveRight \/ Insert \/ Kill

SortEnded == sort_pc \in {"done", "failed", "killed"}

SortSpec == SortInit /\ [][SortNext]_sortVars
-----------------------------------------------------------------------------
(* p comes before q in a stable sort.                                      *)
Before(p, q) ==
    key[file[p]] < key[file[q]] \/ (key[file[p]] = key[file[q]] /\ file[p] < file[q])

(* The file is sorted, and equal records keep their order: at the end all  *)
(* that was copied, and if the file was too short or the process was       *)
(* killed between two records, what was read so far.  The rest has not     *)
(* been touched.                                                           *)
SortedSoFar ==
    sort_pc \in {"read", "done", "failed"} =>
        /\ \A q \in Places : q < i => \A p \in 0..(q - 1) : Before(p, q)
        /\ \A p \in Places : p >= i => file[p] = p
        /\ sort_pc = "done" => i >= size

(* However the sort is stopped, the file misses at most the one record it  *)
(* was about to insert: seeks and the count of them never disagree, so     *)
(* nothing is written over a record that is not elsewhere.                 *)
NothingLost ==
    \A r \in Places :
        \/ \E p \in Places : file[p] = r
        \/ r = current /\ sort_pc \in {"compare", "move", "insert", "killed"}
=============================================================================

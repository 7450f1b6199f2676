---------------------------- MODULE ImageFilter ----------------------------
(***************************************************************************)
(* lab8: an image is filtered by several threads.  The rows are dealt out  *)
(* in parts of equal length, rounded up; every pixel is computed from the  *)
(* rows around it, those beyond the edge being replaced by the row at the  *)
(* edge.                                                                   *)
(*                                                                         *)
(* What a row of the result was computed from stands for its pixels.       *)
(***************************************************************************)
EXTENDS Integers, Sequences

CONSTANTS
    MaxHeight,      \* bound on the rows of the image
    MaxThreads,     \* bound on the threads
    MaxFilter       \* bound on the rows of the filter

ASSUME FilterAssumption == {MaxHeight, MaxThreads, MaxFilter} \subseteq Nat \ {0}

VARIABLES
    filter_pc,      \* main's position
    image_h, filter_size,
    threads,        \* how many there are to be
    params,         \* the part of every thread created, as far as it is left
    joined,         \* how many main has joined
    image_out       \* for every row, the sets of rows it was computed from

filterVars == <<filter_pc, image_h, filter_size, threads, params, joined, image_out>>

Rows == 0..(image_h - 1)

FilterTypeOK ==
    /\ filter_pc \in {"read", "create", "join", "write", "finished"}
    /\ image_h \in Nat /\ filter_size \in Nat /\ threads \in Nat /\ joined \in 0..threads
    /\ params \in Seq([begin: Nat, end: Int])
    /\ image_out \in [Rows -> Seq(SUBSET Int)]

FilterInit ==
    /\ filter_pc = "read"
    /\ image_h = 0 /\ filter_size = 0 /\ threads = 0 /\ joined = 0
    /\ params = <<>>
    /\ image_out = [r \in Rows |-> <<>>]

FilterAt(from, to) == filter_pc = from /\ filter_pc' = to
-----------------------------------------------------------------------------
(* Mutant: rounded down.                                                   *)
divfloor(x, divisor) == x \div divisor

divceil(x, divisor) ==
    IF x % divisor = 0 THEN x \div divisor ELSE (x \div divisor) + 1

get_idx(origin, offset, size) ==
    LET idx == origin - divceil(filter_size, 2) + offset
    IN  IF idx < 0 THEN 0 ELSE IF idx >= size THEN size - 1 ELSE idx

(* read_image and read_filter; the arguments.                              *)
ReadInput ==
    /\ FilterAt("read", "create")
    /\ image_h' \in 0..MaxHeight
    /\ filter_size' \in 1..MaxFilter
    /\ threads' \in 1..MaxThreads
    /\ image_out' = [r \in 0..(image_h' - 1) |-> <<>>]
    /\ UNCHANGED <<params, joined>>

(* pthread_create, once in every round of the loop.                        *)
CreateThread ==
    /\ filter_pc = "create"
    /\ LET part_len == divceil(image_h, threads)
           begin == Len(params) * part_len
           end == IF begin + part_len <= image_h THEN begin + part_len ELSE image_h
       IN  params' = Append(params, [begin |-> begin, end |-> end])
    /\ filter_pc' = IF Len(params') = threads THEN "join" ELSE "create"
    /\ UNCHANGED <<image_h, filter_size, threads, joined, image_out>>

(* process_part and calc_pixel_value: thread t's next row.                 *)
ProcessRow(t) ==
    /\ t \in 1..Len(params)
    /\ LET row == params[t].begin
       IN  /\ row < params[t].end
           /\ params' = [params EXCEPT ![t].begin = row + 1]
           /\ image_out' = [image_out EXCEPT ![row] =
                  Append(@, {get_idx(row, k, image_h) : k \in 0..(filter_size - 1)})]
    /\ UNCHANGED <<filter_pc, image_h, filter_size, threads, joined>>

(* pthread_join, in the order of creation.                                 *)
Join ==
    /\ filter_pc = "join"
    /\ params[joined + 1].begin >= params[joined + 1].end
    /\ joined' = joined + 1
    /\ filter_pc' = IF joined' = threads THEN "write" ELSE "join"
    /\ UNCHANGED <<image_h, filter_size, threads, params, image_out>>

WriteOutput ==
    /\ FilterAt("write", "finished")
    /\ UNCHANGED <<image_h, filter_size, threads, params, joined, image_out>>

FilterNext ==
    \/ ReadInput \/ CreateThread \/ Join \/ WriteOutput
    \/ \E t \in 1..MaxThreads : ProcessRow(t)

FilterEnded == filter_pc = "finished"

FilterSpec == FilterInit /\ [][FilterNext]_filterVars
-----------------------------------------------------------------------------
(* Whatever the sizes and however the threads are interleaved: the parts   *)
(* do not overlap, they are complete when the threads have been joined,    *)
(* and a row is computed from neighbouring rows of the image only.         *)
RowsOnce ==
    \A r \in Rows :
        /\ Len(image_out[r]) <= 1
        /\ filter_pc \in {"write", "finished"} => Len(image_out[r]) = 1
        /\ \A n \in 1..Len(image_out[r]) :
               /\ image_out[r][n] \subseteq Rows
               /\ \A k \in image_out[r][n] : k - r \in -filter_size..filter_size
=============================================================================

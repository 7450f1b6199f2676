------------------------------ MODULE Pipeline ------------------------------
(***************************************************************************)
(* lab5 zad1: every line of a batch file is a pipeline of commands, run    *)
(* one after the other.  The shell and its children have tables of file    *)
(* descriptors of their own, but what the descriptors stand for is shared: *)
(* the ends of the pipes, and the place in the batch file.                 *)
(*                                                                         *)
(* A token is "|" or the name of a command, and the name says what the     *)
(* program does: "ends" by itself, "reads" its input to the end, "writes"  *)
(* until nobody can read it, or is "missing".                              *)
(***************************************************************************)
EXTENDS Integers, Sequences, FiniteSets, FiniteSetsExt

CONSTANTS
    Batches,     \* the files: sequences of lines, which are sequences of tokens
    BlockLines   \* how many lines stdio reads at once

Programs == {"ends", "reads", "writes", "missing"}
Tokens == Programs \cup {"|"}

ASSUME BatchAssumption ==
    /\ \A batch \in Batches : batch \in Seq(Seq(Tokens))
    /\ BlockLines \in Nat \ {0}

Bar == "|"
Empty == "empty"      \* a command of no words
Null == [pipe |-> 0, end |-> "none"]
StdIn == [pipe |-> 0, end |-> "in"]
StdOut == [pipe |-> 0, end |-> "out"]
FromStdIn == [r |-> 0, w |-> -1]
ToStdOut == [r |-> -1, w |-> 1]
BatchFile == [pipe |-> 0, end |-> "file"]
ReadEnd(k) == [pipe |-> k, end |-> "read"]
WriteEnd(k) == [pipe |-> k, end |-> "write"]

(* The descriptors: more than the standard ones, the batch file and the    *)
(* pipes of a line take.                                                   *)
Fd == 0..15

(* Every token that follows a bar begins a command; so does the first.     *)
split_commands(ts) ==
    LET begins == {n \in 1..Len(ts) : n = 1 \/ ts[n - 1] = Bar}
        first == [k \in 1..Cardinality(begins) |->
                      CHOOSE n \in begins : Cardinality({m \in begins : m <= n}) = k]
    IN  [k \in DOMAIN first |-> IF ts[first[k]] = Bar THEN Empty ELSE ts[first[k]]]

VARIABLES
    batch,          \* the file
    file_place,     \* lines before the shared place in it
    line_buffer,    \* the numbers of the lines read and not returned by getline
    line,           \* the number of the line that is run
    commands,       \* its commands
    launched,       \* how many of them have been forked
    waited,         \* how many have been waited for
    shell_pc,       \* the position of the shell
    in, out,        \* its variables
    fds,            \* the descriptors of the shell, 0, and of its children
    child_pc,       \* every child's position
    child_in, child_out,  \* in and out as it got them from the shell
    executed,       \* history: how often every line was run, up to twice
    taken_back      \* history: a child has moved the place in the file

pipeVars == <<batch, file_place, line_buffer, line, commands, launched, waited, shell_pc,
              in, out, fds, child_pc, child_in, child_out, executed, taken_back>>
ofShell == <<batch, line_buffer, line, commands, launched, waited, shell_pc, in, out>>
ofChild == <<child_in, child_out>>
history == <<executed, taken_back>>

Children == 1..Len(commands)

PipeTypeOK ==
    /\ batch \in {<<>>} \cup Batches
    /\ file_place \in Nat /\ line \in Nat /\ launched \in Nat /\ waited \in Nat
    /\ line_buffer \in Seq(Nat)
    /\ commands \in Seq(Programs \cup {Empty})
    /\ shell_pc \in {"open", "getline", "pipe", "run", "close", "wait", "ended"}
    /\ {in, out} \subseteq [r: Fd \cup {-1}, w: Fd \cup {-1}]
    /\ {child_in, child_out} \subseteq [Children -> [r: Fd \cup {-1}, w: Fd \cup {-1}]]
    /\ \A p \in DOMAIN fds : DOMAIN fds[p] = Fd
    /\ child_pc \in [Children -> {"none", "setup", "exec", "runs", "zombie", "reaped"}]
    /\ executed \in [1..Len(batch) -> 0..2]
    /\ taken_back \in BOOLEAN

Standard == [f \in Fd |-> CASE f = 0 -> StdIn [] f \in {1, 2} -> StdOut [] OTHER -> Null]

PipeInit ==
    /\ batch = <<>>
    /\ file_place = 0 /\ line = 0 /\ launched = 0 /\ waited = 0
    /\ line_buffer = <<>> /\ commands = <<>> /\ executed = <<>>
    /\ taken_back = FALSE
    /\ shell_pc = "open"
    /\ in = FromStdIn /\ out = ToStdOut
    /\ fds = [p \in {0} |-> Standard]
    /\ child_pc = <<>> /\ child_in = <<>> /\ child_out = <<>>
-----------------------------------------------------------------------------
(* The shell.                                                              *)
ShellAt(from, to) == shell_pc = from /\ shell_pc' = to

Opened(table) == {f \in Fd : table[f] # Null}
LowestFree(table) == Min(Fd \ Opened(table))

OpenBatch ==
    /\ ShellAt("open", "getline")
    /\ batch' \in Batches
    /\ executed' = [n \in 1..Len(batch') |-> 0]
    /\ fds' = [fds EXCEPT ![0][LowestFree(fds[0])] = BatchFile]
    /\ UNCHANGED <<file_place, line_buffer, line, commands, launched, waited, in, out, child_pc,
                   ofChild, taken_back>>

(* The buffer of the file, filled once more when it is empty.              *)
Buffered ==
    IF line_buffer # <<>> THEN line_buffer
    ELSE [n \in 1..Min({BlockLines, Len(batch) - file_place}) |-> file_place + n]

(* getline takes a line from the buffer; a blank one is skipped.           *)
GetLine ==
    /\ shell_pc = "getline"
    /\ file_place' = IF line_buffer # <<>> THEN file_place ELSE file_place + Len(Buffered)
    /\ \/ /\ Buffered = <<>>
          /\ shell_pc' = "ended"
          /\ UNCHANGED <<line_buffer, line, commands, launched, waited, in, fds, child_pc,
                         ofChild, executed>>
       \/ /\ Buffered # <<>>
          /\ line' = Head(Buffered)
          /\ line_buffer' = Tail(Buffered)
          /\ commands' = split_commands(batch[line'])
          /\ executed' = IF commands' = <<>> \/ executed[line'] = 2 THEN executed
                         ELSE [executed EXCEPT ![line'] = @ + 1]
          /\ shell_pc' = IF commands' = <<>> THEN "getline" ELSE "pipe"
          /\ launched' = 0 /\ waited' = 0
          /\ in' = IF commands' = <<>> THEN in ELSE FromStdIn
          /\ fds' = [p \in 0..Len(commands') |->
                         IF p = 0 THEN fds[0] ELSE [f \in Fd |-> Null]]
          /\ child_pc' = [c \in 1..Len(commands') |-> "none"]
          /\ child_in' = [c \in 1..Len(commands') |-> FromStdIn]
          /\ child_out' = [c \in 1..Len(commands') |-> ToStdOut]
    /\ UNCHANGED <<batch, out, taken_back>>

(* pipe(): the two lowest free descriptors.  The last command writes to    *)
(* standard output.                                                        *)
MakePipe ==
    /\ ShellAt("pipe", "run")
    /\ IF launched + 1 = Len(commands) THEN out' = ToStdOut /\ UNCHANGED fds
       ELSE LET r == LowestFree(fds[0])
                w == Min(Fd \ (Opened(fds[0]) \cup {r}))
            IN  /\ out' = [r |-> r, w |-> w]
                /\ fds' = [fds EXCEPT ![0] = [@ EXCEPT ![r] = ReadEnd(launched + 1),
                                                       ![w] = WriteEnd(launched + 1)]]
    /\ UNCHANGED <<batch, file_place, line_buffer, line, commands, launched, waited, in,
                   child_pc, ofChild, history>>

(* fork: the child has the descriptors of the shell.                       *)
Run ==
    /\ ShellAt("run", "close")
    /\ launched' = launched + 1
    /\ fds' = [fds EXCEPT ![launched'] = fds[0]]
    /\ child_pc' = [child_pc EXCEPT ![launched'] = "setup"]
    /\ child_in' = [child_in EXCEPT ![launched'] = in]
    /\ child_out' = [child_out EXCEPT ![launched'] = out]
    /\ UNCHANGED <<batch, file_place, line_buffer, line, commands, waited, in, out, history>>

Closed(table, closing) == [f \in Fd |-> IF f \in closing THEN Null ELSE table[f]]

(* Mutant: the write end stays open.                                       *)
CloseReadEnd ==
    /\ shell_pc = "close"
    /\ fds' = [fds EXCEPT ![0] = Closed(@, {in.r} \ {0})]
    /\ in' = out
    /\ shell_pc' = IF launched = Len(commands) THEN "wait" ELSE "pipe"
    /\ UNCHANGED <<batch, file_place, line_buffer, line, commands, launched, waited, out,
                   child_pc, ofChild, history>>

(* in.w keeps the number of a descriptor that is closed.                  *)
CloseEnds ==
    /\ shell_pc = "close"
    /\ fds' = [fds EXCEPT ![0] = Closed(@, ({in.r} \ {0}) \cup ({out.w} \ {1}))]
    /\ in' = out
    /\ shell_pc' = IF launched = Len(commands) THEN "wait" ELSE "pipe"
    /\ UNCHANGED <<batch, file_place, line_buffer, line, commands, launched, waited, out,
                   child_pc, ofChild, history>>

(* wait(), as often as there are commands.                                 *)
Wait ==
    /\ shell_pc = "wait"
    /\ \E c \in Children :
           /\ child_pc[c] = "zombie"
           /\ child_pc' = [child_pc EXCEPT ![c] = "reaped"]
    /\ waited' = waited + 1
    /\ shell_pc' = IF waited' = Len(commands) THEN "getline" ELSE "wait"
    /\ UNCHANGED <<batch, file_place, line_buffer, line, commands, launched, in, out, fds, ofChild,
                   history>>

Shell == OpenBatch \/ GetLine \/ MakePipe \/ Run \/ CloseEnds \/ Wait
-----------------------------------------------------------------------------
(* The children.                                                           *)
ChildAt(c, from, to) ==
    c \in Children /\ child_pc[c] = from /\ child_pc' = [child_pc EXCEPT ![c] = to]

(* The place less what the buffer still holds, unless that is before the   *)
(* beginning of the file.                                                  *)
PlaceBack ==
    IF file_place < Len(line_buffer) THEN file_place ELSE file_place - Len(line_buffer)

(* Mutant: the child closes the batch file, which it does not need.        *)
SetUpClosing(c) ==
    /\ ChildAt(c, "setup", "exec")
    /\ LET table == fds[c]
           copied == [table EXCEPT ![0] = table[child_in[c].r], ![1] = table[child_out[c].w]]
       IN  fds' = [fds EXCEPT ![c] = Closed(copied, {child_in[c].w, child_out[c].r})]
    /\ file_place' = PlaceBack
    /\ UNCHANGED <<ofShell, ofChild, history>>

(* dup2() of the ends it is to use, close() of those it is not.            *)
SetUp(c) ==
    /\ ChildAt(c, "setup", "exec")
    /\ LET table == fds[c]
           copied == [table EXCEPT ![0] = table[child_in[c].r], ![1] = table[child_out[c].w]]
       IN  fds' = [fds EXCEPT ![c] = Closed(copied, {child_in[c].w, child_out[c].r})]
    /\ UNCHANGED <<ofShell, file_place, ofChild, history>>

Found(command) == command \in Programs \ {"missing"}

Exec(c) ==
    /\ ChildAt(c, "exec", "runs")
    /\ Found(commands[c])
    /\ UNCHANGED <<ofShell, file_place, fds, ofChild, history>>

Dies(c, from) ==
    /\ ChildAt(c, from, "zombie")
    /\ fds' = [fds EXCEPT ![c] = [f \in Fd |-> Null]]
    /\ UNCHANGED <<ofShell, ofChild, executed>>

(* No such program: exit(126) closes the batch file properly, which takes  *)
(* the shared place back to where the child's copy of the buffer is read.  *)
ExecFails(c) ==
    /\ Dies(c, "exec")
    /\ commands[c] = "missing"
    /\ file_place' = PlaceBack
    /\ taken_back' = (taken_back \/ file_place' # file_place)

(* execvp(NULL, ..) reads from a null pointer: a signal ends the child and *)
(* nothing closes its files properly.                                      *)
Crashes(c) ==
    /\ Dies(c, "exec")
    /\ commands[c] = Empty
    /\ UNCHANGED <<file_place, taken_back>>

Holders(object) == {p \in DOMAIN fds : \E f \in Fd : fds[p][f] = object}

(* The program ends: by itself, because its input has, or because nobody   *)
(* can read its output any more.                                           *)
Ends(c) ==
    /\ Dies(c, "runs")
    /\ \/ commands[c] = "ends"
       \/ /\ commands[c] = "reads"
          /\ fds[c][0].end = "read" => Holders(WriteEnd(fds[c][0].pipe)) = {}
       \/ /\ fds[c][1].end = "write"
          /\ Holders(ReadEnd(fds[c][1].pipe)) = {}
    /\ UNCHANGED <<file_place, taken_back>>

Child(c) == SetUp(c) \/ Exec(c) \/ ExecFails(c) \/ Crashes(c) \/ Ends(c)

PipeNext == Shell \/ \E c \in Children : Child(c)

PipeEnded == shell_pc = "ended"

PipeSpec == PipeInit /\ [][PipeNext]_pipeVars

(* Processes run.                                                          *)
PipeFairness(N) == WF_pipeVars(Shell) /\ \A c \in 1..N : WF_pipeVars(Child(c))
-----------------------------------------------------------------------------
(* The shell and its children share the place in the batch file.  Whatever *)
(* they do to it no line is left out: when the shell ends, each that has   *)
(* commands has been run.  And none is run again, unless a command that is *)
(* not found has taken the place back.                                     *)
LinesOnce ==
    \A n \in DOMAIN batch :
        /\ shell_pc = "ended" /\ batch[n] # <<>> => executed[n] >= 1
        /\ ~ taken_back => executed[n] <= 1

(* A pipeline that can come to an end does: what writes for ever is        *)
(* followed by something that stops reading.  No process holds an end of a *)
(* pipe that it is not to use.                                             *)
WillEnd ==
    \A k \in Children : commands[k] = "writes" =>
        \E m \in Children : m > k /\ (commands[m] = "ends" \/ ~Found(commands[m]))

PipelinesEnd == (shell_pc = "wait" /\ WillEnd) ~> shell_pc # "wait"
=============================================================================

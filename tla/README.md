# Verification of the operating-systems exercises

The repository holds ten laboratories (`lab1` .. `lab10`) in C. Most are small
sequential programs; the later ones are concurrent, and that is where the
specifications are. Paths below are relative to `src/labN/GeislerWojciech/cwNN/`.

## Inventory

| Part | State | Operations | What is hard | What makes it correct |
|---|---|---|---|---|
| lab7 barber (`zad1`, `zad2`: `barber.c`) | `b_state`, `seated_client`, `queue` in shared memory; semaphores | `barber_sleep`, `barber_cut`, `barber_invite` | sleeping against arriving clients, an unlocked peek at the queue | no lost wake-up, asserts hold, one client at a time, first come first served |
| lab7 clients (`client.c`) | own semaphore, `repeats` | `client_come_in`, `client_enqueue`, `client_sit` | nested locks, a store without a lock, semaphores made and removed while others look them up | locks exclude, queue bounded, everyone is served |
| lab7 semaphores (`common.c`) | semaphore sets by key | `semsignal`, `semwait`, `get_client_sem` | `ftok` keeps eight bits of the process id | names distinct |
| lab9 `zad1` | ring of slots, `filled_slots`, mutex, condition variable | `produce`, `consume`, `spawn` | one condition variable for both kinds of waiter, time limits | ring in order, FIFO, no waiter left asleep |
| lab9 `zad2` | ring of slots, two counting semaphores, one lock per slot | the same | search positions read without a lock | nothing lost or repeated, every search ends |
| lab6 (`zad1` System V, `zad2` POSIX) | server's queue, `client_queues`, one queue per client | REGISTER, MIRROR, CALC, TIME, END, STOP | a server that drains and leaves, clients that leave with a request open, full queues | answers reach who asked; who waits is answered or knows why not |
| lab10 (`zad1` streams, `zad2` datagrams) | registry `clients[20]`, `client_count`, shared by three threads without locks | register, unregister, ping, result; requests from stdin | every interleaving of listener, reader and monitor; in `zad2` messages that are lost or overtake each other | count matches registry; only silent clients are removed; the server ends only for a known cause |
| lab4 `zad2` | `children`, `allowed`, `request_count`, `alive` | signal handlers | coalescing signals, handlers against the main loop | every child is answered and counted once |
| lab4 `zad3` | `sent`, `received`, `confirmed` | `kill`, handlers, the wait for an answer | lost signals, a handler that interrupts itself | with confirmation both count all; nobody waits for ever |
| lab4 `zad1` | `dater_pid` (`zad1b`), one flag (`zad1a`) | SIGTSTP and SIGINT handler | a pid stored after the fork, handlers that interrupt each other | no child is left that nobody can stop |
| lab5 `zad1` | descriptors per process, the place in the batch file | `run`, `execute_batch` | a forgotten write end, an offset shared by parent and child | every reader sees end of file, every line is run once |
| lab5 `zad2`, lab3, lab1, lab2 `zad2` | none that lasts | copying lines, running commands, walking directories, array of blocks | sequential | - |
| lab2 `zad1` | a file of records | generate, copy, sort | in-place moves | result sorted, nothing lost |
| lab8 | image, filter | filter a range of rows per thread | the split of the rows | ranges disjoint and complete |

How parts interact: within lab7 the barber and its clients share one memory
segment and one semaphore set, and each queued client owns a semaphore the barber
looks up by process id. In lab9 the threads share the ring. lab6 and lab10 are
client/server programs over queues and sockets. The laboratories do not use each
other.

## Modules

| Module | Models | Role |
|---|---|---|
| `BarberShop` | what lab7 promises | abstract specification |
| `SleepingBarber` | lab7 `barber.c`, `client.c`, `common.c` | the semaphore-level program |
| `SleepingBarberProofs`, `CondBufferProofs`, `SemBufferProofs`, `MqServerProofs`, `SocketServerProofs`, `DatagramServerProofs`, `SignalParentProofs` | | TLAPS proofs about the module of that name |
| `ExerciseProofs` | | TLAPS proofs about `SignalCount`, `DatePrinter`, `Pipeline`, `RecordSort` and `ImageFilter` |
| `InputFile` | the input file, config and `matching` of lab9 | shared by the buffer modules |
| `LineFifo`, `LineBag` | what lab9 `zad1` and `zad2` promise | abstract specifications |
| `CondBuffer` | lab9 `zad1/main.c` | mutex and condition variable |
| `SemBuffer` | lab9 `zad2/main.c` | counting semaphores |
| `ServiceQueue` | what lab6 promises its clients | abstract specification |
| `MqServer` | lab6 `server.c`, `client.c`, both variants (`posix`) | server and clients over queues |
| `SocketServer` | lab10 `zad1`, `server.c` and `client.c` | three threads around an unlocked registry |
| `DatagramServer` | lab10 `zad2`, `server.c` and `client.c` | the same three threads over datagrams |
| `SignalParent` | lab4 `zad2`, `main.c` and `child.c` | signal handlers against a main loop |
| `SignalCount` | lab4 `zad3`, `main.c` and `child.c` | counted signals |
| `DatePrinter` | lab4 `zad1b` | a handler that starts and kills a child |
| `Pipeline` | lab5 `zad1` | descriptors of a shell and its children |
| `RecordSort` | lab2 `zad1` | the sort in a file |
| `ImageFilter` | lab8 | the parts of the threads |
| `MCExercises` | | runs one of the last five |
| `MC...` | | constants for TLC |

### SleepingBarber

`bpc` and `cpc` are the positions of the barber and of every client in their
functions. An action is a stretch of code up to and including its next semaphore
operation, so the order of semaphore operations is the program's; the actions are
grouped under the names of the C functions. The one store to shared memory made
without a lock, `client_sit` emptying the chair, is an action of its own, and so is
the barber's unlocked `peek_queue`. `semwait` and `semsignal` ignore a failed
`semop` because `OK()` tests `< -1`; the model does the same, which matters once a
set has been removed. `ClientKey` is the name of each client's semaphore: with
`FtokKey` (zad1) two clients may share one, with `NameKey` (zad2) they do not.
`handle`/`bhandle` say whether the identifier a process holds is still valid.
Shared memory is zero at first, so `b_state` starts `"unset"`. A failing `assert` is not a
step: `AssertsHold` says it never happens (`zad2` is built with `-DNDEBUG`).
Not modelled: processes killed from outside, more than `MAX_QUEUE` chairs,
negative arguments, wrap-around of process ids.

### CondBuffer and SemBuffer

Threads run `produce` or `consume`; an action covers at most one access to data no
held lock protects, and steps inside a lock are split where another thread's view
could differ. `thread_ttl` is chosen in `Init`: 0 means no limit, otherwise the
deadline may pass at any moment, which covers every actual duration. A line is a
pair of producer and line number. In `CondBuffer` a broadcast empties `waiters`;
spurious wake-ups are allowed and counted (`MaxSpurious`). In `SemBuffer` the unlocked
reads of `next_write`/`next_read` are steps of their own; their locked writes can
race with them, and the model gives the reader either the old or the new value (the
index is one aligned word). At least one slot is assumed. A failed `fopen` is not modelled.

### MqServer

`spc` is the server's position in `receive_loop`, `buff` the message it holds; one
action handles one message, answer included. `cpc` is the position of a client in
`main`: each blocking call is a step of its own, so SIGINT may come while a client
waits to send or to receive. `posix` is the variant, chosen in `Init` from `Variants`:

| | System V (`zad1`) | POSIX (`zad2`) |
|---|---|---|
| queue removed while in use | every send fails (`SendFails`, `SendTo`) | lives on while somebody holds it open |
| what a registration stores | the queue's identifier, unchecked | the result of `mq_open`, -1 if the queue is gone (`NoQueue`) |
| a client leaves | silently | with STOP, which clears its entry (`SendStop`, `HandleStop`) |
| the server leaves (`OnExit`) | `IPC_RMID` destroys the queue and what came after the last look into it | `mq_unlink` takes the name only |
| after END | `IPC_NOWAIT` | `O_NONBLOCK`; the loop ends on the empty queue in both (`QueueDrained`) |

MIRROR, CALC and TIME differ only in the text of the answer and are one request type;
CALC with a division by zero is another, because it kills the server without
`onexit` (`DivideByZero`), which leaves the queue in place. So `RequestAccounted` says that no request is lost while the
server is not gone (`spc # "gone"`), the draining after END included, and afterwards only that none is both open and
answered; `ServiceQueue` tells a service that has `ended`, with everything answered, from one that is `broken`, and lets
either lose what comes later. A request is its number, and
its answer carries the same number. Clients' own queues need no bound: `RequestAccounted`
shows that none ever holds two answers. `client_queues[-1]`, written by a STOP from a client
that never learned its number, is taken to be the padding the build puts there.

Not modelled: more registrations than `MAX_CLIENTS`; a server started again on the queue
that a killed one left; clashes of the random queue names; a second SIGINT during `onexit`.

### SocketServer

`th[t]` is the position and the local variables of the listener, the reader and the monitor; the
actions carry the names of the C functions. The registry has no lock, so every access to
`clients[i]` or `client_count` is an action, `++` and `--` are a load and a store
(`LoadCount`, `StoreIncrement`, `StoreDecrement`), and memory is sequentially
consistent. `handle_unregister` gets its name from the message, or through a
pointer into the registry that may have been emptied meanwhile (`own`, `Sought`). `Close` of
descriptor 0, an unused entry, closes standard input, as the code would. A send or `recv`
that fails ends the server (`Fails`), because `OK()` exits and SIGPIPE is not handled; a send to
a client that has gone may also vanish, as TCP lets the first one do. `Fails` also
stands for `clients[-1]`, which the sanitizer the Makefile builds in reports.

A client's `recv` asks for 48 bytes whatever the next message is, so the stream to a client is
modelled in units of 16 bytes: PING and the answers to REGISTER are two, ARITH is three. The server
reads message by message. Names are chosen when a client starts. `overlapped` is a history
variable: it becomes true when the listener and the monitor work on the registry at the same
time, after which `client_count` may be wrong for ever (the model follows it down to
`LeastCount`). `shutdown` and `close` of a socket are one step. Not modelled: ^C for the server, messages cut by the
network, the text of requests (but a division by zero ends the client).

### DatagramServer

The threads and the registry are treated as in `SocketServer`; what differs is the network. A message to the
server carries a name, and `to_server` holds what is under way for the UNIX and the INET socket. Over UNIX
messages keep their order; over INET they may vanish (`Says`, `SendTo`) and any of those under way may be
received next (`Receive`, `Takes`). Sending to a local client that is gone fails, and `OK()` ends the server; over
INET nobody notices. An entry is named before it has an address (`SetName`, `SetAddr`), so a send to
address 0 is possible as well. `handle_ping` writes through the result of `find_client_by_name`, NULL or not.
`fate` is the reason the server has gone for, and `Falls` resets the other variables, which no longer
matter. `evicted` and `overlapped` are history variables. `RegistrySound` says of all states that names are unique and
entries have the address of a client of their name; only the count needs that the threads have not collided.

A client that is turned away, or still waits for its answer, sends UNREGISTER when it is interrupted, and the entry
of another client of that name is removed. After that an answer to a ping of the other finds no
entry: one of the causes `FallsOnlyWithCause` lists.

Not modelled: SIGINT of the server and `cleanup`; socket queues that are full; an address of which part has
been written when another thread reads it; empty names; operands, except that a division by zero
ends the client.

### SignalParent

`mpc`, `i` and `reg` are main's position, loop index and the value of `alive` it has loaded: `++alive` is
a load and a store, and a handler may come between any two steps. The handlers are one step
each, because `sa_mask` is full. `usr1` and `chld` hold the sender of the pending signal of
each kind; a second one is lost (`Ask`, `Exit`). A child that asks before `spawn_children` has stored its
process id is looked up in vain, and `allowed[-1]` is used: `stray` is that byte, in the size
the allocator keeps before the array, so that `free` aborts later (`SpinEnds`). A second stray request may
lead `allow_all` to an entry already set to 0, and `kill(0, SIGALRM)` ends the whole group
(`send_allow`). `children[-1] = 0` writes zero over zero and is left out. `lost` is a history variable: a
signal was lost, or a handler met a child whose recording was not complete.
SIGINT is taken to be sent to the parent alone.

Not modelled: the real-time signal, which is only printed; reuse of process ids; a failing
`fork` or `execl`; children killed from outside.

### SignalCount

`parent_pc` is the parent's position; its handler is one step (`Answer`), because nothing else it could be
interrupted by shares its data. The child's handler is three: `++received` is a load and a store, and
with `SA_NODEFER` it may interrupt itself, so `handlers` is a stack. The child never initialises `mask`
before it adds two signals to it, so whether SIGUSR1 is in it is open (`blocks`). SIGUSR1 does not queue and
real-time signals do (`Pends`). A signal that comes before the child has set its handlers ends it or is counted
by the handler it has inherited (`Unhandled`, `Inherited`): nothing but `sleep(1)` prevents that, and `unready`
records it. Not modelled: ^C at the terminal, which reaches the child as well; ^C between the fork and the store of the
child's pid; a failing `execl`; the limit of queued signals.

### DatePrinter

`calls` is the stack of calls of `handler`: ^Z and ^C block themselves, not each other. Main forks and
stores the first pid in two steps, and so does the handler. `kill(0, SIGKILL)`, which ^C sends while no
child runs, ends the whole group (`KillDater`). `raced` says that ^Z came before main stored the first pid, or
while ^C was handled; then a child may be left that prints for ever, as TLC shows at once without
that condition. Not modelled: what a child does with a signal between fork and exec; reuse of process ids;
`zad1a`, one flag that main tests before it prints.

### Pipeline

`fds` maps the descriptors of the shell (process 0) and of its children to what they stand for: an end of a pipe, the
batch file, standard input or output. `MakePipe`, `Run`, `CloseEnds` and `Wait` are the statements of
`execute_batch`, `SetUp` and `Exec` those of the child. `in.w` keeps the number of a closed descriptor, as in the code,
and the child closes that number again. What a program does is its name: it ends by itself, reads to the end of its
input, or writes until nobody can read. `getline` fills its buffer (`Buffered`) with the next block of the file, at most
`BlockLines` lines. `exit(126)` of a child whose program is not found (`ExecFails`) takes the offset it shares with the
shell back by what its copy of the buffer still holds (glibc puts the offset of an input stream right at exit:
`PlaceBack`), as long as that is not before the beginning: the shell reads and runs those lines again, and if two
commands of one block fail, it may run the file for ever. A command of no words (`|` alone) does not get that far:
`execvp(NULL, ..)` crashes and nothing is put right (`Crashes`). `LinesOnce` is about all files: at the end no line with
commands has been left out, and none is run twice unless a command that is not found has moved the place
(`taken_back`, a history variable).

Not modelled: capacity and contents of pipes; arguments; the missing NUL of `tokenize`; standard output that a child
inherits unflushed and prints again; a line that lies across two blocks; a failing `pipe` or `fork`.

### RecordSort and ImageFilter

A record is the place it had before the sort, `key` its first byte. The steps are the reads and writes of the sort with the
seeks around them; `offset` is the descriptor's place and `pos` what the program believes it is. The
argument may exceed the file, and the process may be killed between any two steps.

In `ImageFilter` a row of the result is the set of rows it was computed from, a list if it was computed more than
once. The window is not centred: row `r` uses `r - ceil(f/2)` .. `r - ceil(f/2) + f - 1`, cut off at the edges, as `get_idx` has
it. Columns work the same way and are left out, as are the sums and the exit on a file whose `maxval` is not 255.

## Runs

| Run | Instance | Shows |
|---|---|---|
| `barber` | 4 clients, 2 chairs, 1 haircut | exclusion, no lost wake-up, queue sound, asserts, what the barber saw still holds when he acts, refinement of `BarberShop` |
| `barber_live` | 3 clients, 1 chair, 2 haircuts, fair | everyone is served; the inductive invariant `IInv`, with clients that come back |
| `barber_clash` | process ids 300 and 556 | expected violation of `AssertsHold`: see Findings |
| `cond_buffer` | 2 producers, 2 consumers, 2 slots, file of 2 lines, with and without limit, 1 spurious wake-up | ring in order, nobody sleeps through a broadcast, refinement of `LineFifo`, threads end and everything is printed |
| `sem_buffer` | the same without the wake-up | slots exclusive, tokens account for slots, refinement of `LineBag`, threads end and everything is printed |
| `mq` | both variants; 2 clients of 2 requests, queue of 2, all may be interrupted, fair | no request lost before the server is gone, none answered twice, client numbers distinct, the server fails only over a client that left, nobody waits for ever while the server runs, refinement of `ServiceQueue` |
| `socket_registry` | 2 clients, 2 slots, any of 2 names, one may be interrupted | registry sound, names unique, until two threads change it at once |
| `socket_monitor` | 1 client that may be interrupted, killed or hang, 2 slots, 2 requests, fair | a client that hangs is removed |
| `socket_removal` | 1 client, 1 slot, 1 request, nobody leaves or hangs | expected violation of `OnlySilentRemoved`: see Findings |
| `datagram` | a local and an INET client, 2 slots, same name or not, 1 request; one may be interrupted, the other killed or hang, fair | registry sound; the server falls only for the causes listed; a client that hangs is removed; a local registration is answered |
| `signals` | 4 children, 2 requests, SIGINT at any moment, fair | no permission before two have asked, the parent does not return while a child lives, the handshake ends unless `lost` |
| `exercises` | files of up to 4 records with 3 keys; up to 5 rows, 3 threads, filters of up to 4; batches of up to 4 lines, read 3 at a time; up to 3 signals; up to 4 keys pressed | the sort sorts and loses nothing, rows are computed once, no line is left out and none run again without a cause, pipelines end, counts agree and both processes end, no child is left that nobody can stop |

Why the bounds are enough to meet the interesting cases. In `barber` the shop can hold one client in
the chair and two queued while a fourth is turned away, so every branch is taken and
two clients wait at every lock; in `barber_live` clients return while others queue, so
left-over tokens would meet a second visit. In the buffers four lines pass through two slots, so indices
wrap, producers meet a full ring and consumers an empty one, and two threads of each
kind compete for one slot. In the lab6 runs the queue is shorter than the number of
messages that can be under way, so senders wait for room; END may be followed by requests
of the others, and clients leave at every point of the conversation. In `socket_registry`
both clients may be given the same name or two, so registrations are refused, entries are reused
and a slot is free before or behind a used one; two threads meet at every pair of accesses. The full
registry takes more clients than these runs have (`RefuseFull` then drops the message). In `signals` two children are answered by `allow_all`
and two one by one, requests and exits meet pending ones, and all four may come before they are
recorded. Deadlock is checked everywhere; the end of a program is a
step that changes nothing (`ShopClosed`, `Joining`, `Quiet`, `Halted`, `Ended`, `Down`), except in `exercises`, where programs just stop
(the properties `PipelinesEnd` and `BothEnd` say that they do not stop too early).

In `datagram` the local client has the first name and the other either (the names play the same role), and requests are typed
only while at most one client has started (`MCFairSpec`): the reader only picks an entry and sends, and one client shows
every state an entry can be in. The registry is full there only through a count that two threads have spoilt. The lines
of `exercises` hold every kind of command before, between and behind bars, empty commands, and a missing program before and
behind others.

`TypeOK` (`SortTypeOK` and so on) stands in every module and is proved for every module with variables. Only `barber_live` checks
an inductive invariant in a run; the others were put through TLC on the instances of the runs before they were proved.

### Fairness

`SleepingBarber.Fairness` is strong fairness per process: Linux queues the waiters of
a System V semaphore and serves them in order. Weak fairness is not enough:
a client turned away comes back at once and can take the lock for ever.
The buffers need only weak fairness per thread, although mutexes are not
fair: the input is finite, so nobody can overtake for ever.
`MqServer` needs weak fairness of the server and of what each client does by itself
(`Works`): every client sends finitely many messages. Nothing obliges a user to
type a command or ^C.
`SocketServer` needs weak fairness of the monitor only: its thread runs and `sleep` returns.
`DatagramServer` needs weak fairness of the monitor and the listener, and strong fairness of receiving from the UNIX socket:
`epoll_wait` returns one ready socket at a time and takes them in turn, so messages over INET cannot keep it
away for ever.
In `Pipeline` and `SignalCount` every process runs (weak fairness of the shell, of each child, of the parent).
`SignalParent` needs weak fairness of main, of the handlers (the kernel delivers what is
pending) and of each child. SIGINT need not come. A parent that has lost an exit spins for
ever: `Spin` changes nothing, so TLC's deadlock check does not see it and `HandshakeEnds` does.

## Findings

`barber_clash`: `get_client_sem` names a semaphore `ftok(home, pid)`, which uses eight
bits of `pid`. Two clients 256 apart share it; the wrong one answers an invitation,
or one removes the set under the other, and the assert at `zad1/barber.c:88` fails.

`socket_removal`: `server.c:434` of lab10 `zad1` reports a client that "did not respond to ping",
but the monitor also removes clients that have answered everything. In the run a
PING goes out before REGISTER_ACK, and `do_register` takes it for the result of its
registration. The same happens when the answer is handled before the monitor stores
`responsive = false` (line 438 after line 437), and when a PING is received
together with the head of the next message.

## Proofs

Every safety property that a passing run checks is also a theorem, for every value of the constants; the runs show the same
on small instances, and break the property when the code is changed. Assumed are the named `ASSUME`s of the modules, which
TLC evaluates: sets of clients and threads are finite where they are counted, there is at least one slot, special values
like `NoLine` are none of the others. `SleepingBarber` needs one thing more, and every theorem about it names it:
`DistinctKeys`, which `zad1` does not guarantee (see Findings).

| Component | Theorems | States |
|---|---|---|
| lab7 | `BarberTypeCorrect`, `BarberAssertsHold`, `BarberMutualExclusion`, `BarberNoLostWakeup`, `BarberPeekStillTrue`, `BarberQueueSound` | the invariants of run `barber`; `BarberInvariant` is the inductive one |
| | `BarberImplementsShop` | the semaphores implement `BarberShop` |
| lab9 `zad1` | `CondBufferTypeCorrect`, `CondBufferRingInOrder`, `CondBufferNobodySleepsThrough`, `CondBufferSlotFoundAtOnce` | the invariants of `cond_buffer` |
| | `CondBufferImplementsFifo` | the ring implements `LineFifo` |
| lab9 `zad2` | `SemBufferTypeCorrect`, `SemBufferSlotExclusive`, `SemBufferTokensMatchSlots` | the invariants of `sem_buffer` |
| | `SemBufferImplementsBag` | the ring implements `LineBag` |
| lab6 | `MqTypeCorrect`, `MqRequestAccounted`, `MqNumbersDistinct`, `MqFailsOnlyForLeavers` | the invariants of `mq`, for both programs |
| | `MqImplementsService` | the queues implement `ServiceQueue` |
| lab10 `zad1` | `SocketTypeCorrect`, `SocketRegistrySound` | the invariant of `socket_registry` |
| lab10 `zad2` | `DatagramTypeCorrect`, `DatagramRegistrySound`, `DatagramFallsOnlyWithCause` | the invariants of `datagram` |
| lab4 `zad2` | `SignalTypeCorrect`, `SignalPermissionNeedsK`, `SignalParentOutlivesChildren` | the invariants of `signals` |
| lab4 `zad3`, `zad1` | `CountTypeCorrect`, `CountCountsAgree`; `DaterTypeCorrect`, `DaterNoStrayDater` | of `exercises` |
| lab5 `zad1` | `PipeTypeCorrect`, `PipeLinesOnce` | of `exercises` |
| lab2 `zad1`, lab8 | `SortTypeCorrect`, `SortSortedSoFar`, `SortNothingLost`; `FilterTypeCorrect`, `FilterRowsOnce` | of `exercises` |

Bounds on counters (`Requests`, `MaxSpurious`, `MaxSignals` and so on) are constants as well: the theorems hold for each value of them.

### The inductive invariants

None of the properties is inductive alone. Each proof module begins with the invariant it uses (`IInv`, in
`DatagramServerProofs` `RegistryInv` and `MessageInv`), then has one lemma per action or group of
actions, and draws the theorems at the end.

*lab7.* At most one client is *in care* (called or leaving the chair, `OneInCare`) and it fixes where the
barber can be (`ClientPhase`, `BarberPhase`); the chair names the client that sits (`ChairOccupied`);
each semaphore token says where both sides of its hand-over stand (`Tokens`, `Invitations`); nobody holds a stale
identifier (`HandlesValid`). In the refinement each action is one step of `BarberShop` or a stutter.

*lab9 `zad1`.* While a thread is between its store and its `++` or `--`, `filled_slots` and the two positions lag behind the
slots. `Held` and `Oldest` correct them, and `RingShape` says that the lines always lie in the `Held` slots from `Oldest` on; a search
begins where its slot is (`RightSlot`). `Turn` and `Dist` are addition and subtraction modulo
`Slots`, with lemmas of their own. The abstract queue is the ring read from `Oldest`.

*lab9 `zad2`.* A slot is empty, full, or in the hands of one thread, and the number of slots of either kind is the number of tokens plus
the threads that have taken one or are about to give one (`Balanced`): the proof moves one thread from one of these
sets to another with each action. For the refinement no line is in two slots, and only lines that were sent are in any.

*lab6.* What a client has told the server and not yet seen answered is known from the messages in flight, the one in the
server's hand included: each has the number its sender has (`Truthful`), only one of a client asks for an answer, and
STOP is its last (`MessagesInOrder`). A number stands for its client until the entry is cleared (`NumberKnown`), and while the server serves, every
entry has an owner, so the numbers suffice (`EntriesOwned`). The refinement maps the messages that ask, in order of arrival, to
`Pending`, and the loop that ends on the empty queue to `End`; `Nth` picks the k-th of them, and lemmas about ranks say what a message more at the end or
one less at the front does to it.

*lab10.* Names are unique although nothing is locked: an entry the listener's search has passed can only lose its
name, because nobody else gives names (`Searched`). The count, the entries' completeness and the entry that is being
removed need that listener and monitor have not overlapped: then every other entry is
complete, and `client_count` is off by the change under way. In `zad2` an entry has an address of a client of its name whatever
overlaps (`EntriesSound`), and who found the registry not full still has room (`RoomAhead`). `MessageInv` is about the
network: whoever the server hears from or writes to has a name it knows, or one that was given up (`NamesKnown`, `ListenerKnows`), and
a client asks once to be registered (`AsksOnce`); so the only ways to fall are the causes listed.

*lab4 `zad2`.* A byte of `allowed` that is set, `allowed[-1]` included, stands for a child of its own that has asked, so as many have asked as
`request_count` says (`RequestsCounted`). Signals that are lost, or that meet `++alive` half way, leave
`alive` too high and never too low (`AliveNotTooLow`): so the parent cannot leave before its children.

*lab4 `zad3` and `zad1`.* Signals on their way, calls of the handler not finished and signals counted never exceed those sent (`Conserved`),
with confirmation at most one is under way (`OneAtATime`). Of the children of the date printer at most one prints, and
while the two handlers interrupt each other their stack says which call knows it (`CallsShape`, `OnePrints`).

*lab5 `zad1`.* The shell never holds more than the ends of two pipes (`ShellDescriptors`), so it finds a descriptor however
long the line is. The place in the file stays within it and the buffer holds numbers of its lines (`FilePlaceSound`). A line
that has not been run is in the buffer or behind the place, because a child can only move the place back
(`NothingSkipped`). Until one does, the lines `getline` has returned (`Returned`: the place less what the buffer holds) are
the only ones run, and the buffer holds those behind them in order (`PlaceKept`).

*lab2 `zad1` and lab8.* While a record is inserted the file has a hole: at `pos` stands a record that stands
elsewhere as well, and `current` is the only one that is nowhere (`SortedHole`). The parts of the
threads are `divceil` wide, so they cover the rows and meet at their ends only.

### Only model-checked

`EveryoneServed`, `EveryoneFinishes`, `Served`, `SilentRemoved`, `RegistrationAnswered`, `HandshakeEnds`, `PipelinesEnd` and `BothEnd` are
liveness properties: fairness and ENABLED are beyond the prover. The two violations are shown by TLC.
`InputFile` and the abstract specifications have no theorems of their own.

## Plan

Done: lab7, lab9, lab6, lab10, lab4, lab5 `zad1`, lab2 `zad1` and lab8, and the safety properties of all of them proved.

Next: facts the liveness properties rest on and that are safety themselves (a client that waits is in the queue or called; while
threads of lab9 wait, somebody can still go on), as invariants with theorems; the removal of a client in lab10 `zad1` that was not
yet asked, as an invariant that says exactly when it may happen.

## Not modelled

lab2 `zad2` and lab3 `zad1` walk directories and print; lab3 `zad2` and `zad3` run commands one after another and stop at
the first failure; lab5 `zad2` copies lines from a named pipe, written in pieces that cannot interleave; lab1 is an array of
blocks with a search, and a driver that measures time. They are sequential and keep no state a property could relate.
Also left out: timing and printing code, notebooks, images, Makefiles, the memory and time eaters of lab3.

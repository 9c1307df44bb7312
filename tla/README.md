# A verification project for tang-s-test-code

The repository is a collection of small C, C++ and Java programs.  Most show one
library call or one language feature and keep no state.  A few are real programs
with threads, protocols or ownership rules, and those are what this project models
in TLA+, checks with TLC and proves with TLAPS.

Paths below are relative to `src/`.

## 1. Inventory

### 1.1 Programs with behaviour over time

| Part | Source | State it keeps | Operations | What is hard | What makes it correct |
|---|---|---|---|---|---|
| Job list, exiting threads | `basic_c/thread_job_queue.c` | list head, `next` fields, heap, `job_queue_mutex`, each thread's `next_job` | `thread_func`, `enqueue_job`, `main` | threads race with each other, with the enqueueing and with `free` | no job lost, taken twice or used after `free`; `main` returns |
| Job list, semaphore | `basic_c/thread_job_queue_sem.c` | the same and `job_count` | the same | the head is followed with no test for NULL; who lets whom in | semaphore = jobs to take; every job processed |
| Job list, condition variable | `basic_c/thread_job_queue_improved.c` | the same and `thread_flag`, its mutex and its wait set | the same and `set_thread_flag` | lost and spurious wakeups | no thread starts early or sleeps for ever; all jobs processed at return |
| `CTCPServer` | `c_plus_plus/ctcpsocket.cpp`, `testtcpserver.cpp` | `m_sock`, `m_connections`, two fd sets, `fdmax`, `*m_tv`, connections | `Create`, `Run`, `Accept`, `Shutdown`, `SetTimeout`, destructors, the listener's callbacks | callbacks and `Shutdown()` change the tables in the middle of a pass; descriptors are given out again; `accept` fails | tables and kernel agree; no step blocks; `OnDisconnect` exactly once; nothing left at the end |
| `CTCPConnection` as a client | `ctcpsocket.cpp`, `testtcpclient.cpp` | `m_sock` | `Connect`, `Send`, `Recv`, `Close` | closing and resetting at any time | part of the above |
| select() server in one loop | `basic_c/sock_select.c`, `sock_client.c` | `master`, `read_fds`, `fdmax`, `tv` | `main` | the loop's bound; descriptors given out again | watched = open; nothing blocks; every ready descriptor handled |
| Frame receiver | `c_plus_plus/udpreceiver.cpp` | `states`, `frame`, the subframe counts, `received_pkt_seq_no`, `packet_count`, transmit socket | the loop of `main` | packets lost, repeated, reordered; setup packets at any time; no free frame; the player's thread | no frame lost to the pool or given away twice; frames complete and in one piece; acks to the caller |
| Frame receiver | `fpgas/udpreceiver.cpp` | the same without the socket | the loop of `main` | the same without setup packets | the same, in order, acks name the last packet in order |
| First receivers and their sender | `fpgas/old_udpreceiver.c`, `udpreceiver.c`, `testsender.c` | `buffer`, `packet_count`, the ack packet, `addr_len` | the loop of `main`, `read_header`, `set_ack`; the sender's five `sendto()` | the acks go to the receiver's own port; `addr_len` is never set; short packets | an ack for every 16 packets; no answer to answers for ever |

The parts do not call each other: each program is a process of its own.  The two
sides of a connection (`CTCPServer` and its clients, `sock_select` and
`sock_client`) meet in the kernel's descriptors, accept queue and streams; the
threads of the job lists meet in memory under one or two mutexes; the receivers and
their player meet in the frame buffer; the listener of `testtcpserver.cpp` is
called back by `CTCPServer::Run()` and calls `Shutdown()` from inside the callback.

### 1.2 Loops and pure algorithms

`swap_every_64bit` of `swap_64bit.c`, `strlen_w` and `strcpy_w`: loops over memory
with pointers and a counter; correct when every word is reversed once, the length is
the distance to the first 0, and the copy is the source, with nothing touched beside.
The swaps of `swap_big_little.c` shift and mask; correct when they reverse too, which
one of them does not.  The reading loop of `toggle-comment.cc` is to read a file into a
string; it tests for the end before it reads, and so adds the last character twice.

### 1.3 Programs without behaviour to model

Language samples (`type_casting.cc`, `objectSlicing.cpp`, `gnu-attribute.c`, ...),
samples of standard I/O (`fdopen-test.c`, `file_open_mode.c`, ...), `hello_thread.c`
(each thread reads what it was given and nothing else), `Alternative.java` (a scan
that calls `file`), the kernel module of `test-driver/`, the macros of
`fpgas/system.hpp`, `ctcpserver.cpp` and `ctcpclient.cpp` (written against an older
interface, they do not compile) and the build files.  PROJECT.json
lists each of them with the reason.  `thread_specific_data.c` has threads but nothing to
go wrong between them: each opens, writes and closes a file of its own, and the key
is created before the first of them starts.

## 2. The modules

```
JobPool            <- implemented by -  JobList + JobQueue | JobQueueSem | JobQueueFlag
                                        (JobQueueProofs, about all three)
ServerContract     <- implemented by -  TcpServer            (MCTcpServer, TcpServerProofs)
FrameStream        <- used by        -  UdpReceiver, FpgaReceiver
                                        (FrameStreamProofs, and a *Proofs module for each;
                                         Films, MCUdpReceiver, MCFpgaReceiver)
AckLoop                                 (AckLoopProofs)
SockSelect                              (SockSelectProofs)
ByteLoops                               (ByteLoopsProofs)
```

### 2.1 The job lists

`JobList` holds what the three programs share: the list and the statements that
touch it.  An action is what happens between two points where another thread can see
a difference, so `enqueue_job()` is `LockEnqueue`, `Link` (`new_job->next =
*job_queue`), `Publish` (`*job_queue = new_job`) and `UnlockEnqueue`, and
`thread_func()` is `LockQueue`, `ReadHead`, `Advance`, `UnlockQueue`, `ProcessJob`,
`FreeJob`.  A mutex is a guard only where the code locks it: nothing else keeps two
threads out of the list.  `tpc` and `mpc` say which statement a thread and `main()`
are at.  A job is known by its id, which stands for its address; `Wild` is what
`malloc()` leaves in `next`.  Freed memory is not given out again, so that a use
after `free()` shows as one.

`JobQueue` adds the exit on an empty list, `JobQueueSem` the semaphore and
`JobQueueFlag` the flag, its mutex and the wait set, with spurious wakeups.  Their
`Next`, `Spec` and the like carry the prefixes `Queue`, `Sem` and `Flag`, since
`JobQueueProofs` speaks of all three.

`JobPool` says what they promise: jobs come in order, a thread takes the youngest,
nobody takes it again, what is taken is processed once.  The refinement mapping
reads the pool off the program: `Queued` is what `enqueue_job()` has published and
nobody holds or has processed, `Holding(t)` what thread `t` has unlinked and not yet
processed, `Done` what was printed.

### 2.2 The TCP server

`TcpServer` is `CTCPServer::Run()` with `MyListener` on top of a small model of the
kernel: `owner` says what each descriptor refers to, `queue` is the accept queue,
`stream` what was received and not read, `peer` the state of each connection.  A
descriptor is always the lowest free one, as POSIX asks.  `select()` fails if a
watched descriptor is closed and stores the time left in `*m_tv`, as Linux does.

One server step is one `select()`, one iteration of the `for` loop that does not
just `continue`, or one iteration of the final loop.  `Visit` is what the loop is
still to look at.  Between two steps clients connect, send, close and reset.
`DataShutdown` is the whole of what a "shutdown" does: `recv()`, `Shutdown()` with
the reset of whatever waits for `accept()`, removal from the set and the map,
`OnDisconnect()`, `delete` and the new `fdmax`.

`recv()` may return one or more of the items that were sent, and `OnData()` looks at
the beginning only.  A `recv()` that fails leaves the buffer as it was, whatever
that is; the kernel reports an error once.  `main()` calls `Run()` even when
`Create()` failed: `FD_SET(-1)` is undefined and modelled as an abort or as going on.

`ServerContract` is what a listener may rely on: it is shown a connection once, it
is told of the end of each exactly once, and `Run()` returns when none is served.

### 2.3 The receivers

`FrameStream` is what surrounds both: the packets of a film, and the frame buffer
with its player, neither of which is in the repository; they are modelled from how
the receivers call them.  The film is a constant: `Stream`, the sequence of its
packets, of which `StreamAssumption` says that an info packet comes first and that
the data packets of its frame follow it, as many as it announces, before the next one.
`Films` builds such sequences for TLC.  Any packet may arrive at any time, which
covers loss, repetition, reordering and resending.  A frame records which packets
were copied into it and how many bytes of each, not their bytes.

One step of `UdpReceiver` or `FpgaReceiver` is one iteration of the endless loop:
`Setup`, `Missing`, `FrameInfo`, `FrameInfoNoBuffer` or `FrameInfoCrash`, and
`FrameData`.  `Finish` is the test for the last subframe that ends an iteration.
`UdpReceiver` swaps headers in place before it reads their fields again: `SwapHeader`
and `SwappedContentType` say which field it then gets.  `transmit` and `nSocketNum`
are separate, since `nSocketNum` is only set when `create()` succeeded.  `starved`
is a history variable: it remembers that `getNewFrame()` returned 0.

### 2.4 The select() server

`SockSelect` is `main()` of `sock_select.c`, with the kernel model of `TcpServer`
reduced to whether there is something to read, since what is read is only printed.
The bound of its `for` loop is the number of ready descriptors, in the model as in
the code.

### 2.5 The first receivers

`AckLoop` is `main()` of `old_udpreceiver.c` or of `udpreceiver.c` (the variable
`program` says which; the second one's `sendto()` is commented out) and any number of
runs of `testsender.c`.  Sender and receiver both use port 9000 of 127.0.0.1, so the
acks arrive in the receiver's own socket and never at the sender.  `Receive` is
`recvfrom()` with `read_header()`, `Count` and `Answer` what follows `sleep(1)`.  A
greeting has 9 bytes, an ack 24 and the header read 32.  The number of an ack is in its
bytes 4 to 7 (`fpgas/udpreceiver.h:70`), which a greeting overwrites with text; what it
does not reach, the bytes from the 10th on, is the same in every ack.  So `Filled`
keeps `rest` behind a greeting, and no number.  `set_ack()` counts the number up in
the host's order and `read_header()` turns it around: `Ntohl` reverses the four bytes,
here digits to the base `Byte`.  `addr_len`
is never initialised and decides what the calls do, so `Init` gives it a negative
value, one too short and one that will do; `recvfrom()` takes the packet also when it
fails.  `first`, `greeted`, `echoed`, `acked` and `lost` are history variables.

### 2.6 The loops over memory

A behaviour of `ByteLoops` is one call of one of the functions and a step one
iteration of its loop; `p` and `q` are the pointers the function advances.  Each byte
that is not 0 is named after its address at the call, so that "which byte is here
now" can be told.  `Legal` is what the functions ask of a caller: strings end, the
destination has room (`strcpy_w.c:7`), and a copy to a higher address does not reach
into the source, where `strcpy_w()` would overwrite the end it looks for.  That callers
keep to it is not claimed: `main()` of `strcpy_w.c` reads `"%10s"` into ten bytes.  An `int` that counts beyond 2^31
is out of reach of the memory modelled.  The swaps by shifting are one step,
`Shift`; a word is the function of its bytes, and a shift moves them.  For the
reading loop memory is the file and `p` the get pointer; `get()` may also fail before
the end, which `eof()` never shows: the loop then never ends (`pc = "endless"`).

## 3. What TLC checks

| Run | Instance | Shows |
|---|---|---|
| `job_queue` | 3 threads, 4 jobs | the list is exactly what was enqueued and not taken; nothing used after `free`; at return every job is processed or still listed (the "misfunction" of the comment in lines 45-49); `main` returns; implements `JobPool` |
| `job_queue_sem` | 3 threads, 4 jobs | the semaphore counts the jobs; all jobs processed; in the end all are blocked, which is why the check for deadlock is off here; implements `JobPool` |
| `job_queue_flag` | 3 threads, 4 jobs | no lost wakeup, all processed at return, `main` returns; implements `JobPool` |
| `tcp_server` | 3 clients, descriptors 3-5, accept queue of 1, one `send()` | set, map and kernel agree; `fdmax` covers all; no step blocks or trips the assert; each connection told once; nothing left open at the end; hang-ups noticed, waiting clients accepted, a shutdown ends; implements `ServerContract` |
| `tcp_server_error` (violation) | 1 client | an error of `recv()` does not drop the connection |
| `udp_receiver` | film of 3 frames, 2 buffers, 2 hosts | frames accounted for, whole and, unless starved, in step; acks to the caller; nothing copied to NULL |
| `udp_content` (violation) | film of 2 frames | the length copied is not `payload_len` |
| `fpga_receiver` | film of 5 frames, 3 buffers | frames accounted for, whole, in one piece and in order; acks name the last packet in order |
| `ack_loop` | 2 senders of 5 greetings, an ack per 3 packets, a socket for 3 packets, bytes of 2 values and so ack numbers modulo 16 | how many acks there are to the sender's packets, although the receiver counts its own; what is read of its acks and behind a short packet; the conversation with itself ends |
| `sock_select` | 3 clients, descriptors 0, 1, 3 | what is watched is what is open; no step blocks |
| `sock_select_all` (violation) | 1 client, descriptors 3, 4 | the loop ends before the ready descriptor |
| `byte_loops` | 17 bytes of memory | whole words reversed, lengths right, copies right also with overlap to a lower address; the swaps by shifting reverse; what is read of a file comes in order |

Every property of a passing run is broken by a mutant of the code, named in
PROJECT.json and defined beside the definition it changes (marked "Mutant").

**Bounds.**  Three threads and four jobs let two threads race while a third and
`main()` hold a mutex, and let a list be emptied and refilled.  In `tcp_server` the
third client finds both spare descriptors taken, so `accept()` fails, a waiting
client gets a descriptor that another one gave back, and the accept queue
runs full; the only `send()` may be data, "quit", "shutdown", or data with a "quit"
behind it.  `Timeout = 0` lets `select()` time out; only the first timeout of a
longer one differs.  `LongFilm` has a video frame of two subframes, an audio frame
and an empty frame, and two buffers let the pool be exhausted at every packet;
`AckEvery = 3` (16 in the code) makes periodic acks come inside and between frames.
`SmallFilm` has more video frames than buffers.  In `ack_loop` the ten greetings
make up to four acks, which are counted towards further ones; the socket overflows, and
the ack numbers, which start anywhere, wrap around.  Sixteen of them tell
four acks apart, whatever was lost.  `sock_select` starts with
descriptors 0 and 1 closed: with the usual ones in use the loop never reaches
anything, which is what `sock_select_all` shows.  In 17 bytes `swap_every_64bit` meets
two words, one, none, and every length between, at every address; a string ends at
any one or two addresses.

**Fairness.**  The threads of the job lists have weak fairness each, since the
operating system runs what can run; the mutexes need none, because each is locked a
bounded number of times.  `JobQueueFlag` also assumes that spurious wakeups do not
go on for ever.  The TCP server's one thread has weak fairness, except for the failures
of `Create()` and `select()`: they may happen at any time and need not ever, so no
property holds because the server gave up.  Clients have no fairness and may fall
silent.  The receiver of `AckLoop` has weak fairness: its process is alone
and runs whenever a packet waits, and `sleep(1)` ends; the senders have none.
`recvfrom()` may wait for ever, so the check for deadlock is off there.  The frame
receivers, `SockSelect` and `ByteLoops` have safety properties only, and no fairness.

## 4. What is proved

PROJECT.json lists 51 theorems, for every value of the constants.  Every safety
invariant that a passing run checks and every refinement is among them.

**The job lists** (`NumJobs \in Nat \ {0}` and `Size \in Nat \ {0}`): type correctness,
`ListInv`, `NoDoubleTake`, `NoUseAfterFree`, `EveryJobAccounted` and the refinement of
`JobPool` for `JobQueue`; `SemCountsJobs`, `NoNullDeref`, `ListInv`, `NoUseAfterFree` and
the refinement for `JobQueueSem`; `NoLostWakeup`, `NoneStartsEarly`,
`AllProcessedAtReturn` and the refinement for `JobQueueFlag`.

The argument is one inductive invariant in two parts.  `CoreInv` is about what the
programs share, and is proved once for each action of `JobList`:

* `Types`: every variable has its type, over all labels any program uses;
* `MutexInv`: `job_queue_mutex` is held exactly by who is between lock and unlock;
* `LocalInv`: what a thread read under the mutex is still the head, and what
  `Link` stored is still the head when `Publish` runs;
* `OwnerInv`: a job has at most one owner, and none before it was published;
* `ListInv`: the list is the published jobs nobody owns, youngest first;
* `HeapInv`: what is listed or owned is not freed, what is done and not owned is.

`ListInv` alone is not inductive: that `Advance` takes off one job and not two needs
that the thread's `next_job` is the head (`LocalInv`), which needs that nobody else
is in the critical section (`MutexInv`), and that a freed job is not listed needs the
single owner.  Each program adds its own part: that `main()` joins only threads that
exited (`JobQueue`); the count of the semaphore as a cardinality (`JobQueueSem`);
for `JobQueueFlag` `FlagMutexInv` and `FlagInv`, which say that the flag is set after
the last job and that who decided to wait did so while it was clear.

Then, where the programs stop.  `MainStuck` and `ThreadStuck` spell out when main() and
a thread cannot go on (they say what `~ ENABLED Next` does, which the prover does not
handle).  `QueueGoesOn` and `FlagGoesOn`: nothing is stuck until `main()` has returned,
in the second program even if no thread ever wakes without a signal.
`SemStopsWhenDone`: that program is stuck only when every job is processed and freed.
The argument: who holds a mutex is not stuck, so if all are stuck both mutexes are free
(`MutexInv`, `FlagMutexInv`); nobody is unborn once `main()` joins (`BornInv`); no head
that is followed is NULL (`HeadInv`); nobody sleeps once `main()` has released the flag
(`FlagInv`); and the count of the semaphore leaves no job.  With fairness these are the
safety half of `MainReturns` and `EndsBlocked`.

**The frame receivers**, for any film that satisfies `StreamAssumption`, any frame
buffer (also an infinite one) with `NULL` not in it, any hosts, and `AckAssumption`
(and for `UdpReceiver` `CreatesAssumption`) on the remaining constants:
type correctness and every invariant that their runs check.  `FrameStreamProofs` has the
lemmas both use: what getting, queueing, releasing and playing a frame does to
`OnePlace`, `FrameWhole` and `FrameOfOnePiece`.

* `UdpReceiver`: the invariant is `TypeOK`, `FramesAccounted`, `FramesWhole` and
  - `StateInv`: `states` is `info` exactly when there is no frame in hand;
  - `SpareInv`: the two subframe counts are equal, or a frame is in hand, or one
    is free.  This is why nothing is copied to NULL: the counts differ without a frame
    only just after a setup packet, which released one, and the next `getNewFrame()`
    gets it;
  - `HandInv`: what was copied to the frame in hand follows its info, up to the last
    packet received;
  - `StepInv`: unless starved, the receiver waits for an info packet exactly when
    the next one of the film is one.
  `AckToCaller` rests on `SocketInv` alone: a socket that works names the host that
  `nSocketNum` does.
* `FpgaReceiver`: the same, without `SpareInv` and never starved (it crashes
  instead), with `BegunInv` (all frames in use began before the next packet
  expected), from which a frame that is queued is younger than all in the queue
  (`QueueInOrder`).

**The TCP server**, for any clients, any finite set of descriptors, any accept
queue of at least one place, any time limit, any messages and number of `send()`s, and
whatever the listener answers: type correctness, all five invariants of the run and the
refinement of `ServerContract`.  The invariant is `TypeOK`, `FdMaxCovers`,
`VisitsAreSound`, `ToldOnce` and

* `ServedInv`: the descriptors that `Run()` still has to look after (those in the map,
  or what the final loop has left of them) are the open connections and the live
  `CTCPConnection`s, one to one.  It is `TablesAgree` from both sides and on to the
  end of the program, which is where `NothingLeft` comes from;
* `ListenInv`: one descriptor at most is the listening one, it is `m_sock`, and it is
  the lowest.  This is why readiness does not go stale: a descriptor closed in a pass
  is given out again only by `accept()`, and the `for` loop is past the listening
  descriptor when it visits a connection;
* `WaitInv`: who waits for `accept()` waits once and has no `CTCPConnection`;
* `SetInv`: while `Run()` is in its loop, `rfds` holds the connections, and the
  listening descriptor as long as there is one (after "shutdown" it may go stale);
* `PassInv`: whatever is still to be visited lies within `fdmax`, which may shrink in
  the middle of a pass.

`FdMaxCovers` is an equation with the largest element of `rfds`, and `accept()` and
`socket()` give out the smallest free descriptor: `MinFact` and `MaxFact` prove from
the library's well-founded induction over finite sets that these exist.
`ContractKept` then takes the server's steps one by one: `served` changes just where
`life` does, each change is one of `Admit`, `Refuse` and `Disconnect`, and `Return`
finds nobody served because of `ServedInv`.

**The select() server** of `sock_select.c`, for any clients, any finite set of
descriptors and any backlog: type correctness, `MasterIsOpen` and `VisitsAreReady`.
They need `OpenInv` (a descriptor belongs to the listener or to one client, and each
has at most one) and `WaitInv` (a waiting client waits once and has no descriptor).

**The first receivers**, from `AckEvery > 1`, `RcvBuf > 0` and `Byte > 1`: type
correctness, `AckRate`, `DrainedCount` and `HeadersRead`.  The invariant counts every ack sent
but not lost as received, waiting or neither (`EchoInv`: `acked = echoed + lost +` acks in
the socket), every packet received as answered or counted (`CountInv`), and says that
at the beginning of a round the last ack is still to come (`RoundInv`), without which
the quotient of `DrainedCount` would be one off.  `HeadersRead` needs `HeaderInv`: the
number of the j-th ack in the socket is j after that of the last one received, or as
many more as acks were lost, and the number set in the next one counts them all; then
one that joins the queue or is lost keeps the order, modulo `SeqMod`.  `NtohlType`
shows that four digits that change places are still a number.

**The loops over memory**, for a memory of any size and every legal call:
`SwapReverses`, `ShiftsReverse`, `StringsRight`, `FileComesFirst`; `NeverIntoString`, by which the reading loop breaks
the promise of its comment for every file; and `InBounds`,
which is stated in `ByteLoopsProofs` and says that the next iteration of each loop reads
and writes only the memory of its arguments.  The invariant has a part for each
function, its loop invariant (`SwapInv`, `LenInv`, `CopyInv`, `ReadInv`), on top of
`CallInv`, what makes the call legal.  `CopyInv` says that the source is unchanged from
the pointer on, although the copy may overlap it: what is overwritten lies behind `p`,
since `dest` is not above `src` or lies behind the end of the string.

**Assumptions.**  Besides the bounds named above, each about a constant that the code
fixes or the system gives, the proofs use that `NULL`, `Free` and `Listener` are no
clients, that descriptors are natural numbers and finitely many, and that a message is
a sequence of `Items`.  TLC evaluates each assumption in a run.

**Only model-checked**: liveness (`MainReturns`, `EndsBlocked`, `HangupNoticed`,
`WaitingAccepted`, `ShutdownEnds`, `Quiesces`), since the prover does not handle
fairness; and the three violations, which are counterexamples.  The `TypeOK` of a
module is proved and no run checks it.

## 5. What the checks found

* An error of `recv()` is -1 in a `size_t` and passes `if (len <= 0)`
  (`tcp_server_error`).
* `c_plus_plus/udpreceiver.cpp` uses header fields after it swapped them in place
  (`udp_content`): length, periodic ack number and content type are other fields.
* The `for` loop of `sock_select.c` ends at the number of ready descriptors
  (`sock_select_all`).
* `toggle-comment.cc` adds the last character of the file twice to the string it reads
  it into, and to that of an empty file one that was never set.  Line 59 says "read file
  into a string" and lines 2-4 "read the whole file into memory".  No run shows it, as
  it takes no search: the theorem `NeverIntoString` proves that the string is never the
  file, whatever the file.

Other oddities are part of the models, but contradict nothing that is written down, so
no run is about them:

* when the pool is exhausted `c_plus_plus/udpreceiver.cpp` goes on without a frame and
  takes the next packet, a data packet, for an info (`starved`; `FrameInStep` claims
  only what is left);
* the acks of `old_udpreceiver.c` go to its own port and are answered in turn; the
  sender never sees one.  With a negative `addr_len` none is ever sent.  It answers
  itself in ever fewer packets, and so stops (`Quiesces`);
* `swap_endian_short2()` loses a byte (`SwapShort2`), of which `ShiftsReverse` claims
  nothing;
* the reading loop of `toggle-comment.cc` never ends after a read error (`ReadFails`);
* with a failed `Create()` the TCP server may abort in `FD_SET()`, and the receiver of
  `fpgas/udpreceiver.cpp` crashes when the pool is exhausted.  Both are states of the
  models, which the properties let pass: `NothingLeft`, `ImplementsContract` and
  `FramesAccounted` say nothing against them.

Two suspicions turned out unfounded.  `thread_job_queue_sem.c` follows the head
without a test, but the semaphore makes it safe (`NoNullDeref`).  The receiver does
not reset `subframe_count` at a setup packet, and if `getNewFrame()` then returned 0
it would copy to NULL; but the frame that the setup packet released is there for that
call (`NeverCopiesToNull`).

## 6. What is left out

* `malloc()` and `pthread_create()` succeed: no path of the code handles their
  failure.
* The contents of messages, apart from the two words `OnData()` compares.
* `FD_SETSIZE`, and descriptors below 3 for the TCP server.
* A setup packet starts the same film again; packets carry no mark of their
  session, and one of another film is not modelled.  Neither are short packets,
  nor the overflow of the packet count.
* The refinement for `sock_select.c`: it promises nobody anything.
* The bytes of an ack other than its number, which are the same in each: one value
  stands for them.
* `thread_specific_data.c`: see 1.3.

## 7. Plan

Done, in this order: `JobPool`, `JobList`, `JobQueue`, `JobQueueSem`,
`JobQueueFlag` with their proofs; `ServerContract`, `TcpServer`; `FrameStream`,
`UdpReceiver`, `FpgaReceiver`; `SockSelect`; `ByteLoops`; `AckLoop` with its proofs;
the proofs of both frame receivers; the refinement by `JobQueueSem`; where the job
lists stop; the proofs of `TcpServer` with its contract, of `SockSelect`, of `ByteLoops` and of `HeadersRead`.

To do, most important first:

1. `TcpServer`: the safety half of `ShutdownEnds` and `WaitingAccepted`: what a
   descriptor that was shut down, or a client that waits, leaves the server to do next.
2. The action properties of the receivers: that a frame leaves the hand only to the
   queue or to the pool, and that `pkt_seq_no` of the acks never goes back.
3. What `starved` costs: bound how long a starved `UdpReceiver` stays out of step.

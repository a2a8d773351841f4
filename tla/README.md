# Verification of C_in_Linux

TLA+ models, model-checking runs and proofs for the programs of this repository
that have behaviour worth verifying: the two pool servers and their file
transfer protocol first, the network servers, chats and exercises after them.
The repository has no documentation and no tests; the only statements about
intended behaviour are its comments, and the code itself is what is modelled.

`func231.h` and `43func.h` are not in the repository. `ERROR_CHECK` is taken to
print the error and `exit(1)`, as the copy in `socket_test/processPool.c` lines
19-23 does and as the committed `web_server/server.o` was compiled.

## Inventory

| Part | State it keeps | Operations | Interaction | What is hard |
|---|---|---|---|---|
| thread-pool server (`socket_pool/threadPool/server`) | task list, mutex, condition, `exitFlag`, `netFd` per thread | accept, enqueue, dequeue, wait, transfer, close, exit, join; SIGUSR1 relay | parent -> child by `exitPipe`; main -> workers by shared memory | unlocked `exitFlag`, lost or spurious wakeups, dangling `pRear`, SIGPIPE, shutdown during transfers |
| process-pool server (`socket_pool/processPool_file/server`) | `status` per worker, messages in the socket pairs | accept and hand over, finish report, exit messages, end of file | descriptors over socket pairs; inherited ends | stale status, batches of events, descriptor leak and the `accept` it makes fail, death of worker or parent |
| file transfer (`transFile.c`, `client.c`, `splice.c`) | position in the byte stream, partial `recvn` | send frames, receive pieces | TCP stream | pieces of any size, end of stream, over-reading, width of `int` |
| echo process pool (`socket_test/processPool.c`) | as the process pool | accept, echo, report | socket pairs | cannot run: `main` takes `argv` as `char*` and gives `argv[3]` to `atoi` |
| web server (`web_server/server.c`) | per-event buffer, open file | edge-triggered accept/read, decode the path in place, answer, directory listing | epoll ET, TCP | a request split over two events, pipelining, partial sends, escapes at every place, errors that end the server (a directory it cannot read, no descriptor left) |
| chat relay (`tcp_chat2`) | array of clients, select set | connect, relay, disconnect | select | array compaction against the set, reuse of descriptors, no descriptor left |
| chat room (`tcp_epoll3`) | array of ten clients | connect, relay | epoll | departures that nobody notices, writing behind the end of the array, SIGPIPE |
| reconnecting chat server (`tcp_epoll2`) | `netFd`, `isConnected`, idle time | connect, replace, time out, read the keyboard | epoll with a timeout | an `accept` that waits, a connection that is overwritten but goes on being reported, timeouts that any event starts anew |
| two-party chat (`tcp_chat1`) and the servers that wait with epoll (`tcp_epoll1/epoll.c`, `epoll_et.c`) | descriptor sets, `flag` | relay between keyboard and peer | select/epoll, level and edge | end of stream, resets, full sockets, missed edges |
| UDP chat (`udp`) | the last sender's address | relay between keyboard and peer | select | does not link: `ARGS_CHECK` and `ERROR_CHECK` are in no header it includes |
| thread exercises (`thread_test`) | bounded buffer, counters, rwlock | produce, consume, read, write | mutex, condition, rwlock | wakeups, termination |
| signal exercises (`signal_test`) | signal mask, handler | block, unblock, handle | signals | pending signals merge |
| descriptor passing, file tools, `imp_*` | files, descriptors | copy, rewrite in place | system calls | short writes, a crash between truncate and write |
| process, IPC, MySQL, build and hello exercises | none that outlives a call | - | - | straight-line programs, not modelled |

What makes each part correct:

* Thread pool: mutual exclusion; the list stays a list; no dequeue from an empty
  queue; no lost wakeup; every accepted connection has exactly one owner and is
  started in order, served once, closed once; shutdown cuts no transfer short
  and ends.
* Process pool: the parent's `status` is what the worker is doing; one job per
  worker; no connection is held twice; only a client that leaves, or one that cannot be
  accepted, can bring a process down; nobody outlives the parent.
* File transfer: a client that completes has the exact file; it completes unless
  something named prevents it.
* Web server: no edge of the edge-triggered socket is lost; a request is
  answered once, in order, and only when it is whole; what is answered is what
  the decoded path names; a patient client is served; what ends the server is known.
* Chat relay: the array of clients is the set of open connections; both
  descriptor sets agree with it; what is said is relayed without gaps.
* Chat room: every connection is in the array once; what is said is relayed
  without gaps and received although departed clients are reported for ever; no
  accepted client alone can end it, but an arrival can.
* Reconnecting chat server: `isConnected` is true of `netFd`; an idle client is
  given up, unless other descriptors keep the server busy; the end of the input
  ends it; a client that connects is accepted however many replaced connections
  are reported.
* Two-party chat, with any of the three servers: nothing is lost or reordered, no
  edge is missed, and the users end the programs.
* Bounded buffer: the ring is a FIFO channel; no wakeup is lost; both threads end.

`PROJECT.json` lists the hazards at their lines, with the properties that would
catch each of them.

## Modules

| Module | Models |
|---|---|
| `TaskFifo` | abstract FIFO queue of descriptors |
| `TaskQueue` | `taskQueue.c`: the linked list in an explicit heap; implements `TaskFifo` |
| `PoolService` | abstract service: submit, start in order, finish |
| `ThreadPool` | `main.c` and `worker.c` of the thread pool, an extension of `TaskQueue`; implements `PoolService` |
| `ThreadPoolProofs` | proofs about `TaskQueue` and `ThreadPool` |
| `ProcessPool` | `main.c`, `worker.c`, `sendFd.c` of the process pool |
| `ProcessPoolProofs` | proofs about `ProcessPool` |
| `FileTransfer` | `transFile.c` of both servers and the `mmap` and `splice` clients |
| `FileTransferProofs` | proofs about `FileTransfer` |
| `WebServer` | `server.c` and `main.c` of the web server |
| `WebServerProofs` | proofs about `WebServer` |
| `Units` | the order of what the chats pass on, for the next five |
| `ChatRelay` | `tcp_chat2/server_reconnect.c` with any number of clients |
| `ChatRelayProofs` | proofs about `ChatRelay` |
| `EpollClients` | any number of clients, and level-triggered epoll, for the next two |
| `ChatRoom` | `tcp_epoll3/server_room.c` |
| `ReconnectServer` | `tcp_epoll2/server_reconnect.c` |
| `EpollServers` | composes the two: the initial state, the next-state relation and the fairness of a server with its clients |
| `EpollServersProofs` | proofs about `EpollServers`, and so about the two |
| `PeerChat` | `tcp_chat1/chat_server.c` and `chat_client.c` with their connection |
| `EpollChat` | `tcp_epoll1/epoll.c` and `epoll_et.c`, the servers of the same client; the specification of all three |
| `EpollChatProofs` | proofs about `EpollChat`, and so about `PeerChat` |
| `BoundedChannel` | abstract FIFO channel of bounded capacity |
| `BoundedBuffer` | `thread_test/cond_lock.c`; implements `BoundedChannel` |
| `BoundedBufferProofs` | proofs about `BoundedBuffer`, with its refinement |
| `MC*` | finite instances of the above for TLC |

### TaskQueue

`pFront`, `pRear`, `size` are the fields of `taskQueue_t`. The heap maps each
address to a node or to `Freed`; `calloc` returns any address not in use, so an
address that `pRear` still points to can come back. `taskEnqueue` and
`taskDequeue` are the two functions, whole; the second has the precondition its
callers must establish.

### ThreadPool

One action per step that another thread can observe. The program counter `wpc`
of a worker names its place in `handleEvent`; `mpc` that of main in its event
loop. The enqueue section (`main.c` 45-53) is one step because everything it
touches is only accessed under the mutex. `exitFlag` is written without the
mutex, so the store, the broadcast and each of the worker's two reads are
separate steps. The data race is modelled by what an x86 build can do:
a broadcast that finds no waiter only reads, so it may be performed before the
store is visible (`BroadcastBeforeStore`, `LateStore`). A worker that was not
created yet cannot be told from one before its first lock, so all start there.
`cond_wait` may return without a signal. A worker in `transFile` finishes,
blocks on a client that does not read (`Stalled`), or ends the process: SIGPIPE
from `sendfile` to a client that left, `exit` when `file1` is missing.

### ProcessPool

The parent's program counter is `parent`. Accept, `sendFd`, `close` and the
update of `status` form one step: only the `sendmsg` in the middle can be
observed, and the death of the worker before it is the death before the step.
A batch of events is a set, handled in any order. `PeerOpen` is the inheritance
of descriptors: worker *v* was forked after worker *w* < *v* and holds the
parent's end of *w*'s socket pair. `accept` may fail at any arrival
(`AcceptFails`): the parent leaks the descriptor of every connection it cannot
hand over, so it may run out of them, and then exits without a word to the
workers. After end of file `exitFlag` is
uninitialized, so the worker either exits at once or dies of SIGPIPE when it
reports.

### FileTransfer

A byte on the wire is a cell that says what it is a byte of; an int is decoded
only from all the bytes of one int, anything else is garbage. `Frames` lists
what the four calls of `transFile` put on the wire. The client takes any number
of bytes at a time. Int width, sizes and limits are scaled down; the order of
the real limits (one `sendfile`, largest int, range of an int) is kept.

### WebServer

One thread handles a batch of events in order; `server` names its place. A
client sends requests cut into pieces at any place, or several at once, and
leaves by closing or by resetting the connection. A request is a method and a
path of character codes; `decodeMsg` is the loop over the buffer it overwrites,
turn by turn, and `Meaning`, the reference, says what the original path means: each
place outside of the escapes (`Outside`) stands for one byte. The edges of the edge-triggered sockets are kept
apart from the data, so that an edge without a `recv` that drains the socket
would be lost for good. `st` is uninitialized when
`stat` fails: either branch is taken. `send` on the non-blocking socket takes
what fits. `Disk` says of each name what it is; what is `lockedFile` or
`lockedDir` is found by `stat` but cannot be read. An `open` that fails makes
`sendfile` fail and leaves a header without contents; a `scandir` that fails,
of a locked directory or because no descriptor is left, leads to the `free` of
an uninitialized list, which may end the server. `fdLimit` is how many
descriptors the process can have for connections and files (`CanOpen`).
`AcceptFails` is the exit when `accept` or `epoll_ctl` fails; `accept` must fail
when no descriptor is left.

### ChatRelay

Descriptors are numbers and the kernel gives out the lowest free one, because
the program's trouble is which number is cleared and which is reused. A unit
that is relayed carries who said it and its number. `orderly` is a history
variable: no client left before a later one. A client that shuts down only one
direction is treated as gone. A client of `Stalled` does not read: when its
socket holds `SockCap` units the one thread waits in `send` (`Blocked`), and
everybody with it. With no descriptor left (`fdLimit`), `accept` returns an
error, and `continue` goes back to `select` without the scan of the array
(`AcceptFails`). The client is still there, so this repeats, nobody is heard
and nothing is closed that would free a descriptor (`Starved`). A `realloc`
that fails leaves a null pointer that the clean-up reads (`ReallocFails`).

### EpollClients, ChatRoom, ReconnectServer, EpollServers

The clients say something or leave, by closing or by a reset; `left` is the
connection as the kernel of the server knows it. Epoll is level-triggered, so a
batch is a subset of what is ready, of the size of `readyArr`, in any order.
`pc` names the place in the loop; `prog`, an element of `Setups`, says which of
the two servers runs, which clients may call it, how long its `readyArr` is and
whether somebody types, and `EpollServers` lets only that server step. In both,
`accept` may fail and end the server; the second `accept` of the reconnecting
server fails unnoticed.
The room asks nobody whether its array has a slot left: the connection after the
last slot is written behind it (`pc` is then `overrun`). That is undefined, so
the model goes no further there. The room never looks at the result of `recv`, so a departed client stays in the
array and is ready in every round. In the reconnecting server `age` counts the
waits that timed out, and `farewell` is the place where an idle client is told
of it, in a `send` that may wait or find the connection reset; the branch that would receive from the client is never
reached, because data from it leads to the `accept` of another branch first.

### PeerChat and EpollChat

Both programs run the same loop, so one module has every action with the program
as parameter. `wire` holds what the kernel has taken and the peer has not
received; `send` hands over one unit at a time and waits while it is full.
`link` is what a program's own end of the connection knows of the peer: closing
with unread data resets it, the first write after the peer closed provokes a
reset, the next raises SIGPIPE. What `puts` shows behind a buffer that `recv`
filled, and that has no terminator, is not recorded; what `strlen` finds behind
one is sent, and is (`Garbage`). `printed` keeps that garbage: a sequence is read
by the `Rank` of its units, how many units that are not garbage stand up to
there, so that the *n*-th of them must be the user's *n*-th (`ReadsUpTo`).

`EpollChat` adds the other two servers. `kind` says which of the three runs.
`epoll.c` handles the rest of a batch after `flag` was cleared, so it may still
send, on a connection that may be reset. `edge` is whether `epoll_wait` may
report the socket: always for a level-triggered one, and once for each arrival
for that of `epoll_et.c`, which therefore drains it. Its client's departure does
not end that server; the end of its own input does, at once.

### BoundedBuffer

The critical sections are one step each, because everything they touch is only
accessed under the mutex. `cond_wait` releases the mutex in the same step, and
may return without a signal. The values written are numbered instead of random.

## Runs

| Run | Configuration | Shows |
|---|---|---|
| `pool` | 2 workers, 2 connections, one of them stalled | the safety invariants, the refinements of the FIFO queue and of the FIFO service, service, shutdown, and the end of the parent |
| `pool_shutdown` | 1 worker | expected violation: the missed broadcast |
| `procpool` | 2 workers, 3 connections, one stalled, any `accept` may fail | bookkeeping, ownership and robustness; service, shutdown, orphans |
| `procpool_handover` | 1 worker, 2 connections | expected violation: the leaked connection |
| `transfer` | ints of 4 bits, sizes around every limit | integrity, explained hangs, completion |
| `web` | two clients, one of them slow, requests of every kind, for locked files and directories too, with escapes at every place, cut and pipelined; one descriptor or three | no edge lost, whole requests answered in order with what their decoded paths name, every end of the server explained; a patient client is served, leavers are closed |
| `web_missing` | one request for a file that is not there | expected violation: a second header after the 404 page |
| `relay` | three clients that arrive, speak and leave in any order, one that does not read; descriptors for two or for all | array, sets and connections agree; relayed without gaps, heard in the end |
| `relay_reconnect` | one client leaves before a later one | expected violation: the server stops |
| `epoll_servers` | room: 3 clients, 2 slots, one client that does not read; reconnect: 2 clients, one that does not read, a user and batches of 2; reconnect: 3 clients, no user, batches of 1; one idle wait | array and connections agree, relayed without gaps, heard; idle clients given up, the ends explained, the backlog accepted |
| `peer_chat` | each of the 3 servers, 3 units a user, buffers and connection of 2 | nothing lost, no edge missed, the right programs end, stuck only together |
| `bounded_buffer` | the sizes of the code, 5 and 20 | the ring is a FIFO channel and both threads end |

Bounds. Each connection connects once. Two workers race for a task, and show
that the broadcast misses one but not two; two connections let one task wait
behind another, and one that stalls keeps a worker busy for ever. The safety
invariants of the thread pool are proved for any number of each, so the run need
not be larger than what its liveness takes. In the process pool a second worker
is what inherits descriptors, and a third connection is one that finds nobody
FREE. The runs do not use symmetry, because they check liveness, too. Deadlock checking is off for the pools, the transfer, the chats
and the buffer because they terminate, and for the web server because it
waits for clients for ever. In
`peer_chat` three units against a connection of two are what it takes to fill
both directions, and buffers of two leave `epoll_et.c` room for one, so a drain
takes several rounds. `bounded_buffer` needs no scaling.

In `epoll_servers` two slots stand for the ten of the array (`MaxConn`), so the
third client overruns it; `SockCap` is what a client that does not read holds;
`Limit` scales the idle limit in waits. `Setups` has the reconnecting server
twice: with two clients and a user, where a batch of two is cut of up to four
ready descriptors; and with three clients and batches of one, where one client
waits to be accepted while a connection that was replaced is reported in every
round. Together they are what the run can take in its time.
`FdLimits` bounds the descriptors from below: in `relay` two connections leave
the third client without one, in `web` the first connection leaves none for its
own file and none for the second client; three are enough for everybody. In
`web`, `Disk` is what the paths can name and `Urls` the paths asked for: with a
broken escape, one at the end, one that yields a percent sign or a zero, and
both cases of the digits.

Types. `TypeOK` is part of the invariant that relies on it (`PoolIntact`,
`ReceivesAll`, `ArrayIntact`, `Intact`, `CompletionImpliesIntegrity`,
`RoomIntact`, `ReconnectIntact`). `TypeOK`, `MutexInv` and `PrintedInOrder` of
`TaskQueue`, `ThreadPool` and `BoundedBuffer` are proved for every instance and
no run repeats them.

Fairness. Every process and thread keeps running (weak fairness of its steps),
and a thread that competes for the mutex is eventually served (strong fairness
of `Lock` and `EnqueueTask`), as the scheduler and the mutex of glibc provide.
A server that waits in `epoll_wait` with a timeout is woken by it, because time
passes. The kernel keeps the ready descriptors of an epoll instance in a list,
reports them from its front and puts those that stay ready at its end; so the
listening socket and the keyboard of the reconnecting server, when they stay
ready, are in some later batch however many others are ready (`InTurn`). No
call is assumed to fail, and none is assumed to succeed, except where a
descriptor limit decides. Nothing is assumed of clients, users, signals, spurious wakeups or kills.

The liveness properties of `web`, `relay` and `epoll_servers` have the form
`[]<>(P => Q)` although they say that `P` leads to `Q`. In each, `P` stays true
once it is, until `Q` is (a client that wants an answer goes on wanting it, what
was said stays said, nobody times out after the end of the input), or `Q` is that
`P` ends (nobody is in the backlog for ever), so the two forms mean the same, and
TLC checks this one with far less work. `LeaversClosed` says it of all clients at
once: there is a finite number of them, and what is closed stays closed.

## Findings

* `pool_shutdown`: `exitFlag` and the broadcast at `threadPool/server/main.c`
  60-61 are not under the mutex; a worker between its test and `cond_wait`
  sleeps through the shutdown and both processes stay for ever, against the
  comment at line 17.
* `web_missing`: `web_server/server.c` 220-235 does not return after the 404 page
  and sends a second header, against the comment at line 217.
* `relay_reconnect`: `tcp_chat2/server_reconnect.c` 123-124 compacts the array
  before it clears `netFdArr[i]` from the set, so a closed descriptor stays in
  it, the next `select` fails and the server ends, against the comment at line 27.
* `procpool_handover`: `processPool_file/server/main.c` 46-57 accepts before it
  knows that a worker is FREE; otherwise the connection is neither handed over
  (comment at line 48) nor closed.

Other facts the models show without a statement in the repository to hold them
against: `splice.c` can take the last frame for contents and then spins; a client
spins for ever when the server dies; a file of 2 GiB or more is truncated by the
conversion to `int`; a web client that reads slowly gets a file with a gap,
because `send` on its non-blocking socket is not repeated (`server.c` 261; only
clients outside `Slow` are free of gaps in `AnswersRequested`); the two programs
of a chat wait for each other for ever when both send while the connection is
full (`StuckTogether` is reachable); the chat room writes behind its array when
an eleventh connection arrives, even if the first ten have left (`RoomAccept`
ends in `overrun`, and `RoomStopExplained` says when); a request for a directory
that cannot be read, or for any directory while no descriptor is left, may end
the web server (`ExitExplained`); a chat relay without a descriptor for one more
client hears nobody any more (`Starved`); a user who goes on typing, or a replaced
connection that can be read, keeps an idle client connected to the reconnecting
server for ever (the exception of `IdleTimesOut`);
the reconnecting server never receives, and data from its client makes it wait
in `accept` for another one, as the end of its input with nobody connected keeps
new clients out, also when the input ends while an idle client is being given up.

## Proofs

`ThreadPoolProofs` proves first, for any heap and any descriptors, that `taskEnqueue`
and `taskDequeue` preserve `QueueTypeOK /\ WellFormed`. `WellFormed` says that there
is a sequence of distinct addresses, exactly the allocated ones, linked in
order from `pFront` to `pRear`; the proofs exhibit the sequence after the step.

Then it proves for any finite set of workers, any connections and any heap: `TypeOK`, `MutexInv`, `WellFormed`, `DequeueSafe` and
`AtMostOneMissed` from one inductive invariant `IInv`, and on top of it
`OneOwner`, `GracefulDrain` and `WorkConserving`. `IInv` adds to the checked
invariants what they need to be inductive: what a worker knows of the queue at
each place of the critical section (`QueueKnown`: nobody else changes it while
the mutex is held), that descriptor variables hold a connection where they are
used (`FdsHeld`), and that once the flag is visible nobody starts to wait, so
that only the worker already on its way to wait is missed (`ExitSeen`).
`WorkConserving` counts: a signal turns one sleeper into one awake worker for
one more task, a worker that takes a task takes one away from both sides, and a
worker goes to sleep only when the queue is empty.

`QueueIsFifo`, `PoolKeepsFifo` and `PoolIsService` are the refinements of `TaskFifo`
and `PoolService`, with `Contents` as the abstract queue. `Contents` reads the heap
along `Nodes`, a recursive function, so the proofs first show that any list
`WellFormed` tells of is `Nodes` (`NodesAreList`): two lists would differ at a least
place, which is not the first, and the place before it has one `next`. That
uses that a set of naturals has a least element instead of an induction. Then
`EnqueueAppends` and `DequeueDropsFirst` say what the operations do to `Contents`,
and `OneOwner` gives the abstract service its preconditions: what main submits is
not yet submitted, and what a worker finishes is in service with it alone.

`BoundedBufferProofs` proves for any size of the ring and any number of values:
`TypeOK`, `MutexInv`, `RingIntact`, `PrintedInOrder`, `SleepersHaveReason`, and
that `Spec` implements the safety part of `BoundedChannel` (`ChannelSafety`). The
arithmetic of the index is in three lemmas (`Wrap`, `WrapDistinct`,
`WrapAfter`); `IInv` adds only that a thread that is not done has a round left,
which bounds the counters. For the refinement, `QueueIsRun` turns the queue into
a run of consecutive numbers, which a write extends and a read shortens.

`ProcessPoolProofs` proves for any number of workers and any connections:
`PoolIntact` and `StaysUp`. The socket pairs are what makes `PoolIntact` not
inductive: `JobsInOrder` says that at most one connection and behind it one exit
message are on their way to a worker, `LoadIsStatus` that what is on its way to a
worker, what it works on and what it has reported add up to what `status` says
of it, `Owned` that a connection is at one place, `FdsHeld` that `netFd` of a
worker names one where it is used, and `EventsTrue` that a worker in the batch
has something to be read. From `LoadIsStatus` follows that a `read` of the parent
never waits and a report is one for a BUSY worker. `StaysUp` needs, besides,
why each process that is gone is gone (`ParentExits`: after a shutdown, or when
a connection arrived that could not be accepted).

`FileTransferProofs` proves for every width of the int, every size of the file,
every limit of the system calls and every way the stream is cut:
`CompletionImpliesIntegrity` and `HangsExplained`. Both follow from `StreamInv`:
the cells in the file, in the buffer of a `recv` that is not complete, and on
the wire are consecutive pieces of the one stream that the frames of `transFile`
make up (`CellOf` is its *i*-th cell), and every place of a client's loop knows
its position in it. So an int is decoded from the bytes of one int wherever the
client looks for one, and a client that completes has taken exactly the
contents.

`WebServerProofs` proves for any clients and requests, any disk, any sizes of the
file, its chunks, the buffers and the directory: `ReceivesAll` and
`AnswersRequested`. The inductive invariant `IInv` relates what a client was
sent, the calls `parseRequestLine` has still to make (`todo`) and the request
they answer. `Rank` gives each unit its place in an answer, so that an answer is
a sequence of calls of rising places (`Answer`), made of pieces that may follow
anything; `Past` says that what was sent answers earlier requests in their order,
and `Replying` that what is to be sent continues it. A file without a gap is one
in which each unit may be sent behind the one before (`Starts`, `Continues`); a
client that reads in time keeps that through `SendTakes` because it takes whole
calls. `BufInv` says which cells of the stream `buf` holds, so that its first
line is a request that has arrived in this event. `AnswersMeant` and
`ExitExplained` follow from the same invariant, from what the calls that are
left to do are for (`SeenKind` is what the server finds under a name, which for
a directory is a locked one when no descriptor is left; the answer to a file it
finds has no call whose error ends the server), from
`Handled` (who is being answered has an open connection), and from
`DecodingIsMeaning`:
`decodeMsg` leaves the meaning of the path in the buffer, for every path. Its
loop has an invariant (`InLoop`): the place it writes to is never past the one
it reads from, so from there on the buffer is still the path; the turns begin at
the places outside of the escapes; and the bytes written are the meaning of what was
read. That the invariant holds after every turn, and that the recursive function
`DecodeLoop` exists at all, would be inductions; both argue with a least
counterexample instead (`RunExists`, `RunIsInLoop`). TLC tries the same equation for
every string of up to five of seven characters (`DecodesUrls`). The paths are not
empty and hold no zero, as in any request line `sscanf` reads one from.

`ChatRelayProofs` proves for any clients, any capacity and any buffer:
`ArrayIntact`, `StopExplained` and `RelayIntact`. It also holds for any limit on the
descriptors. For the array, two descriptors
never lead to the same client (`OwnersDiffer`), so a client without one leaves a
descriptor and a slot free (`RoomForOneMore`, by counting), and nothing is
accepted or disconnected while a relay is under way (`RelayInArray`). A crash
needs an array that is full and a client that has arrived (`ArrayRefuses`,
`ArrivalReal`): who arrived stays until it is accepted (`ArrivalKept`). For the
relay, what a client has got of another one ends at what was received, or at the
unit before for clients behind the place of the loop.

`EpollServersProofs` proves for any setups, so for any clients and users, any
length of the array and any batch: `RoomIntact`, `RoomStopExplained` and `ReconnectIntact`. The room
is the relay again, over an array that only grows, one place beyond its end at
most, and with a reset found in the middle of it. For the reconnecting server, `Connection` says what `isConnected`,
`netFd` and the connections of the clients have to do with each other at every
place of the loop, and `TypedOnce` that what was typed went to somebody once and
in order.

`EpollChatProofs` proves for any length of text, any buffer, any connection and
each of the three servers: `Intact`. What a program has shown and what is on its
way reads as what the other one has read from its user (`InStep`), and while both
live that with what a `send` holds is all of it; a connection that is not up
tells of a program that is gone (`LinksTrue`), which is why losses come only
then; and a server that does not look at its socket and is told of arrivals once
has an edge for what is unread, or has it in the batch (`EdgeKept`). The lemmas
about `Rank` do without induction: garbage is skipped, and a run of text adds its
length.

The proofs assume only the named assumptions of the constants: the special
values differ from the data, sizes are positive, and the sets of workers and of
clients are finite.

Only model-checked: liveness, which is out of reach of the prover. Every other
property of a passing run is a theorem (of `ImplementsChannel` the safety part).

## Plan

Done: the two pools and their protocol, the web server with its decoding, the
chat relay, the chat room, the reconnecting server, the chat client with its
three servers, the bounded buffer. Next, in this order:

1. Small exercises: `RwLock`, `SignalMask` (pending signals merge while blocked),
   `FileTools` (`remove_char.c`: a crash between truncation and writing; the copy
   loop), `FdPassing`.

## Not modelled

Formatting and logging, errors of socket set-up calls that end a program before
it serves anybody, the MySQL, build-system, `hello` and directory-listing
exercises, HTML and image assets, the table of MIME types. Of the servers: a lack of
memory (except in the one `realloc` of the chat relay), signals they have no handler
for, names longer than the buffers they are put in, and what the chat room does
after it has written behind its array. `socket_test/processPool.c`
cannot run and the UDP chat does not link (see the inventory). `web-http/pub.c` is
not built: `pub.h` is not in the repository, and `server.c` has its own copies of
what it holds.

----------------------------- MODULE ThreadPool -----------------------------
(***************************************************************************)
(* The thread-pool file server (socket_pool/threadPool/server): a parent   *)
(* process that only relays SIGUSR1 through exitPipe, and a child process  *)
(* whose main thread accepts connections and queues them as tasks for a    *)
(* fixed set of worker threads.                                            *)
(*                                                                         *)
(* Main and workers share the task queue under a mutex with one condition  *)
(* variable; exitFlag is shared WITHOUT the mutex on main's side, so every *)
(* access to it is a step of its own.                                      *)
(***************************************************************************)
EXTENDS TaskQueue

CONSTANTS
  Workers,     (* the worker threads, argv[3] of them                      *)
  Stalled,     (* connections whose client never reads: send() blocks      *)
  FileExists,  (* whether "file1" can be opened                            *)
  NoThread,    (* owner of a free mutex                                    *)
  NoFd         (* a netFd variable that holds no open descriptor           *)

VARIABLES
  mutex,       (* the holder of taskQueue.mutex, or NoThread               *)
  exitFlag,    (* threadPool.exitFlag                                      *)
  wpc,         (* where each worker is in handleEvent                      *)
  netFd,       (* each worker's local netFd                                *)
  mpc,         (* where the main thread of the child is                    *)
  ready,       (* events of readyArr main has not handled yet              *)
  mainFd,      (* main's local netFd between accept and taskEnqueue        *)
  conn,        (* each connection, as the server sees it                   *)
  gone,        (* connections whose client has disconnected                *)
  pipe,        (* whether exitPipe holds a byte (it is never read)         *)
  parent,      (* the parent process                                       *)
  child        (* the child process                                        *)

procVars == <<pipe, parent, child>>
connVars == <<conn, gone>>
mainVars == <<mpc, ready, mainFd>>
vars == <<queueVars, mutex, exitFlag, wpc, netFd, mainVars, connVars, procVars>>

(* Where a worker is: before the lock of line 14; holding the mutex before *)
(* the test of line 16, the cond_wait of 17, the test of 20, the dequeue   *)
(* of 27; blocked in cond_wait; woken and waiting for the mutex; in        *)
(* transFile; before the close of 33; terminated.                          *)
WorkerStates == {"free", "check", "towait", "testExit", "take",
                 "waiting", "relock", "serve", "close", "dead"}
Critical == {"check", "towait", "testExit", "take"}
InService == {"serve", "close"}
MainStates == {"epoll", "dispatch", "enqueue", "broadcast", "join",
               "lateStore", "joinRaced", "exited"}

ASSUME ThreadPoolAssumption ==
  /\ IsFiniteSet(Workers) /\ Workers # {}
  /\ NoThread \notin Workers
  /\ NoFd \notin Conns
  /\ Stalled \subseteq Conns
  /\ FileExists \in BOOLEAN

TypeOK ==
  /\ QueueTypeOK
  /\ mutex \in Workers \cup {NoThread}
  /\ exitFlag \in {0, 1}
  /\ wpc \in [Workers -> WorkerStates]
  /\ netFd \in [Workers -> Conns \cup {NoFd}]
  /\ mpc \in MainStates
  /\ ready \subseteq {"sock", "exit"}
  /\ mainFd \in Conns \cup {NoFd}
  /\ conn \in [Conns -> {"idle", "backlog", "open", "closed"}]
  /\ gone \subseteq Conns
  /\ pipe \in BOOLEAN
  /\ parent \in {"starting", "waiting", "exited", "killed"}
  /\ child \in {"running", "exited", "killed"}

(* main up to the event loop: the pool initialised, its threads created.   *)
(* A thread that is not created yet and one that has not reached its first *)
(* lock cannot be told apart, so all of them start at "free".              *)
Init ==
  /\ QueueInit
  /\ mutex = NoThread
  /\ exitFlag = 0
  /\ wpc = [w \in Workers |-> "free"]
  /\ netFd = [w \in Workers |-> NoFd]
  /\ mpc = "epoll"
  /\ ready = {}
  /\ mainFd = NoFd
  /\ conn = [c \in Conns |-> "idle"]
  /\ gone = {}
  /\ pipe = FALSE
  /\ parent = "starting"
  /\ child = "running"

Running == child = "running"
At(w, from) == Running /\ wpc[w] = from
Goto(w, to) == wpc' = [wpc EXCEPT ![w] = to]

-----------------------------------------------------------------------------
(* The clients and whoever sends SIGUSR1.                                  *)

Connect(c) ==
  /\ Running /\ conn[c] = "idle"
  /\ conn' = [conn EXCEPT ![c] = "backlog"]
  /\ UNCHANGED <<queueVars, mutex, exitFlag, wpc, netFd, mainVars, gone, procVars>>

Disconnect(c) ==
  /\ conn[c] \in {"backlog", "open"} /\ c \notin gone
  /\ gone' = gone \cup {c}
  /\ UNCHANGED <<queueVars, mutex, exitFlag, wpc, netFd, mainVars, conn, procVars>>

(* SIGUSR1 at the parent.  Before signal() it kills the parent; after it,  *)
(* sigFunc writes one byte to exitPipe, which kills the parent by SIGPIPE  *)
(* if the child, the only reader, is gone already.                         *)
sigFunc ==
  /\ \/ parent = "starting" /\ parent' = "killed" /\ UNCHANGED pipe
     \/ parent = "waiting" /\ Running /\ pipe' = TRUE /\ UNCHANGED parent
     \/ parent = "waiting" /\ ~Running /\ parent' = "killed" /\ UNCHANGED pipe
  /\ UNCHANGED <<queueVars, mutex, exitFlag, wpc, netFd, mainVars, connVars, child>>

-----------------------------------------------------------------------------
(* The parent process: signal(), then wait(NULL) for the child.            *)

RegisterHandler ==
  /\ parent = "starting"
  /\ parent' = "waiting"
  /\ UNCHANGED <<queueVars, mutex, exitFlag, wpc, netFd, mainVars, connVars, pipe, child>>

(* Mutant: the parent waits on until the child has exited by itself. *)
WaitChildExitedOnly ==
  /\ parent = "waiting" /\ child = "exited"
  /\ parent' = "exited"
  /\ UNCHANGED <<queueVars, mutex, exitFlag, wpc, netFd, mainVars, connVars, pipe, child>>

(* wait(NULL) returns when the child has ended, exited or killed. *)
WaitChild ==
  /\ parent = "waiting" /\ ~Running
  /\ parent' = "exited"
  /\ UNCHANGED <<queueVars, mutex, exitFlag, wpc, netFd, mainVars, connVars, pipe, child>>

-----------------------------------------------------------------------------
(* The main thread of the child.                                           *)

(* exitPipe[0] is readable when it holds a byte, or at end of file once    *)
(* the parent, the only writer after line 24, is gone.                     *)
ExitPipeReady == pipe \/ parent \in {"exited", "killed"}

SockReady == \E c \in Conns : conn[c] = "backlog"
ReadyEvents == {e \in {"sock", "exit"} : \/ e = "sock" /\ SockReady
                                         \/ e = "exit" /\ ExitPipeReady}

(* epoll_wait blocks until something is ready; readyArr has room for both  *)
(* descriptors.                                                            *)
EpollWait ==
  /\ Running /\ mpc = "epoll"
  /\ ReadyEvents # {}
  /\ ready' = ReadyEvents
  /\ mpc' = "dispatch"
  /\ UNCHANGED <<queueVars, mutex, exitFlag, wpc, netFd, mainFd, connVars, procVars>>

(* The batch is handled in an arbitrary order, so it is kept as a set. *)
NextEvent(rest) == IF rest = {} THEN "epoll" ELSE "dispatch"

Accept ==
  /\ Running /\ mpc = "dispatch" /\ "sock" \in ready
  /\ ready' = ready \ {"sock"}
  /\ \E c \in Conns :
       /\ conn[c] = "backlog"
       /\ conn' = [conn EXCEPT ![c] = "open"]
       /\ mainFd' = c
  /\ mpc' = "enqueue"
  /\ UNCHANGED <<queueVars, mutex, exitFlag, wpc, netFd, gone, procVars>>

Waiting == {w \in Workers : wpc[w] = "waiting"}

(* Mutant: nobody is woken when a task is queued. *)
SignalNobody == UNCHANGED wpc
(* pthread_cond_signal: wake one waiter, if there is one. *)
SignalOne ==
  \/ Waiting = {} /\ UNCHANGED wpc
  \/ \E w \in Waiting : Goto(w, "relock")

(* pthread_mutex_lock succeeds only on a free mutex. *)
MutexFree == mutex = NoThread

(* Lines 46-53, one critical section: lock, taskEnqueue, signal, unlock.   *)
(* Nothing it touches is accessed outside the mutex, so it is one step.    *)
EnqueueTask ==
  /\ Running /\ mpc = "enqueue"
  /\ MutexFree
  /\ taskEnqueue(mainFd)
  /\ SignalOne
  /\ mainFd' = NoFd
  /\ mpc' = NextEvent(ready)
  /\ UNCHANGED <<mutex, exitFlag, netFd, ready, connVars, procVars>>

(* Line 60: exitFlag is set without the mutex. *)
SetExitFlag ==
  /\ Running /\ mpc = "dispatch" /\ "exit" \in ready
  /\ exitFlag' = 1
  /\ mpc' = "broadcast"
  /\ UNCHANGED <<queueVars, mutex, wpc, netFd, ready, mainFd, connVars, procVars>>

(* pthread_cond_broadcast: wake every thread that is waiting now. *)
SignalAll == wpc' = [w \in Workers |-> IF w \in Waiting THEN "relock" ELSE wpc[w]]

(* Line 61: the broadcast is not under the mutex either. *)
Broadcast ==
  /\ Running /\ mpc = "broadcast"
  /\ SignalAll
  /\ mpc' = "join"
  /\ UNCHANGED <<queueVars, mutex, exitFlag, netFd, ready, mainFd, connVars, procVars>>

(* The data race on exitFlag: a broadcast that finds no waiter is a plain  *)
(* read, which the processor may do while the store of line 60 still sits  *)
(* in its store buffer.  The store becomes visible some time later.        *)
BroadcastBeforeStore ==
  /\ Running /\ mpc = "dispatch" /\ "exit" \in ready
  /\ Waiting = {}
  /\ mpc' = "lateStore"
  /\ UNCHANGED <<queueVars, mutex, exitFlag, wpc, netFd, ready, mainFd, connVars, procVars>>

LateStore ==
  /\ Running /\ mpc = "lateStore"
  /\ exitFlag' = 1
  /\ mpc' = "joinRaced"
  /\ UNCHANGED <<queueVars, mutex, wpc, netFd, ready, mainFd, connVars, procVars>>

(* Mutant: main exits without joining the workers. *)
JoinNobody == TRUE
(* pthread_join on every worker in turn returns once all are terminated. *)
AllJoined == \A w \in Workers : wpc[w] = "dead"

(* Lines 62-65: main joins every worker, then ends as the last thread, and *)
(* with it the process.                                                    *)
Join ==
  /\ Running /\ mpc \in {"join", "joinRaced"}
  /\ AllJoined
  /\ mpc' = "exited"
  /\ child' = "exited"
  /\ UNCHANGED <<queueVars, mutex, exitFlag, wpc, netFd, ready, mainFd, connVars, pipe, parent>>

-----------------------------------------------------------------------------
(* A worker thread: handleEvent.                                           *)

(* Mutant: the wait is an if, not a while: a woken thread goes on to take  *)
(* a task without looking at the queue again.                              *)
AfterLockNoRecheck(w) == IF wpc[w] = "relock" THEN "testExit" ELSE "check"
(* The loop of line 16 tests the queue however the mutex was acquired. *)
AfterLock(w) == "check"

(* Line 14, and the end of cond_wait in line 17. *)
Lock(w) ==
  /\ Running /\ wpc[w] \in {"free", "relock"}
  /\ MutexFree
  /\ mutex' = w
  /\ Goto(w, AfterLock(w))
  /\ UNCHANGED <<queueVars, exitFlag, netFd, mainVars, connVars, procVars>>

(* The loop condition of line 16. *)
CheckEmpty(w) ==
  /\ At(w, "check")
  /\ \/ size = 0 /\ exitFlag = 0 /\ Goto(w, "towait")
     \/ ~(size = 0 /\ exitFlag = 0) /\ Goto(w, "testExit")
  /\ UNCHANGED <<queueVars, mutex, exitFlag, netFd, mainVars, connVars, procVars>>

(* Line 17: cond_wait releases the mutex and starts waiting in one step. *)
CondWait(w) ==
  /\ At(w, "towait")
  /\ mutex' = NoThread
  /\ Goto(w, "waiting")
  /\ UNCHANGED <<queueVars, exitFlag, netFd, mainVars, connVars, procVars>>

(* POSIX lets cond_wait return although nobody signalled. *)
SpuriousWakeup(w) ==
  /\ At(w, "waiting")
  /\ Goto(w, "relock")
  /\ UNCHANGED <<queueVars, mutex, exitFlag, netFd, mainVars, connVars, procVars>>

(* cleanFunc, run by pthread_exit and by pthread_cleanup_pop(1). *)
cleanFunc == NoThread

(* Lines 20-23: pthread_exit runs cleanFunc, which unlocks the mutex. *)
TestExit(w) ==
  /\ At(w, "testExit")
  /\ \/ exitFlag # 0 /\ Goto(w, "dead") /\ mutex' = cleanFunc
     \/ exitFlag = 0 /\ Goto(w, "take") /\ UNCHANGED mutex
  /\ UNCHANGED <<queueVars, exitFlag, netFd, mainVars, connVars, procVars>>

(* Mutant: the descriptor is read, the task stays in the queue. *)
TakeTaskNoDequeue(w) ==
  /\ At(w, "take")
  /\ netFd' = [netFd EXCEPT ![w] = heap[pFront].netFd]
  /\ mutex' = cleanFunc
  /\ Goto(w, "serve")
  /\ UNCHANGED <<queueVars, exitFlag, mainVars, connVars, procVars>>

(* Lines 27-29: copy the descriptor of the first task, unlink the task,    *)
(* unlock by cleanFunc.                                                    *)
TakeTask(w) ==
  /\ At(w, "take")
  /\ netFd' = [netFd EXCEPT ![w] = heap[pFront].netFd]
  /\ taskDequeue
  /\ mutex' = cleanFunc
  /\ Goto(w, "serve")
  /\ UNCHANGED <<exitFlag, mainVars, connVars, procVars>>

(* Line 31: transFile returns.  It blocks in send() while the client does  *)
(* not read, and every send to a client that is gone is ignored.           *)
TransFile(w) ==
  /\ At(w, "serve") /\ FileExists
  /\ netFd[w] \in Stalled => netFd[w] \in gone
  /\ Goto(w, "close")
  /\ UNCHANGED <<queueVars, mutex, exitFlag, netFd, mainVars, connVars, procVars>>

(* What ends the process, every thread of it, inside transFile: sendfile   *)
(* to a client that is gone raises SIGPIPE (only send is given             *)
(* MSG_NOSIGNAL), and ERROR_CHECK exits when file1 cannot be opened.       *)
Fatal(c) == c \in gone \/ ~FileExists

TransFileFatal(w) ==
  /\ At(w, "serve") /\ Fatal(netFd[w])
  /\ child' = "killed"
  /\ UNCHANGED <<queueVars, mutex, exitFlag, wpc, netFd, mainVars, connVars, pipe, parent>>

(* Line 33, and back to line 13. *)
Close(w) ==
  /\ At(w, "close")
  /\ conn' = [conn EXCEPT ![netFd[w]] = "closed"]
  /\ netFd' = [netFd EXCEPT ![w] = NoFd]
  /\ Goto(w, "free")
  /\ UNCHANGED <<queueVars, mutex, exitFlag, mainVars, gone, procVars>>

-----------------------------------------------------------------------------
Client == \E c \in Conns : Connect(c) \/ Disconnect(c)
Parent == RegisterHandler \/ WaitChild
Main == EpollWait \/ Accept \/ EnqueueTask \/ SetExitFlag \/ Broadcast
          \/ BroadcastBeforeStore \/ LateStore \/ Join
handleEvent(w) ==
  \/ Lock(w) \/ CheckEmpty(w) \/ CondWait(w) \/ SpuriousWakeup(w)
  \/ TestExit(w) \/ TakeTask(w) \/ TransFile(w) \/ TransFileFatal(w) \/ Close(w)

Next == Client \/ sigFunc \/ Parent \/ Main \/ \E w \in Workers : handleEvent(w)

(* Every thread and process keeps running; a thread that competes for the  *)
(* mutex is not starved by the others for ever.  Nothing is assumed of the *)
(* clients, of signals, or of spurious wakeups.                            *)
Fairness ==
  /\ WF_vars(Parent)
  /\ WF_vars(EpollWait) /\ WF_vars(Accept) /\ SF_vars(EnqueueTask)
  /\ WF_vars(SetExitFlag) /\ WF_vars(Broadcast) /\ WF_vars(LateStore)
  /\ WF_vars(Join)
  /\ \A w \in Workers :
       /\ SF_vars(Lock(w)) /\ WF_vars(CheckEmpty(w)) /\ WF_vars(CondWait(w))
       /\ WF_vars(TestExit(w)) /\ WF_vars(TakeTask(w))
       /\ WF_vars(TransFile(w) \/ TransFileFatal(w)) /\ WF_vars(Close(w))

Spec == Init /\ [][Next]_vars
FairSpec == Spec /\ Fairness

-----------------------------------------------------------------------------
(* Safety.                                                                 *)

(* The mutex is held exactly by the worker inside the critical section of  *)
(* handleEvent, whichever way it leaves it: by waiting, by pthread_exit or *)
(* by pthread_cleanup_pop (worker.c lines 14-29).                          *)
MutexInv == \A w \in Workers : wpc[w] \in Critical <=> mutex = w

(* A worker that is about to take a task finds one, although it may have   *)
(* been woken spuriously or have lost the task it was signalled for to a   *)
(* thread that locked first: taskDequeue itself tests nothing              *)
(* (worker.c lines 16-28).                                                 *)
DequeueSafe == \A w \in Workers : wpc[w] = "take" => size > 0

(* Threads that are on their way to the test of line 16 or past it. *)
Awake == {w \in Workers : wpc[w] \in {"free", "relock", "check", "testExit", "take"}}

(* No wakeup for a task is lost: while a thread is blocked in cond_wait,   *)
(* there is an awake thread for each queued task (main.c lines 46-53, one  *)
(* signal per task, against worker.c lines 16-17).                         *)
WorkConserving ==
  exitFlag = 0 /\ Waiting # {} => size <= Cardinality(Awake)

(* Where an accepted descriptor can be. *)
InMain(c) == mpc = "enqueue" /\ mainFd = c
InQueue(c) == \E a \in Live : heap[a].netFd = c
Serving(w, c) == wpc[w] \in InService /\ netFd[w] = c

(* Every accepted connection is in exactly one place: with main, in one    *)
(* task, or with one worker.  So none is forgotten, served twice or closed *)
(* twice (main.c line 44 to worker.c line 33).                             *)
OneOwner ==
  \A c \in Conns :
    /\ conn[c] = "open" <=> InMain(c) \/ InQueue(c) \/ \E w \in Workers : Serving(w, c)
    /\ ~(InMain(c) /\ InQueue(c))
    /\ \A a, b \in Live : heap[a].netFd = c /\ heap[b].netFd = c => a = b
    /\ \A w \in Workers :
         Serving(w, c) => /\ ~InMain(c) /\ ~InQueue(c)
                          /\ \A v \in Workers : Serving(v, c) => v = w

(* The regular shutdown cuts no transfer short: when the process exits     *)
(* through the joins, no worker and not main holds a connection (main.c    *)
(* lines 60-65).  Connections still queued are abandoned, though.          *)
GracefulDrain ==
  child = "exited" => \A c \in Conns : conn[c] = "open" => InQueue(c)

(* A broadcast after exitFlag became visible misses at most one worker,    *)
(* the one that was between the test of line 16 and cond_wait in line 17;  *)
(* only a broadcast that overtakes the store can miss more (main.c lines   *)
(* 60-61, neither of them under the mutex).                                *)
AtMostOneMissed ==
  mpc = "join" => \A v, w \in Waiting : v = w

(* The pool as a service: FIFO start, one worker per connection, closed    *)
(* once and only after service.                                            *)
Service == INSTANCE PoolService WITH
  queue   <- Contents,
  serving <- {netFd[w] : w \in {v \in Workers : wpc[v] \in InService}},
  closed  <- {c \in Conns : conn[c] = "closed"}
ImplementsService == Service!Spec

-----------------------------------------------------------------------------
(* Liveness.                                                               *)

(* A client that connects and reads gets served and closed, unless the     *)
(* pool is shut down or dies; clients that stall cannot prevent it as long *)
(* as they are fewer than the workers.                                     *)
ConnectionServed ==
  \A c \in Conns \ Stalled :
    conn[c] \in {"backlog", "open"} ~> conn[c] = "closed" \/ exitFlag = 1 \/ ~Running

ExitRequested == pipe \/ parent = "killed"

(* What can keep the joins of main from returning. *)
MissedBroadcast == mpc \in {"join", "joinRaced"} /\ Waiting # {}
BlockedOnClient == \E w \in Workers : wpc[w] = "serve" /\ netFd[w] \in Stalled

(* A shutdown request, by SIGUSR1 or by the death of the parent, and any   *)
(* other end of the child, by SIGPIPE or a missing file, ends both         *)
(* processes, except that a worker blocked on a stalled client or one that *)
(* missed the broadcast holds them up (main.c lines 20-21, 55-65).         *)
ShutdownEnds ==
  ExitRequested \/ ~Running ~>
    \/ ~Running /\ parent \in {"exited", "killed"}
    \/ Running /\ (MissedBroadcast \/ BlockedOnClient)

(* The comment at main.c line 17 says what the parent does: register a     *)
(* signal, wait for the child to terminate, terminate itself.  Once the    *)
(* signal has been relayed, the child should therefore terminate and the   *)
(* parent with it.                                                         *)
SignalTerminatesChild == pipe ~> ~Running /\ parent \in {"exited", "killed"}
=============================================================================

----------------------------- MODULE ProcessPool ----------------------------
(***************************************************************************)
(* The process-pool file server (socket_pool/processPool_file/server): the *)
(* parent accepts connections and passes each descriptor to a worker it    *)
(* believes FREE, over one socket pair per worker; a worker sends the      *)
(* file, writes its pid back and waits for the next descriptor.            *)
(*                                                                         *)
(* A worker inherits the parent's ends of the socket pairs of the workers  *)
(* forked before it, so a worker sees end of file only when the parent and *)
(* every later worker are gone.                                            *)
(***************************************************************************)
EXTENDS Naturals, Sequences, FiniteSets

CONSTANTS
  WorkerNum,   (* argv[3]                                                  *)
  Conns,       (* the client connections                                   *)
  Stalled,     (* connections whose client never reads: send() blocks      *)
  NoFd,        (* a worker's netFd when it holds no connection             *)
  ExitMsg      (* the message sent with exitFlag = 1                       *)

ASSUME ProcessPoolAssumption ==
  /\ WorkerNum \in Nat \ {0}
  /\ NoFd \notin Conns /\ ExitMsg \notin Conns
  /\ Stalled \subseteq Conns

Workers == 0..WorkerNum - 1

VARIABLES
  parent,   (* where the parent is in main                                 *)
  ready,    (* events of readyArr the parent has not handled yet           *)
  status,   (* workerArr[j].status                                         *)
  exitIdx,  (* j in the loop of lines 62-65                                *)
  wpc,      (* where each worker is in eventHanler                         *)
  netFd,    (* each worker's netFd                                         *)
  job,      (* messages on their way to each worker                        *)
  done,     (* number of pids on their way back from each worker           *)
  conn,     (* each connection, as the server sees it                      *)
  leaked,   (* accepted, handed to nobody and not closed by the parent     *)
  gone,     (* connections whose client has disconnected                   *)
  pipe,     (* whether exitPipe holds a byte                               *)
  file1     (* whether "file1" can be opened; it is as it was at the start *)

parentVars == <<parent, ready, status, exitIdx>>
workerVars == <<wpc, netFd>>
chanVars == <<job, done>>
clientVars == <<gone, pipe, file1>>
vars == <<parentVars, workerVars, chanVars, conn, leaked, clientVars>>

ParentStates == {"start0", "start1", "epoll", "dispatch", "exitSend", "wait",
                 "exited", "killed"}
WorkerStates == {"recv", "work", "report", "close", "exited", "killed"}
ConnStates == {"idle", "backlog", "open", "served", "dropped", "reset"}

(* What epoll reports: the listening socket, exitPipe, a worker's socket. *)
Sock == <<"sock", 0>>
Exit == <<"exit", 0>>
Worker(w) == <<"worker", w>>
Events == {Sock, Exit} \cup {Worker(w) : w \in Workers}

TypeOK ==
  /\ parent \in ParentStates
  /\ ready \subseteq Events
  /\ status \in [Workers -> {"FREE", "BUSY"}]
  /\ exitIdx \in 0..WorkerNum
  /\ wpc \in [Workers -> WorkerStates]
  /\ netFd \in [Workers -> Conns \cup {NoFd}]
  /\ job \in [Workers -> Seq(Conns \cup {ExitMsg})]
  /\ done \in [Workers -> Nat]
  /\ conn \in [Conns -> ConnStates]
  /\ leaked \subseteq Conns
  /\ gone \subseteq Conns
  /\ pipe \in BOOLEAN
  /\ file1 \in BOOLEAN

(* makeChild has returned: every worker is forked and FREE, the parent has *)
(* no signal handler yet.                                                  *)
Init ==
  /\ parent = "start0"
  /\ ready = {}
  /\ status = [w \in Workers |-> "FREE"]
  /\ exitIdx = 0
  /\ wpc = [w \in Workers |-> "recv"]
  /\ netFd = [w \in Workers |-> NoFd]
  /\ job = [w \in Workers |-> <<>>]
  /\ done = [w \in Workers |-> 0]
  /\ conn = [c \in Conns |-> "idle"]
  /\ leaked = {}
  /\ gone = {}
  /\ pipe = FALSE
  /\ file1 \in BOOLEAN

ParentGone == parent \in {"exited", "killed"}
Listening == parent \in {"epoll", "dispatch", "exitSend", "wait"}
Dead(w) == wpc[w] \in {"exited", "killed"}

(* Mutant: close(pipeFd[0]) of line 11 is missing, a worker keeps its own  *)
(* socket pair open.                                                       *)
PeerOpenOwnEnd(w) == ~ParentGone \/ \E v \in Workers : v >= w /\ ~Dead(v)
(* Somebody still holds the other end of w's socket pair. *)
PeerOpen(w) == ~ParentGone \/ \E v \in Workers : v > w /\ ~Dead(v)

(* The end of the parent closes its descriptors: leaked connections are    *)
(* dropped, those in the backlog are reset.                                *)
ParentEnds(how, also) ==
  /\ parent' = how
  /\ conn' = [c \in Conns |-> IF c \in also \cup leaked THEN "dropped"
                              ELSE IF conn[c] = "backlog" THEN "reset" ELSE conn[c]]

-----------------------------------------------------------------------------
(* Clients and signals.                                                    *)

Connect(c) ==
  /\ Listening /\ conn[c] = "idle"
  /\ conn' = [conn EXCEPT ![c] = "backlog"]
  /\ UNCHANGED <<parentVars, workerVars, chanVars, leaked, clientVars>>

Disconnect(c) ==
  /\ conn[c] \in {"backlog", "open"} /\ c \notin gone
  /\ gone' = gone \cup {c}
  /\ UNCHANGED <<parentVars, workerVars, chanVars, conn, leaked, pipe, file1>>

(* SIGUSR1 kills the parent before line 21 and writes to exitPipe after    *)
(* line 22.  In between exitPipe is still {0, 0}: the byte goes to         *)
(* descriptor 0 and the request is lost, so there is no step for it.       *)
sigFunc ==
  /\ \/ parent = "start0" /\ ParentEnds("killed", {}) /\ UNCHANGED pipe
     \/ Listening /\ pipe' = TRUE /\ UNCHANGED <<parent, conn>>
  /\ UNCHANGED <<ready, status, exitIdx, workerVars, chanVars, leaked, gone, file1>>

-----------------------------------------------------------------------------
(* The parent.                                                             *)

(* Line 21, then lines 22-37: pipe, tcpInit and the epoll set. *)
StartParent ==
  /\ \/ parent = "start0" /\ parent' = "start1"
     \/ parent = "start1" /\ parent' = "epoll"
  /\ UNCHANGED <<ready, status, exitIdx, workerVars, chanVars, conn, leaked, clientVars>>

(* A worker's socket is readable when a pid is on its way, and for ever    *)
(* once the worker is dead (EPOLLHUP).                                     *)
WorkerReadable(w) == done[w] > 0 \/ Dead(w)

IsReady(e) ==
  \/ e = Sock /\ \E c \in Conns : conn[c] = "backlog"
  \/ e = Exit /\ pipe
  \/ \E w \in Workers : e = Worker(w) /\ WorkerReadable(w)

ReadyEvents == {e \in Events : IsReady(e)}

EpollWait ==
  /\ parent = "epoll"
  /\ ReadyEvents # {}
  /\ ready' = ReadyEvents
  /\ parent' = "dispatch"
  /\ UNCHANGED <<status, exitIdx, workerVars, chanVars, conn, leaked, clientVars>>

(* One event of the batch is taken; the batch is in no known order. *)
Take(e) ==
  /\ parent = "dispatch" /\ e \in ready
  /\ ready' = ready \ {e}

LoopOn == parent' = IF ready' = {} THEN "epoll" ELSE "dispatch"

(* Mutant: the scan does not look at the status. *)
FirstFreeAny(w) == w = 0
(* The scan of lines 49-50 stops at the first worker believed FREE. *)
FirstFree(w) ==
  /\ status[w] = "FREE"
  /\ \A v \in Workers : v < w => status[v] = "BUSY"

NoneFree == \A w \in Workers : status[w] = "BUSY"

(* Mutant: the status is not updated after the job was sent. *)
MarkBusyForgotten(w) == status
MarkBusy(w) == [status EXCEPT ![w] = "BUSY"]

(* Lines 44-57: accept, then sendFd, close and BUSY, with the sole step    *)
(* others can see being sendmsg.  sendmsg to a dead worker raises SIGPIPE. *)
Accept ==
  /\ Take(Sock)
  /\ \E c \in Conns :
       /\ conn[c] = "backlog"
       /\ \/ \E w \in Workers :
               /\ FirstFree(w)
               /\ \/ /\ ~Dead(w)
                     /\ job' = [job EXCEPT ![w] = Append(@, c)]
                     /\ status' = MarkBusy(w)
                     /\ conn' = [conn EXCEPT ![c] = "open"]
                     /\ LoopOn
                  \/ /\ Dead(w)
                     /\ ParentEnds("killed", {c})
                     /\ UNCHANGED <<job, status>>
               /\ UNCHANGED leaked
          \/ /\ NoneFree
             /\ conn' = [conn EXCEPT ![c] = "open"]
             /\ leaked' = leaked \cup {c}
             /\ LoopOn
             /\ UNCHANGED <<job, status>>
  /\ UNCHANGED <<exitIdx, workerVars, done, clientVars>>

(* Line 47: accept fails, as for want of descriptors once enough of them   *)
(* are leaked, and ERROR_CHECK exits without a word to the workers.        *)
AcceptFails ==
  /\ Take(Sock)
  /\ ParentEnds("exited", {})
  /\ UNCHANGED <<status, exitIdx, workerVars, chanVars, leaked, clientVars>>

ReadPid(w) == [done EXCEPT ![w] = IF @ > 0 THEN @ - 1 ELSE 0]

(* Lines 72-84: read a pid, or end of file from a dead worker, which is    *)
(* not told apart.                                                         *)
WorkerFinished(w) ==
  /\ Take(Worker(w))
  /\ done' = ReadPid(w)
  /\ status' = [status EXCEPT ![w] = "FREE"]
  /\ LoopOn
  /\ UNCHANGED <<exitIdx, workerVars, job, conn, leaked, clientVars>>

(* Lines 59-61: the rest of the batch is never handled. *)
StartExit ==
  /\ Take(Exit)
  /\ parent' = "exitSend"
  /\ exitIdx' = 0
  /\ UNCHANGED <<status, workerVars, chanVars, conn, leaked, clientVars>>

(* Mutant: the exit message overtakes what was sent before. *)
SendExitFirst(w) == job' = [job EXCEPT ![w] = <<ExitMsg>> \o @]
(* sendFd with exitFlag = 1: queued behind a job that is not received yet. *)
SendExit(w) == job' = [job EXCEPT ![w] = Append(@, ExitMsg)]

(* Mutant: the loop stops one worker short. *)
ToTellShort == WorkerNum - 1
ToTell == WorkerNum

(* The loop of lines 62-65, one worker per step; sendmsg to a dead worker  *)
(* raises SIGPIPE.                                                         *)
ExitStep ==
  /\ parent = "exitSend"
  /\ \/ /\ exitIdx < ToTell /\ ~Dead(exitIdx)
        /\ SendExit(exitIdx)
        /\ exitIdx' = exitIdx + 1
        /\ UNCHANGED <<parent, conn>>
     \/ /\ exitIdx < ToTell /\ Dead(exitIdx)
        /\ ParentEnds("killed", {})
        /\ UNCHANGED <<job, exitIdx>>
     \/ /\ exitIdx = ToTell
        /\ parent' = "wait"
        /\ UNCHANGED <<job, exitIdx, conn>>
  /\ UNCHANGED <<ready, status, workerVars, done, leaked, clientVars>>

(* Lines 66-70: wait once per worker, then exit. *)
WaitWorkers ==
  /\ parent = "wait"
  /\ \A w \in Workers : Dead(w)
  /\ ParentEnds("exited", {})
  /\ UNCHANGED <<ready, status, exitIdx, workerVars, chanVars, leaked, clientVars>>

-----------------------------------------------------------------------------
(* A worker: eventHanler.                                                  *)

At(w, from) == wpc[w] = from
Goto(w, to) == wpc' = [wpc EXCEPT ![w] = to]

(* The connections that w holds or that are on their way to it: they are   *)
(* closed when it ends.                                                    *)
HeldBy(w) == {c \in Conns : netFd[w] = c \/ \E i \in DOMAIN job[w] : job[w][i] = c}
DropAll(w) ==
  /\ conn' = [c \in Conns |-> IF c \in HeldBy(w) THEN "dropped" ELSE conn[c]]
  /\ netFd' = [netFd EXCEPT ![w] = NoFd]
  /\ job' = [job EXCEPT ![w] = <<>>]

Received(w) == [job EXCEPT ![w] = Tail(@)]

(* Lines 28-32. *)
RecvFd(w) ==
  /\ At(w, "recv") /\ job[w] # <<>>
  /\ \/ Head(job[w]) = ExitMsg /\ Goto(w, "exited") /\ DropAll(w)
     \/ /\ Head(job[w]) # ExitMsg /\ Goto(w, "work")
        /\ netFd' = [netFd EXCEPT ![w] = Head(job[w])]
        /\ job' = Received(w)
        /\ UNCHANGED conn
  /\ UNCHANGED <<parentVars, done, leaked, clientVars>>

(* Nothing more can come. *)
EndOfFile(w) == job[w] = <<>> /\ ~PeerOpen(w)

(* recvmsg returns 0: recvFd leaves exitFlag as it was, uninitialized at   *)
(* first, and netFd 0.  Either the worker takes it for an exit message, or *)
(* it sends the file to descriptor 0 and dies of SIGPIPE when it reports.  *)
RecvEof(w) ==
  /\ At(w, "recv") /\ EndOfFile(w)
  /\ \E how \in {"exited", "killed"} : Goto(w, how)
  /\ UNCHANGED <<parentVars, netFd, chanVars, conn, leaked, clientVars>>

(* Line 36: transFile returns.  It blocks in send() while the client does  *)
(* not read.                                                               *)
TransFile(w) ==
  /\ At(w, "work") /\ file1
  /\ netFd[w] \in Stalled => netFd[w] \in gone
  /\ Goto(w, "report")
  /\ UNCHANGED <<parentVars, netFd, chanVars, conn, leaked, clientVars>>

(* sendfile to a client that is gone raises SIGPIPE; ERROR_CHECK exits     *)
(* when file1 cannot be opened.                                            *)
TransFileFatal(w) ==
  /\ At(w, "work")
  /\ \/ ~file1 /\ Goto(w, "exited")
     \/ netFd[w] \in gone /\ Goto(w, "killed")
  /\ DropAll(w)
  /\ UNCHANGED <<parentVars, done, leaked, clientVars>>

(* Line 39: the pid goes back before the connection is closed; without a   *)
(* peer the write raises SIGPIPE, and the connection, already served, is   *)
(* closed by the end of the worker.                                        *)
Report(w) ==
  /\ At(w, "report")
  /\ \/ /\ PeerOpen(w)
        /\ done' = [done EXCEPT ![w] = @ + 1]
        /\ Goto(w, "close")
        /\ UNCHANGED <<conn, netFd>>
     \/ /\ ~PeerOpen(w)
        /\ Goto(w, "killed")
        /\ conn' = [conn EXCEPT ![netFd[w]] = "served"]
        /\ netFd' = [netFd EXCEPT ![w] = NoFd]
        /\ UNCHANGED done
  /\ UNCHANGED <<parentVars, job, leaked, clientVars>>

(* Line 41. *)
Close(w) ==
  /\ At(w, "close")
  /\ conn' = [conn EXCEPT ![netFd[w]] = "served"]
  /\ netFd' = [netFd EXCEPT ![w] = NoFd]
  /\ Goto(w, "recv")
  /\ UNCHANGED <<parentVars, chanVars, leaked, clientVars>>

-----------------------------------------------------------------------------
Parent == \/ StartParent \/ EpollWait \/ Accept \/ AcceptFails
          \/ StartExit \/ ExitStep \/ WaitWorkers
          \/ \E w \in Workers : WorkerFinished(w)
eventHanler(w) == \/ RecvFd(w) \/ RecvEof(w) \/ TransFile(w) \/ TransFileFatal(w)
                  \/ Report(w) \/ Close(w)

Next == \/ \E c \in Conns : Connect(c) \/ Disconnect(c)
        \/ sigFunc
        \/ Parent
        \/ \E w \in Workers : eventHanler(w)

(* Every process keeps running.  Nothing is assumed of clients or signals. *)
Fairness == WF_vars(Parent) /\ \A w \in Workers : WF_vars(eventHanler(w))

Spec == Init /\ [][Next]_vars
FairSpec == Spec /\ Fairness

-----------------------------------------------------------------------------
(* Safety.                                                                 *)

(* Jobs of w whose end the parent has not read yet. *)
Outstanding(w) ==
  Cardinality({i \in DOMAIN job[w] : job[w][i] # ExitMsg})
    + (IF wpc[w] \in {"work", "report"} THEN 1 ELSE 0) + done[w]

(* The parent's idea of a live worker agrees with what is under way: FREE  *)
(* when nothing is, BUSY for exactly one job.  So a worker never has two,  *)
(* although it reports before it closes and although batches may be out of *)
(* order (main.c lines 49-58 and 72-84, worker.c lines 36-41).             *)
StatusAccurate ==
  \A w \in Workers :
    ~Dead(w) /\ ~ParentGone =>
      Outstanding(w) = IF status[w] = "BUSY" THEN 1 ELSE 0

(* An accepted connection is held in one place: leaked in the parent, on   *)
(* its way to one worker, or by one worker (main.c lines 46-57).           *)
Holders(c) == {w \in Workers : c \in HeldBy(w)}
OneHolder ==
  \A c \in Conns :
    /\ conn[c] = "open" <=> (c \in leaked /\ ~ParentGone) \/ Holders(c) # {}
    /\ Cardinality(Holders(c)) <= 1
    /\ c \in leaked => Holders(c) = {}

(* The bookkeeping of main.c lines 47-85 stays in its types (a worker has  *)
(* a non-negative number of reports to be read) and accurate, and no       *)
(* connection is held twice or forgotten, but for those that found nobody  *)
(* FREE (main.c lines 46-58 and 72-84, worker.c lines 24-41).              *)
PoolIntact == TypeOK /\ StatusAccurate /\ OneHolder

(* While no client leaves and the file can be opened, no process of the    *)
(* pool is killed once connections arrive, and no connection that was      *)
(* handed over is dropped: not even by a shutdown, because the exit        *)
(* message queues up behind the job, nor by the exit after a failed accept *)
(* (main.c lines 47 and 59-71).                                            *)
StaysUp ==
  gone = {} /\ file1 =>
    /\ parent = "killed" => \A c \in Conns : conn[c] = "idle"
    /\ ~ParentGone => \A w \in Workers : wpc[w] # "killed"
    /\ \A c \in Conns : conn[c] = "dropped" => c \in leaked

(* main.c line 48: "hand the network connection over to a child process".  *)
HandedOver == leaked = {}

-----------------------------------------------------------------------------
(* Liveness.                                                               *)

(* A connection that was handed over is served or dropped, whatever other  *)
(* clients do and even if the pool is shut down meanwhile: a worker that   *)
(* is believed FREE is not stuck (main.c lines 49-58).                     *)
HandedServed ==
  \A c \in Conns \ Stalled :
    Holders(c) # {} ~> conn[c] \in {"served", "dropped"}

Stuck == \E w \in Workers : wpc[w] = "work" /\ netFd[w] \in Stalled

(* A byte in exitPipe ends the parent, unless a worker is stuck with a     *)
(* client that does not read (main.c lines 59-71).                         *)
ExitEnds == pipe ~> ParentGone \/ Stuck

(* However the parent ends, also without a word when accept fails, no      *)
(* worker survives it, unless one is stuck, which also keeps the workers   *)
(* forked before it (main.c lines 47 and 66-70, worker.c lines 7-15).      *)
OrphansEnd == ParentGone ~> Stuck \/ \A w \in Workers : Dead(w)
=============================================================================

-------------------------- MODULE ProcessPoolProofs --------------------------
(***************************************************************************)
(* Proofs about the process pool, for any number of workers and any        *)
(* connections.                                                            *)
(***************************************************************************)
EXTENDS ProcessPool, FiniteSetTheorems, SequenceTheorems, TLAPS

-----------------------------------------------------------------------------
(* The inductive invariant.                                                *)

(* The exit message has been sent to w: in the loop of lines 62-65, which  *)
(* nothing but the end of the parent follows.                              *)
Told(w) ==
  /\ parent \notin {"start0", "start1", "epoll", "dispatch"}
  /\ parent = "exitSend" => w < exitIdx

(* What is on its way to a worker is at most one connection and, behind    *)
(* it, at most one exit message.                                           *)
JobsInOrder ==
  \A w \in Workers :
    /\ Len(job[w]) \in 0..2
    /\ Len(job[w]) = 2 => job[w][1] # ExitMsg /\ job[w][2] = ExitMsg
    /\ \A i \in 1..Len(job[w]) : job[w][i] = ExitMsg => Told(w)

(* A connection is on its way to w. *)
Awaited(w) == job[w] # <<>> /\ job[w][1] # ExitMsg

(* The number of jobs the parent has to hear of. *)
Load(w) ==
  (IF Awaited(w) THEN 1 ELSE 0)
    + (IF wpc[w] \in {"work", "report"} THEN 1 ELSE 0) + done[w]

LoadIsStatus ==
  \A w \in Workers :
    ~Dead(w) /\ ~ParentGone => Load(w) = IF status[w] = "BUSY" THEN 1 ELSE 0

(* netFd names a connection exactly while the worker has one. *)
FdsHeld ==
  \A w \in Workers : netFd[w] \in Conns <=> wpc[w] \in {"work", "report", "close"}

(* Where a connection is. *)
HasJob(w, c) == Awaited(w) /\ job[w][1] = c
Owned ==
  \A c \in Conns :
    /\ \A v, w \in Workers :
         /\ netFd[v] = c => ~HasJob(w, c)
         /\ v # w => ~(netFd[v] = c /\ netFd[w] = c) /\ ~(HasJob(v, c) /\ HasJob(w, c))
    /\ \A w \in Workers : netFd[w] = c \/ HasJob(w, c) => conn[c] = "open" /\ c \notin leaked
    /\ c \in leaked /\ ~ParentGone => conn[c] = "open"
    /\ conn[c] = "open" =>
         (c \in leaked /\ ~ParentGone) \/ \E w \in Workers : netFd[w] = c \/ HasJob(w, c)

(* A worker in the batch still has a report to be read, or is dead. *)
EventsTrue == \A w \in Workers : Worker(w) \in ready => WorkerReadable(w)

IInv == TypeOK /\ JobsInOrder /\ LoadIsStatus /\ FdsHeld /\ Owned /\ EventsTrue

-----------------------------------------------------------------------------
(* Sequences of jobs.                                                      *)

(* An element at the end of a sequence of jobs. *)
LEMMA JobSent ==
  ASSUME NEW M, NEW s \in Seq(M), NEW m \in M
  PROVE  /\ Append(s, m) \in Seq(M) /\ Append(s, m) # <<>>
         /\ Len(Append(s, m)) = Len(s) + 1
         /\ Append(s, m)[Len(s) + 1] = m
         /\ \A i \in 1..Len(s) : Append(s, m)[i] = s[i]
BY AppendProperties

(* The first element of a sequence of jobs removed. *)
LEMMA JobReceived ==
  ASSUME NEW M, NEW s \in Seq(M), s # <<>>
  PROVE  /\ Head(s) = s[1] /\ Head(s) \in M /\ Tail(s) \in Seq(M)
         /\ Len(s) \in Nat \ {0} /\ Len(Tail(s)) = Len(s) - 1
         /\ \A i \in 1..Len(s) - 1 : Tail(s)[i] = s[i + 1]
BY HeadTailProperties

(* Only the first place can hold a connection. *)
LEMMA HeldByIs ==
  ASSUME TypeOK, JobsInOrder, NEW w \in Workers, NEW c \in Conns
  PROVE  c \in HeldBy(w) <=> netFd[w] = c \/ HasJob(w, c)
<1>1. job[w] \in Seq(Conns \cup {ExitMsg}) /\ Len(job[w]) \in Nat
  BY DEF TypeOK
<1>2. c # ExitMsg
  BY ProcessPoolAssumption
<1>3. DOMAIN job[w] = 1..Len(job[w])
  BY <1>1
<1>4. ASSUME NEW i \in 1..Len(job[w]), job[w][i] = c PROVE HasJob(w, c)
  <2>1. job[w][i] # ExitMsg
    BY <1>2, <1>4
  <2>2. Len(job[w]) \in 0..2 /\ (Len(job[w]) = 2 => job[w][2] = ExitMsg)
    BY DEF JobsInOrder
  <2>3. i = 1
    <3>1. i <= Len(job[w]) /\ i \in {1, 2}
      <4>1. PICK n \in Nat : n = Len(job[w])
        BY <1>1
      <4>2. n \in 0..2
        BY <2>2, <4>1
      <4>3. i \in 1..n
        BY <4>1
      <4>4. i \in {1, 2} /\ i <= n
        BY <4>2, <4>3
      <4> QED
        BY <4>1, <4>4
    <3>2. ASSUME i = 2 PROVE FALSE
      <4>1. 2 <= Len(job[w]) /\ job[w][2] # ExitMsg
        BY <2>1, <3>1, <3>2
      <4>2. Len(job[w]) = 2
        BY <2>2, <4>1
      <4> QED
        BY <2>2, <4>1, <4>2
    <3> QED
      BY <3>1, <3>2
  <2> QED
    BY <1>1, <1>2, <1>4, <2>1, <2>3, EmptySeq DEF HasJob, Awaited
<1>5. ASSUME HasJob(w, c) PROVE \E i \in DOMAIN job[w] : job[w][i] = c
  <2>1. 1 \in DOMAIN job[w]
    BY <1>1, <1>3, <1>5, EmptySeq DEF HasJob, Awaited
  <2> QED
    BY <1>5, <2>1 DEF HasJob
<1> QED
  BY <1>3, <1>4, <1>5 DEF HeldBy

-----------------------------------------------------------------------------
(* Steps that leave a part of the state alone.                             *)

(* The queues and who was told to exit. *)
LEMMA JobsKept ==
  ASSUME JobsInOrder, job' = job, \A w \in Workers : Told(w) => Told(w)'
  PROVE  JobsInOrder'
BY DEF JobsInOrder

(* The status and the work under way. *)
LEMMA LoadKept ==
  ASSUME LoadIsStatus, UNCHANGED <<job, wpc, done, status>>, ParentGone => ParentGone'
  PROVE  LoadIsStatus'
BY DEF LoadIsStatus, Load, Awaited, Dead

(* Where the connections are. *)
LEMMA OwnedKept ==
  ASSUME Owned, UNCHANGED <<job, netFd, leaked>>, ParentGone' <=> ParentGone,
         \A c \in Conns : conn'[c] = "open" <=> conn[c] = "open"
  PROVE  Owned'
BY DEF Owned, HasJob, Awaited

(* The batch, while no report is read. *)
LEMMA EventsKept ==
  ASSUME TypeOK, EventsTrue, ready' \subseteq ready,
         \A w \in Workers : done'[w] \in Nat /\ done'[w] >= done[w] /\ (Dead(w) => Dead(w)')
  PROVE  EventsTrue'
BY DEF EventsTrue, WorkerReadable, TypeOK, Worker

(* The end of the parent, which may drop one connection nobody has yet. *)
LEMMA OwnedAtEnd ==
  ASSUME TypeOK, Owned, UNCHANGED <<job, netFd, leaked>>, ~ParentGone,
         NEW how \in {"exited", "killed"}, NEW also,
         \A c \in also \cap Conns : conn[c] = "backlog",
         ParentEnds(how, also)
  PROVE  Owned'
<1>1. ParentGone'
  BY DEF ParentEnds, ParentGone
<1>2. ASSUME NEW c \in Conns
      PROVE  conn'[c] = "open" <=> conn[c] = "open" /\ c \notin leaked
  BY DEF ParentEnds
<1>3. ASSUME NEW w \in Workers, NEW c \in Conns PROVE HasJob(w, c)' <=> HasJob(w, c)
  BY DEF HasJob, Awaited
<1> QED
  BY <1>1, <1>2, <1>3 DEF Owned

(* The pool starts with nothing under way. *)
LEMMA InitIInv == Init => IInv
<1> SUFFICES ASSUME Init PROVE IInv
  OBVIOUS
<1>1. TypeOK
  <2>1. job \in [Workers -> Seq(Conns \cup {ExitMsg})]
    BY DEF Init
  <2>2. exitIdx \in 0..WorkerNum
    BY ProcessPoolAssumption DEF Init
  <2> QED
    BY <2>1, <2>2 DEF Init, TypeOK, ParentStates, WorkerStates, ConnStates
<1>2. JobsInOrder
  BY DEF Init, JobsInOrder
<1>3. LoadIsStatus
  BY DEF Init, LoadIsStatus, Load, Awaited
<1>4. FdsHeld /\ Owned /\ EventsTrue
  BY ProcessPoolAssumption DEF Init, FdsHeld, Owned, HasJob, Awaited, EventsTrue
<1> QED
  BY <1>1, <1>2, <1>3, <1>4 DEF IInv

-----------------------------------------------------------------------------
(* Clients, signals and the parent.                                        *)

(* Steps in which nobody in the pool gets or gives up anything.            *)
LEMMA QuietSteps ==
  ASSUME IInv,
         \/ \E c \in Conns : Connect(c) \/ Disconnect(c)
         \/ StartParent \/ EpollWait \/ StartExit \/ UNCHANGED vars
  PROVE  IInv'
<1> USE DEF IInv, Connect, Disconnect, StartParent, EpollWait, StartExit, Take,
            vars, parentVars, workerVars, chanVars, clientVars
<1>1. TypeOK'
  <2>1. CASE \E c \in Conns : Connect(c) \/ Disconnect(c)
    BY <2>1 DEF TypeOK, ConnStates
  <2>2. CASE StartParent \/ EpollWait \/ UNCHANGED vars
    BY <2>2 DEF TypeOK, ParentStates, ReadyEvents
  <2>3. CASE StartExit
    <3>1. exitIdx' \in 0..WorkerNum
      BY <2>3, ProcessPoolAssumption
    <3> QED
      BY <2>3, <3>1 DEF TypeOK, ParentStates
  <2> QED
    BY <2>1, <2>2, <2>3
<1>2. UNCHANGED <<job, netFd, leaked, wpc, done, status>> /\ (ParentGone' <=> ParentGone)
  BY DEF ParentGone
<1>3. \A w \in Workers : Told(w) => Told(w)'
  BY DEF Told
<1>4. \A c \in Conns : conn'[c] = "open" <=> conn[c] = "open"
  BY DEF TypeOK
<1>5. FdsHeld'
  BY <1>2 DEF FdsHeld
<1>6. EventsTrue'
  <2>1. CASE EpollWait
    BY <1>2, <2>1 DEF EventsTrue, ReadyEvents, IsReady, WorkerReadable, Dead, Worker, Sock, Exit
  <2>2. CASE ~EpollWait
    <3>1. ready' \subseteq ready
      BY <2>2
    <3> QED
      BY <1>2, <3>1, EventsKept DEF Dead, TypeOK
  <2> QED
    BY <2>1, <2>2
<1> QED
  BY <1>1, <1>2, <1>3, <1>4, <1>5, <1>6, JobsKept, LoadKept, OwnedKept

(* The signal. *)
LEMMA SignalStep == ASSUME IInv, sigFunc PROVE IInv'
<1> USE DEF IInv, sigFunc, parentVars, workerVars, chanVars
<1>1. TypeOK'
  BY DEF TypeOK, ParentEnds, ParentStates, ConnStates
<1>2. UNCHANGED <<job, netFd, leaked, wpc, done, status>> /\ (ParentGone => ParentGone')
  BY DEF ParentGone, Listening
<1>3. \A w \in Workers : Told(w) => Told(w)'
  BY DEF Told
<1>4. Owned'
  <2>1. CASE parent = "start0" /\ ParentEnds("killed", {})
    BY <1>2, <2>1, OwnedAtEnd DEF ParentGone
  <2>2. CASE UNCHANGED <<parent, conn>>
    BY <1>2, <2>2, OwnedKept DEF ParentGone
  <2> QED
    BY <2>1, <2>2
<1>5. FdsHeld'
  BY <1>2 DEF FdsHeld
<1>6. EventsTrue'
  BY <1>2, EventsKept DEF Dead, TypeOK
<1> QED
  BY <1>1, <1>2, <1>3, <1>4, <1>5, <1>6, JobsKept, LoadKept

(* Reading a pid. *)
LEMMA FinishedStep == ASSUME IInv, NEW w \in Workers, WorkerFinished(w) PROVE IInv'
<1> USE DEF IInv, WorkerFinished, Take, LoopOn, ReadPid, workerVars, clientVars
<1>1. TypeOK'
  BY DEF TypeOK, ParentStates
<1>2. UNCHANGED <<job, netFd, leaked, wpc, conn>> /\ ~ParentGone /\ ~ParentGone'
  BY DEF ParentGone
<1>3. \A v \in Workers : Told(v) => Told(v)'
  BY DEF Told
<1>4. LoadIsStatus'
  <2>1. ASSUME NEW v \in Workers
        PROVE  /\ Awaited(v)' <=> Awaited(v)
               /\ Dead(v)' <=> Dead(v)
               /\ v # w => done'[v] = done[v] /\ status'[v] = status[v]
               /\ done[w] \in Nat
               /\ done'[w] = (IF done[w] > 0 THEN done[w] - 1 ELSE 0)
               /\ status'[w] = "FREE"
    BY <1>2 DEF Awaited, Dead, TypeOK
  <2>2. done[w] > 0 \/ Dead(w)
    BY DEF EventsTrue, WorkerReadable
  <2> QED
    BY <1>2, <2>1, <2>2 DEF LoadIsStatus, Load
<1>5. FdsHeld'
  BY <1>2 DEF FdsHeld
<1>6. EventsTrue'
  BY <1>2 DEF EventsTrue, WorkerReadable, Worker, Dead, TypeOK
<1> QED
  BY <1>1, <1>2, <1>3, <1>4, <1>5, <1>6, JobsKept, OwnedKept

(* accept finds a worker that really is free, or one that is dead, or none *)
(* that it believes free.                                                  *)
LEMMA AcceptStep == ASSUME IInv, Accept PROVE IInv'
<1>t. TypeOK /\ JobsInOrder /\ LoadIsStatus /\ FdsHeld /\ Owned /\ EventsTrue
  BY DEF IInv
<1>1. /\ parent = "dispatch" /\ ready' = ready \ {Sock}
      /\ UNCHANGED <<exitIdx, wpc, netFd, done, gone, pipe, file1>>
  BY DEF Accept, Take, workerVars, clientVars
<1>2. PICK c \in Conns :
        /\ conn[c] = "backlog"
        /\ \/ \E w \in Workers :
                /\ FirstFree(w) /\ leaked' = leaked
                /\ \/ /\ ~Dead(w)
                      /\ job' = [job EXCEPT ![w] = Append(@, c)]
                      /\ status' = [status EXCEPT ![w] = "BUSY"]
                      /\ conn' = [conn EXCEPT ![c] = "open"]
                      /\ LoopOn
                   \/ Dead(w) /\ ParentEnds("killed", {c}) /\ UNCHANGED <<job, status>>
           \/ /\ conn' = [conn EXCEPT ![c] = "open"]
              /\ leaked' = leaked \cup {c}
              /\ LoopOn
              /\ UNCHANGED <<job, status>>
  BY DEF Accept, MarkBusy
<1>3. EventsTrue' /\ FdsHeld'
  BY <1>1, <1>t, EventsKept DEF TypeOK, Dead, FdsHeld
<1>4. ~ParentGone /\ c # ExitMsg /\ c # NoFd /\ c \notin leaked
      /\ \A w \in Workers : netFd[w] # c /\ ~HasJob(w, c)
  BY <1>1, <1>2, <1>t, ProcessPoolAssumption DEF ParentGone, Owned
<1>5. ASSUME NEW w \in Workers, FirstFree(w), leaked' = leaked, ~Dead(w),
             job' = [job EXCEPT ![w] = Append(@, c)],
             status' = [status EXCEPT ![w] = "BUSY"],
             conn' = [conn EXCEPT ![c] = "open"], LoopOn
      PROVE  IInv'
  <2>1. parent' \in {"epoll", "dispatch"} /\ ~ParentGone'
    BY <1>5 DEF LoopOn, ParentGone
  <2>2. job[w] = <<>> /\ wpc[w] \notin {"work", "report"} /\ done[w] = 0
    <3>1. status[w] = "FREE" /\ Load(w) = 0
      BY <1>4, <1>5, <1>t DEF FirstFree, LoadIsStatus
    <3>2. ~Awaited(w) /\ wpc[w] \notin {"work", "report"} /\ done[w] = 0
      BY <1>t, <3>1 DEF Load, TypeOK
    <3>3. ASSUME job[w] # <<>> PROVE FALSE
      <4>1. job[w][1] = ExitMsg /\ 1 \in 1..Len(job[w])
        BY <1>t, <3>2, <3>3, EmptySeq DEF Awaited, TypeOK
      <4> QED
        BY <1>1, <1>t, <4>1 DEF JobsInOrder, Told
    <3> QED
      BY <3>2, <3>3
  <2>3. /\ job'[w] = <<c>> /\ job'[w] \in Seq(Conns \cup {ExitMsg})
        /\ job'[w] # <<>> /\ Len(job'[w]) = 1 /\ job'[w][1] = c
        /\ \A v \in Workers : v # w => job'[v] = job[v]
    BY <1>5, <1>t, <2>2 DEF TypeOK
  <2>4. TypeOK'
    <3>1. job' \in [Workers -> Seq(Conns \cup {ExitMsg})]
      BY <1>5, <1>t, <2>3 DEF TypeOK
    <3> QED
      BY <1>1, <1>5, <1>t, <2>1, <3>1 DEF TypeOK, ParentStates, ConnStates
  <2>5. JobsInOrder'
    <3>1. \A v \in Workers : ~Told(v)
      BY <1>1 DEF Told
    <3>2. ASSUME NEW v \in Workers, v # w
          PROVE  /\ Len(job'[v]) \in 0..2
                 /\ Len(job'[v]) = 2 => job'[v][1] # ExitMsg /\ job'[v][2] = ExitMsg
                 /\ \A i \in 1..Len(job'[v]) : job'[v][i] # ExitMsg
      BY <1>t, <2>3, <3>1, <3>2 DEF JobsInOrder
    <3>3. \A i \in 1..Len(job'[w]) : job'[w][i] # ExitMsg
      BY <1>4, <2>3
    <3>4. Len(job'[w]) \in 0..2 /\ Len(job'[w]) # 2
      BY <2>3
    <3> QED
      BY <3>2, <3>3, <3>4 DEF JobsInOrder
  <2>6. \A v \in Workers : Awaited(v)' <=> Awaited(v) \/ v = w
    BY <1>4, <2>3 DEF Awaited
  <2>7. LoadIsStatus'
    <3>1. Load(w)' = 1 /\ status'[w] = "BUSY"
      BY <1>1, <1>5, <1>t, <2>2, <2>6 DEF Load, TypeOK
    <3>2. ASSUME NEW v \in Workers, v # w
          PROVE  Load(v)' = Load(v) /\ status'[v] = status[v] /\ (Dead(v)' <=> Dead(v))
      BY <1>1, <1>5, <1>t, <2>6, <3>2 DEF Load, TypeOK, Dead
    <3> QED
      BY <1>4, <1>t, <3>1, <3>2 DEF LoadIsStatus
  <2>8. Owned'
    <3>1. \A v \in Workers, d \in Conns :
             HasJob(v, d)' <=> HasJob(v, d) \/ (v = w /\ d = c)
      BY <1>4, <2>2, <2>3, <2>6 DEF HasJob, Awaited
    <3>2. \A d \in Conns : conn'[d] = "open" <=> conn[d] = "open" \/ d = c
      BY <1>5, <1>t DEF TypeOK
    <3> QED
      BY <1>1, <1>4, <1>5, <1>t, <2>1, <3>1, <3>2 DEF Owned
  <2> QED
    BY <1>3, <2>4, <2>5, <2>7, <2>8 DEF IInv
<1>6. ASSUME leaked' = leaked, ParentEnds("killed", {c}), UNCHANGED <<job, status>>
      PROVE  IInv'
  <2>1. TypeOK'
    BY <1>1, <1>6, <1>t DEF ParentEnds, TypeOK, ParentStates, ConnStates
  <2>2. \A w \in Workers : Told(w) => Told(w)'
    BY <1>1, <1>6 DEF Told, ParentEnds
  <2>3. Owned'
    BY <1>1, <1>2, <1>4, <1>6, <1>t, OwnedAtEnd
  <2>4. LoadIsStatus'
    BY <1>1, <1>4, <1>6, <1>t, LoadKept
  <2> QED
    BY <1>3, <1>6, <1>t, <2>1, <2>2, <2>3, <2>4, JobsKept DEF IInv
<1>7. ASSUME conn' = [conn EXCEPT ![c] = "open"], leaked' = leaked \cup {c}, LoopOn,
             UNCHANGED <<job, status>>
      PROVE  IInv'
  <2>1. parent' \in {"epoll", "dispatch"} /\ ~ParentGone'
    BY <1>7 DEF LoopOn, ParentGone
  <2>2. TypeOK'
    BY <1>1, <1>7, <1>t, <2>1 DEF TypeOK, ParentStates, ConnStates
  <2>3. \A w \in Workers : Told(w) => Told(w)'
    BY <1>1 DEF Told
  <2>4. Owned'
    <3>1. \A v \in Workers, d \in Conns : HasJob(v, d)' <=> HasJob(v, d)
      BY <1>7 DEF HasJob, Awaited
    <3>2. \A d \in Conns : conn'[d] = "open" <=> conn[d] = "open" \/ d = c
      BY <1>7, <1>t DEF TypeOK
    <3> QED
      BY <1>1, <1>4, <1>7, <1>t, <2>1, <3>1, <3>2 DEF Owned
  <2>5. LoadIsStatus'
    BY <1>1, <1>4, <1>7, <1>t, LoadKept
  <2> QED
    BY <1>3, <1>7, <1>t, <2>2, <2>3, <2>4, <2>5, JobsKept DEF IInv
<1> QED
  BY <1>2, <1>5, <1>6, <1>7

(* The exit message is queued behind a job that is not received yet. *)
LEMMA ExitStepKeeps == ASSUME IInv, ExitStep PROVE IInv'
<1>t. TypeOK /\ JobsInOrder /\ LoadIsStatus /\ FdsHeld /\ Owned /\ EventsTrue
  BY DEF IInv
<1>1. /\ parent = "exitSend" /\ ~ParentGone
      /\ UNCHANGED <<ready, status, wpc, netFd, done, leaked, gone, pipe, file1>>
  BY DEF ExitStep, workerVars, clientVars, ParentGone
<1>2. EventsTrue' /\ FdsHeld'
  BY <1>1, <1>t, EventsKept DEF TypeOK, Dead, FdsHeld
<1>3. ASSUME exitIdx < ToTell, SendExit(exitIdx), exitIdx' = exitIdx + 1,
             UNCHANGED <<parent, conn>>
      PROVE  IInv'
  <2> DEFINE w == exitIdx
  <2>1. w \in Workers /\ exitIdx' \in 0..WorkerNum
    BY <1>3, <1>t, ProcessPoolAssumption DEF ToTell, TypeOK, Workers
  <2>2. \A v \in Workers : Told(v)' <=> Told(v) \/ v = w
    BY <1>1, <1>3, <1>t, ProcessPoolAssumption DEF Told, TypeOK, Workers
  <2>3. ~Told(w)
    BY <1>1, <1>t, ProcessPoolAssumption DEF Told, TypeOK
  <2>4. job[w] \in Seq(Conns \cup {ExitMsg}) /\ Len(job[w]) \in Nat
    BY <1>t, <2>1 DEF TypeOK
  <2>5. job' = [job EXCEPT ![w] = Append(job[w], ExitMsg)]
    BY <1>3 DEF SendExit
  <2> HIDE DEF w
  <2>6. Len(job[w]) \in 0..1 /\ \A i \in 1..Len(job[w]) : job[w][i] # ExitMsg
    <3>1. /\ Len(job[w]) \in 0..2 /\ (Len(job[w]) = 2 => job[w][2] = ExitMsg)
          /\ \A i \in 1..Len(job[w]) : job[w][i] # ExitMsg
      BY <1>t, <2>1, <2>3 DEF JobsInOrder
    <3>2. ASSUME Len(job[w]) = 2 PROVE FALSE
      <4>1. 2 \in 1..Len(job[w]) /\ job[w][2] = ExitMsg
        BY <3>1, <3>2
      <4> QED
        BY <3>1, <4>1
    <3> QED
      BY <3>1, <3>2
  <2>7. /\ job'[w] \in Seq(Conns \cup {ExitMsg}) /\ job'[w] # <<>>
        /\ Len(job'[w]) = Len(job[w]) + 1
        /\ job'[w][Len(job[w]) + 1] = ExitMsg
        /\ \A i \in 1..Len(job[w]) : job'[w][i] = job[w][i]
        /\ \A v \in Workers : v # w => job'[v] = job[v]
    <3>1. job'[w] = Append(job[w], ExitMsg) /\ \A v \in Workers : v # w => job'[v] = job[v]
      BY <1>t, <2>1, <2>5 DEF TypeOK
    <3> QED
      BY <2>4, <3>1, JobSent
  <2>8. TypeOK'
    <3>1. job' \in [Workers -> Seq(Conns \cup {ExitMsg})]
      BY <1>t, <2>5, <2>7 DEF TypeOK
    <3> QED
      BY <1>1, <1>3, <1>t, <2>1, <3>1 DEF TypeOK
  <2>9. JobsInOrder'
    <3>1. /\ Len(job'[w]) \in 0..2
          /\ Len(job'[w]) = 2 => job'[w][1] # ExitMsg /\ job'[w][2] = ExitMsg
      BY <2>4, <2>6, <2>7
    <3> QED
      BY <1>t, <2>2, <2>7, <3>1, ZenonT(60) DEF JobsInOrder
  <2>10. ASSUME NEW v \in Workers
         PROVE  (Awaited(v)' <=> Awaited(v)) /\ (Awaited(v) => job'[v][1] = job[v][1])
    <3>1. CASE v = w
      <4>1. CASE Len(job[w]) = 0
        <5>1. job[w] = <<>> /\ job'[w][1] = ExitMsg
          BY <2>4, <2>7, <4>1, EmptySeq
        <5> QED
          BY <3>1, <5>1 DEF Awaited
      <4>2. CASE Len(job[w]) = 1
        <5>1. job[w] # <<>> /\ job'[w][1] = job[w][1] /\ job[w][1] # ExitMsg
          BY <2>4, <2>6, <2>7, <4>2, EmptySeq
        <5> QED
          BY <2>7, <3>1, <5>1 DEF Awaited
      <4> QED
        BY <2>4, <2>6, <4>1, <4>2
    <3>2. CASE v # w
      BY <2>7, <3>2 DEF Awaited
    <3> QED
      BY <3>1, <3>2
  <2>11. LoadIsStatus'
    <3>1. \A v \in Workers : Load(v)' = Load(v)
      BY <1>1, <2>10 DEF Load
    <3> QED
      BY <1>1, <1>3, <1>t, <3>1 DEF LoadIsStatus, Dead, ParentGone
  <2>12. Owned'
    <3>1. \A v \in Workers, d \in Conns : HasJob(v, d)' <=> HasJob(v, d)
      BY <2>10 DEF HasJob
    <3> QED
      BY <1>1, <1>3, <1>t, <3>1 DEF Owned, ParentGone
  <2> QED
    BY <1>2, <2>8, <2>9, <2>11, <2>12 DEF IInv
<1>4. ASSUME ParentEnds("killed", {}), UNCHANGED <<job, exitIdx>> PROVE IInv'
  <2>1. TypeOK'
    BY <1>1, <1>4, <1>t DEF ParentEnds, TypeOK, ParentStates, ConnStates
  <2>2. \A w \in Workers : Told(w) => Told(w)'
    BY <1>1, <1>4 DEF Told, ParentEnds
  <2>3. Owned'
    BY <1>1, <1>4, <1>t, OwnedAtEnd
  <2>4. LoadIsStatus'
    BY <1>1, <1>4, <1>t, LoadKept
  <2> QED
    BY <1>2, <1>4, <1>t, <2>1, <2>2, <2>3, <2>4, JobsKept DEF IInv
<1>5. ASSUME parent' = "wait", UNCHANGED <<job, exitIdx, conn>> PROVE IInv'
  <2>1. TypeOK'
    BY <1>1, <1>5, <1>t DEF TypeOK, ParentStates
  <2>2. (\A w \in Workers : Told(w) => Told(w)') /\ ~ParentGone'
    BY <1>5 DEF Told, ParentGone
  <2>3. Owned' /\ LoadIsStatus'
    BY <1>1, <1>5, <1>t, <2>2, OwnedKept, LoadKept
  <2> QED
    BY <1>2, <1>5, <1>t, <2>1, <2>2, <2>3, JobsKept DEF IInv
<1> QED
  BY <1>3, <1>4, <1>5 DEF ExitStep

(* The parent exits, after its workers or when accept fails. *)
LEMMA ParentExits == ASSUME IInv, WaitWorkers \/ AcceptFails PROVE IInv'
<1>t. TypeOK /\ JobsInOrder /\ LoadIsStatus /\ FdsHeld /\ Owned /\ EventsTrue
  BY DEF IInv
<1>1. /\ parent \in {"wait", "dispatch"} /\ ParentEnds("exited", {}) /\ ready' \subseteq ready
      /\ UNCHANGED <<status, exitIdx, job, wpc, netFd, done, leaked, gone, pipe, file1>>
  BY DEF WaitWorkers, AcceptFails, Take, workerVars, chanVars, clientVars
<1>2. TypeOK'
  BY <1>1, <1>t DEF ParentEnds, TypeOK, ParentStates, ConnStates
<1>3. \A w \in Workers : Told(w) => Told(w)'
  BY <1>1 DEF Told, ParentEnds
<1>4. Owned' /\ LoadIsStatus'
  BY <1>1, <1>t, OwnedAtEnd, LoadKept DEF ParentGone
<1>5. EventsTrue' /\ FdsHeld'
  BY <1>1, <1>t, EventsKept DEF TypeOK, Dead, FdsHeld
<1> QED
  BY <1>1, <1>t, <1>2, <1>3, <1>4, <1>5, JobsKept DEF IInv

-----------------------------------------------------------------------------
(* A worker.                                                               *)

(* A worker that dies drops what it has and what is on its way to it. *)
LEMMA DropStep ==
  ASSUME IInv, NEW w \in Workers, NEW how \in {"exited", "killed"},
         Goto(w, how), DropAll(w), UNCHANGED <<parentVars, done, leaked, clientVars>>
  PROVE  IInv'
<1>t. TypeOK /\ JobsInOrder /\ LoadIsStatus /\ FdsHeld /\ Owned /\ EventsTrue
  BY DEF IInv
<1>1. /\ UNCHANGED <<parent, ready, status, exitIdx, done, leaked, gone, pipe, file1>>
      /\ wpc' = [wpc EXCEPT ![w] = how]
      /\ netFd' = [netFd EXCEPT ![w] = NoFd]
      /\ job' = [job EXCEPT ![w] = <<>>]
  BY DEF parentVars, clientVars, Goto, DropAll
<1>2. \A v \in Workers : (Told(v) => Told(v)') /\ (Dead(v)' <=> Dead(v) \/ v = w)
  BY <1>1, <1>t DEF Told, Dead, TypeOK
<1>3. /\ job'[w] = <<>> /\ netFd'[w] = NoFd
      /\ \A v \in Workers : v # w => /\ job'[v] = job[v] /\ netFd'[v] = netFd[v]
                                     /\ wpc'[v] = wpc[v]
  BY <1>1, <1>t DEF TypeOK
<1>4. TypeOK'
  <2>1. conn' \in [Conns -> ConnStates]
    BY <1>t DEF DropAll, TypeOK, ConnStates
  <2>2. job' \in [Workers -> Seq(Conns \cup {ExitMsg})]
    BY <1>1, <1>t DEF TypeOK
  <2> QED
    BY <1>1, <1>t, <2>1, <2>2 DEF TypeOK, WorkerStates
<1>5. JobsInOrder'
  <2>1. Len(job'[w]) \in 0..2 /\ Len(job'[w]) # 2 /\ 1..Len(job'[w]) = {}
    BY <1>3
  <2> QED
    BY <1>t, <1>2, <1>3, <2>1 DEF JobsInOrder
<1>6. LoadIsStatus'
  <2>1. \A v \in Workers : v # w => (Load(v)' = Load(v))
    BY <1>1, <1>3 DEF Load, Awaited
  <2> QED
    BY <1>1, <1>2, <1>t, <2>1 DEF LoadIsStatus, ParentGone
<1>7. FdsHeld'
  <2>1. wpc'[w] = how
    BY <1>1, <1>t DEF TypeOK
  <2> QED
    BY <1>3, <1>t, <2>1, ProcessPoolAssumption DEF FdsHeld
<1>8. Owned'
  <2>1. \A v \in Workers, c \in Conns : HasJob(v, c)' <=> HasJob(v, c) /\ v # w
    BY <1>3 DEF HasJob, Awaited
  <2>2. \A v \in Workers, c \in Conns : netFd'[v] = c <=> netFd[v] = c /\ v # w
    BY <1>3, ProcessPoolAssumption
  <2>3. \A c \in Conns :
           conn'[c] = "open" <=> conn[c] = "open" /\ ~(netFd[w] = c \/ HasJob(w, c))
    BY <1>t, HeldByIs DEF DropAll
  <2> QED
    BY <1>1, <1>t, <2>1, <2>2, <2>3 DEF Owned, ParentGone
<1>9. EventsTrue'
  BY <1>1, <1>2, <1>t, EventsKept DEF TypeOK
<1> QED
  BY <1>4, <1>5, <1>6, <1>7, <1>8, <1>9 DEF IInv

(* Steps of a worker that change neither its queue nor what it holds. *)
LEMMA WorkerMoves ==
  ASSUME IInv, NEW w \in Workers, NEW to \in WorkerStates, Goto(w, to),
         UNCHANGED <<parentVars, netFd, job, conn, leaked, clientVars>>,
         \/ wpc[w] = "recv" /\ to \in {"exited", "killed"} /\ done' = done
         \/ wpc[w] = "work" /\ to = "report" /\ done' = done
         \/ wpc[w] = "report" /\ to = "close" /\ done' = [done EXCEPT ![w] = @ + 1]
  PROVE  IInv'
<1>t. TypeOK /\ JobsInOrder /\ LoadIsStatus /\ FdsHeld /\ Owned /\ EventsTrue
  BY DEF IInv
<1>1. /\ UNCHANGED <<parent, ready, status, exitIdx, netFd, job, conn, leaked, gone, pipe, file1>>
      /\ wpc' = [wpc EXCEPT ![w] = to]
  BY DEF parentVars, clientVars, Goto
<1>2. /\ wpc'[w] = to /\ done[w] \in Nat
      /\ \A v \in Workers : v # w => wpc'[v] = wpc[v] /\ done'[v] = done[v]
      /\ done'[w] = IF to = "close" THEN done[w] + 1 ELSE done[w]
  BY <1>1, <1>t DEF TypeOK
<1>3. TypeOK'
  <2>1. done' \in [Workers -> Nat]
    BY <1>t DEF TypeOK
  <2> QED
    BY <1>1, <1>t, <2>1 DEF TypeOK
<1>4. JobsInOrder' /\ Owned'
  BY <1>1, <1>t, JobsKept, OwnedKept DEF Told, ParentGone
<1>5. LoadIsStatus'
  <2>1. \A v \in Workers : (Awaited(v)' <=> Awaited(v)) /\ (v # w => Load(v)' = Load(v))
    BY <1>1, <1>2 DEF Load, Awaited
  <2>2. ~Dead(w)' => ~Dead(w) /\ Load(w)' = Load(w)
    BY <1>2, <2>1 DEF Load, Dead
  <2>3. \A v \in Workers : v # w => (Dead(v)' <=> Dead(v))
    BY <1>2 DEF Dead
  <2> QED
    BY <1>1, <1>t, <2>1, <2>2, <2>3 DEF LoadIsStatus, ParentGone
<1>6. FdsHeld'
  BY <1>1, <1>2, <1>t DEF FdsHeld
<1>7. EventsTrue'
  BY <1>1, <1>2, <1>t, EventsKept DEF Dead, TypeOK
<1> QED
  BY <1>3, <1>4, <1>5, <1>6, <1>7 DEF IInv

(* A worker is done with its connection. *)
LEMMA ServedStep ==
  ASSUME IInv, NEW w \in Workers, NEW to \in {"recv", "killed"}, Goto(w, to),
         \/ wpc[w] = "close" /\ to = "recv"
         \/ wpc[w] = "report" /\ to = "killed",
         conn' = [conn EXCEPT ![netFd[w]] = "served"],
         netFd' = [netFd EXCEPT ![w] = NoFd],
         UNCHANGED <<parentVars, chanVars, leaked, clientVars>>
  PROVE  IInv'
<1>t. TypeOK /\ JobsInOrder /\ LoadIsStatus /\ FdsHeld /\ Owned /\ EventsTrue
  BY DEF IInv
<1>1. /\ UNCHANGED <<parent, ready, status, exitIdx, job, done, leaked, gone, pipe, file1>>
      /\ wpc' = [wpc EXCEPT ![w] = to]
  BY DEF parentVars, chanVars, clientVars, Goto
<1>2. /\ wpc'[w] = to /\ netFd'[w] = NoFd /\ netFd[w] \in Conns
      /\ \A v \in Workers : v # w => wpc'[v] = wpc[v] /\ netFd'[v] = netFd[v]
  BY <1>1, <1>t DEF TypeOK, FdsHeld
<1>3. TypeOK'
  BY <1>1, <1>2, <1>t DEF TypeOK, WorkerStates, ConnStates
<1>4. JobsInOrder'
  BY <1>1, <1>t, JobsKept DEF Told
<1>5. LoadIsStatus'
  <2>1. \A v \in Workers : (Awaited(v)' <=> Awaited(v)) /\ (v # w => Load(v)' = Load(v))
    BY <1>1, <1>2 DEF Load, Awaited
  <2>2. ~Dead(w)' => ~Dead(w) /\ Load(w)' = Load(w)
    BY <1>1, <1>2, <2>1 DEF Load, Dead
  <2>3. \A v \in Workers : v # w => (Dead(v)' <=> Dead(v))
    BY <1>2 DEF Dead
  <2> QED
    BY <1>1, <1>t, <2>1, <2>2, <2>3 DEF LoadIsStatus, ParentGone
<1>6. FdsHeld'
  BY <1>2, <1>t, ProcessPoolAssumption DEF FdsHeld
<1>7. Owned'
  <2>1. \A v \in Workers, c \in Conns : HasJob(v, c)' <=> HasJob(v, c)
    BY <1>1 DEF HasJob, Awaited
  <2>2. \A v \in Workers, c \in Conns : netFd'[v] = c <=> netFd[v] = c /\ v # w
    BY <1>2, ProcessPoolAssumption
  <2>3. \A c \in Conns : conn'[c] = "open" <=> conn[c] = "open" /\ c # netFd[w]
    BY <1>2, <1>t DEF TypeOK
  <2> QED
    BY <1>1, <1>2, <1>t, <2>1, <2>2, <2>3 DEF Owned, ParentGone
<1>8. EventsTrue'
  BY <1>1, <1>2, <1>t, EventsKept DEF Dead, TypeOK
<1> QED
  BY <1>3, <1>4, <1>5, <1>6, <1>7, <1>8 DEF IInv

(* A worker takes the connection that is on its way to it. *)
LEMMA ReceiveStep ==
  ASSUME IInv, NEW w \in Workers, At(w, "recv"), job[w] # <<>>, Head(job[w]) # ExitMsg,
         Goto(w, "work"), netFd' = [netFd EXCEPT ![w] = Head(job[w])],
         job' = Received(w),
         UNCHANGED <<parentVars, done, conn, leaked, clientVars>>
  PROVE  IInv'
<1>t. TypeOK /\ JobsInOrder /\ LoadIsStatus /\ FdsHeld /\ Owned /\ EventsTrue
  BY DEF IInv
<1>1. /\ UNCHANGED <<parent, ready, status, exitIdx, done, conn, leaked, gone, pipe, file1>>
      /\ wpc' = [wpc EXCEPT ![w] = "work"] /\ wpc[w] = "recv"
      /\ job' = [job EXCEPT ![w] = Tail(job[w])]
  BY DEF parentVars, clientVars, Goto, At, Received
<1> DEFINE d == Head(job[w])
<1>2. job[w] \in Seq(Conns \cup {ExitMsg})
  BY <1>t DEF TypeOK
<1>3. /\ d = job[w][1] /\ d \in Conns
      /\ Tail(job[w]) \in Seq(Conns \cup {ExitMsg})
      /\ Len(job[w]) \in Nat \ {0} /\ Len(Tail(job[w])) = Len(job[w]) - 1
      /\ \A i \in 1..Len(job[w]) - 1 : Tail(job[w])[i] = job[w][i + 1]
  BY <1>2, JobReceived
<1>4. /\ job'[w] = Tail(job[w]) /\ netFd'[w] = d /\ wpc'[w] = "work"
      /\ \A v \in Workers : v # w => /\ job'[v] = job[v] /\ netFd'[v] = netFd[v]
                                     /\ wpc'[v] = wpc[v]
  BY <1>1, <1>t DEF TypeOK
<1> HIDE DEF d
<1>5. /\ Len(job[w]) \in 1..2 /\ Len(job'[w]) \in 0..1
      /\ \A i \in 1..Len(job'[w]) : job'[w][i] = ExitMsg
  <2>1. Len(job[w]) \in 0..2 /\ (Len(job[w]) = 2 => job[w][2] = ExitMsg)
    BY <1>t DEF JobsInOrder
  <2>2. Len(job[w]) \in 1..2 /\ Len(job'[w]) \in 0..1
    BY <1>3, <1>4, <2>1
  <2>3. CASE Len(job[w]) = 1
    BY <1>3, <1>4, <2>2, <2>3
  <2>4. CASE Len(job[w]) = 2
    <3>1. Len(job'[w]) = 1 /\ job'[w][1] = ExitMsg
      BY <1>3, <1>4, <2>1, <2>4
    <3> QED
      BY <2>2, <3>1
  <2> QED
    BY <2>2, <2>3, <2>4
<1>6. ~Awaited(w)' /\ \A v \in Workers : v # w => (Awaited(v)' <=> Awaited(v))
  <2>1. ASSUME job'[w] # <<>> PROVE job'[w][1] = ExitMsg
    <3>1. 1 \in 1..Len(job'[w])
      BY <1>3, <1>4, <1>5, <2>1, EmptySeq
    <3> QED
      BY <1>5, <3>1
  <2> QED
    BY <1>4, <2>1 DEF Awaited
<1>7. HasJob(w, d) /\ Awaited(w)
  BY <1>3 DEF HasJob, Awaited, d
<1>8. TypeOK'
  <2>1. job' \in [Workers -> Seq(Conns \cup {ExitMsg})]
    BY <1>1, <1>3, <1>t DEF TypeOK
  <2> QED
    BY <1>1, <1>3, <1>t, <2>1 DEF TypeOK, WorkerStates, d
<1>9. JobsInOrder'
  <2>1. \A v \in Workers : Told(v)' <=> Told(v)
    BY <1>1 DEF Told
  <2>2. Len(job'[w]) \in 0..2 /\ Len(job'[w]) # 2
    BY <1>5
  <2>3. ASSUME NEW i \in 1..Len(job'[w]) PROVE Told(w)
    <3>1. Len(job[w]) = 2 /\ 2 \in 1..Len(job[w])
      BY <1>3, <1>4, <1>5
    <3>2. job[w][2] = ExitMsg
      BY <1>t, <3>1 DEF JobsInOrder
    <3> QED
      BY <1>t, <3>1, <3>2 DEF JobsInOrder
  <2> QED
    BY <1>4, <1>t, <2>1, <2>2, <2>3, ZenonT(60) DEF JobsInOrder
<1>10. LoadIsStatus'
  <2>1. \A v \in Workers : v # w => Load(v)' = Load(v) /\ (Dead(v)' <=> Dead(v))
    BY <1>1, <1>4, <1>6 DEF Load, Dead
  <2>2. Load(w)' = Load(w) /\ ~Dead(w)
    BY <1>1, <1>4, <1>6, <1>7, <1>t DEF Load, Dead, TypeOK
  <2> QED
    BY <1>1, <1>t, <2>1, <2>2 DEF LoadIsStatus, ParentGone
<1>11. FdsHeld'
  BY <1>3, <1>4, <1>t DEF FdsHeld
<1>12. Owned'
  <2>1. \A v \in Workers, c \in Conns : HasJob(v, c)' <=> HasJob(v, c) /\ v # w
    BY <1>4, <1>6 DEF HasJob
  <2>2. netFd[w] \notin Conns
    BY <1>1, <1>t DEF FdsHeld
  <2>3. \A v \in Workers, c \in Conns :
           netFd'[v] = c <=> netFd[v] = c \/ (v = w /\ c = d)
    BY <1>4, <2>2
  <2>4. \A c \in Conns : HasJob(w, c) => c = d
    BY <1>3 DEF HasJob
  <2> QED
    BY <1>1, <1>3, <1>7, <1>t, <2>1, <2>2, <2>3, <2>4 DEF Owned, ParentGone
<1>13. EventsTrue'
  BY <1>1, <1>4, <1>t, EventsKept DEF Dead, TypeOK
<1> QED
  BY <1>8, <1>9, <1>10, <1>11, <1>12, <1>13 DEF IInv

(* Every step of a worker. *)
LEMMA WorkerStep == ASSUME IInv, NEW w \in Workers, eventHanler(w) PROVE IInv'
<1>1. CASE RecvFd(w)
  BY <1>1, DropStep, ReceiveStep DEF RecvFd
<1>2. CASE RecvEof(w)
  BY <1>2, WorkerMoves DEF RecvEof, At, WorkerStates, chanVars
<1>3. CASE TransFile(w)
  BY <1>3, WorkerMoves DEF TransFile, At, WorkerStates, chanVars
<1>4. CASE TransFileFatal(w)
  BY <1>4, DropStep DEF TransFileFatal
<1>5. CASE Report(w)
  BY <1>5, WorkerMoves, ServedStep DEF Report, At, WorkerStates, chanVars
<1>6. CASE Close(w)
  BY <1>6, ServedStep DEF Close, At
<1> QED
  BY <1>1, <1>2, <1>3, <1>4, <1>5, <1>6 DEF eventHanler

(* The strengthened invariant is inductive. *)
THEOREM Inductive == Spec => []IInv
<1>1. IInv /\ [Next]_vars => IInv'
  BY QuietSteps, SignalStep, FinishedStep, AcceptStep, ExitStepKeeps, ParentExits, WorkerStep
     DEF Next, Parent
<1> QED
  BY <1>1, InitIInv, PTL DEF Spec

-----------------------------------------------------------------------------
(* What the run checks follows.                                            *)

(* The jobs on their way to w are none or one. *)
LEMMA JobsCounted ==
  ASSUME TypeOK, JobsInOrder, NEW w \in Workers
  PROVE  Cardinality({i \in DOMAIN job[w] : job[w][i] # ExitMsg}) = IF Awaited(w) THEN 1 ELSE 0
<1> DEFINE J == {i \in DOMAIN job[w] : job[w][i] # ExitMsg}
<1>1. job[w] \in Seq(Conns \cup {ExitMsg}) /\ Len(job[w]) \in Nat
  BY DEF TypeOK
<1>2. DOMAIN job[w] = 1..Len(job[w])
  BY <1>1
<1>3. Len(job[w]) \in 0..2 /\ (Len(job[w]) = 2 => job[w][1] # ExitMsg /\ job[w][2] = ExitMsg)
  BY DEF JobsInOrder
<1>4. PICK n \in 0..2 : n = Len(job[w])
  BY <1>3
<1>5. J = {i \in 1..n : job[w][i] # ExitMsg}
  BY <1>2, <1>4
<1>6. Awaited(w) <=> n # 0 /\ job[w][1] # ExitMsg
  BY <1>1, <1>4, EmptySeq DEF Awaited
<1>7. n = 2 => job[w][1] # ExitMsg /\ job[w][2] = ExitMsg
  BY <1>3, <1>4
<1> HIDE DEF J
<1>8. CASE Awaited(w)
  <2>1. \A i \in 1..n : job[w][i] # ExitMsg <=> i = 1
    BY <1>6, <1>7, <1>8
  <2>2. J = {1}
    BY <1>5, <1>6, <1>8, <2>1
  <2> QED
    BY <1>8, <2>2, FS_Singleton DEF J
<1>9. CASE ~Awaited(w)
  <2>1. J = {}
    BY <1>5, <1>6, <1>7, <1>9
  <2> QED
    BY <1>9, <2>1, FS_EmptySet DEF J
<1> QED
  BY <1>8, <1>9

(* A worker never has two jobs and is believed what it is, and an accepted *)
(* connection is held in one place, or by the parent for nobody.           *)
LEMMA Intact == IInv => PoolIntact
<1> SUFFICES ASSUME IInv PROVE PoolIntact
  OBVIOUS
<1>t. TypeOK /\ JobsInOrder /\ LoadIsStatus /\ FdsHeld /\ Owned
  BY DEF IInv
<1>1. StatusAccurate
  BY <1>t, JobsCounted DEF StatusAccurate, Outstanding, LoadIsStatus, Load
<1>2. OneHolder
  <2> SUFFICES ASSUME NEW c \in Conns
               PROVE  /\ conn[c] = "open" <=> (c \in leaked /\ ~ParentGone) \/ Holders(c) # {}
                      /\ Cardinality(Holders(c)) <= 1
                      /\ c \in leaked => Holders(c) = {}
    BY DEF OneHolder
  <2>1. \A w \in Workers : w \in Holders(c) <=> netFd[w] = c \/ HasJob(w, c)
    BY <1>t, HeldByIs DEF Holders
  <2>2. Holders(c) \subseteq Workers
    BY DEF Holders
  <2>3. Cardinality(Holders(c)) <= 1
    <3>1. CASE Holders(c) = {}
      BY <3>1, FS_EmptySet
    <3>2. CASE Holders(c) # {}
      <4>1. PICK w \in Workers : w \in Holders(c)
        BY <2>2, <3>2
      <4>2. Holders(c) = {w}
        BY <1>t, <2>1, <2>2, <4>1 DEF Owned
      <4>3. Cardinality({w}) = 1
        BY FS_Singleton
      <4> QED
        BY <4>2, <4>3
    <3> QED
      BY <3>1, <3>2
  <2> QED
    BY <1>t, <2>1, <2>2, <2>3 DEF Owned
<1> QED
  BY <1>t, <1>1, <1>2 DEF PoolIntact

(* The status of every live worker is accurate, and every accepted         *)
(* connection is held in one place, in every reachable state of a pool of  *)
(* any size (main.c lines 47-85, worker.c lines 24-41).                    *)
THEOREM PoolIsIntact == Spec => []PoolIntact
BY Inductive, Intact, PTL

-----------------------------------------------------------------------------
(* Nobody is killed while no client leaves and the file can be opened.     *)

AllIdle == \A c \in Conns : conn[c] = "idle"

(* Before it listens, the parent has seen nobody; while it runs a worker   *)
(* ends only because it was told to.                                       *)
UpInv ==
  /\ parent \in {"start0", "start1"} => AllIdle
  /\ gone = {} /\ file1 =>
       /\ parent = "killed" => AllIdle
       /\ ~ParentGone => \A w \in Workers : wpc[w] # "killed" /\ (wpc[w] = "exited" => Told(w))
       /\ \A c \in Conns : conn[c] = "dropped" => c \in leaked

(* The parent goes on, and no worker moves. *)
LEMMA UpParent ==
  ASSUME IInv, UpInv, Parent \/ sigFunc \/ \E c \in Conns : Connect(c) \/ Disconnect(c)
  PROVE  UpInv'
<1>t. TypeOK /\ Owned
  BY DEF IInv
<1>1. wpc' = wpc /\ (gone' = {} => gone = {}) /\ file1' = file1
  BY DEF Parent, StartParent, EpollWait, Accept, AcceptFails, StartExit, ExitStep, WaitWorkers,
         WorkerFinished, sigFunc, Connect, Disconnect, workerVars, clientVars
<1>2. CASE \E c \in Conns : Connect(c) \/ Disconnect(c)
  BY <1>1, <1>2, <1>t DEF Connect, Disconnect, UpInv, parentVars, Listening, ParentGone, Told,
     AllIdle, TypeOK
<1>3. CASE sigFunc
  <2>1. CASE parent = "start0" /\ ParentEnds("killed", {})
    <3>1. \A c \in Conns : conn[c] = "idle" /\ c \notin leaked
      BY <1>t, <2>1 DEF UpInv, AllIdle, Owned, ParentGone
    <3>2. parent' = "killed" /\ \A c \in Conns : conn'[c] = "idle"
      BY <2>1, <3>1 DEF ParentEnds
    <3> QED
      BY <3>2 DEF UpInv, AllIdle, ParentGone
  <2>2. CASE UNCHANGED <<parent, conn>>
    BY <1>1, <1>3, <2>2 DEF sigFunc, UpInv, ParentGone, Told, AllIdle
  <2> QED
    BY <1>3, <2>1, <2>2 DEF sigFunc
<1>4. CASE StartParent \/ EpollWait \/ StartExit \/ \E w \in Workers : WorkerFinished(w)
  <2>1. UNCHANGED <<conn, leaked>>
        /\ parent \notin {"exitSend", "wait", "exited", "killed"} /\ ~ParentGone
        /\ (parent' \in {"start0", "start1"} => parent \in {"start0", "start1"})
        /\ parent' \notin {"exited", "killed"}
    BY <1>4 DEF StartParent, EpollWait, StartExit, WorkerFinished, Take, LoopOn, ParentGone
  <2>2. \A w \in Workers : ~Told(w)
    BY <1>4 DEF Told, StartParent, EpollWait, StartExit, WorkerFinished, Take
  <2> QED
    BY <1>1, <2>1, <2>2 DEF UpInv, ParentGone, AllIdle
<1>5. CASE Accept
  <2>1. parent = "dispatch" /\ ~ParentGone /\ \A w \in Workers : ~Told(w)
    BY <1>5 DEF Accept, Take, ParentGone, Told
  <2>2. ASSUME LoopOn, UNCHANGED leaked \/ \E c \in Conns : leaked' = leaked \cup {c},
               NEW c \in Conns, conn' = [conn EXCEPT ![c] = "open"]
        PROVE  UpInv'
    BY <1>1, <1>t, <2>1, <2>2 DEF LoopOn, UpInv, ParentGone, TypeOK
  <2>3. ASSUME NEW w \in Workers, Dead(w), gone' = {}, file1' PROVE FALSE
    BY <1>1, <2>1, <2>3 DEF UpInv, Dead
  <2>4. ASSUME NEW c \in Conns, NEW w \in Workers, Dead(w), ParentEnds("killed", {c})
        PROVE  UpInv'
    BY <2>3, <2>4 DEF UpInv, ParentEnds
  <2> QED
    BY <1>5, <2>2, <2>4 DEF Accept
<1>6. CASE ExitStep
  <2>1. parent = "exitSend" /\ ~ParentGone /\ leaked' = leaked
    BY <1>6 DEF ExitStep, ParentGone
  <2>2. CASE exitIdx' = exitIdx + 1 /\ UNCHANGED <<parent, conn>>
    <3>1. \A w \in Workers : Told(w) => Told(w)'
      BY <1>t, <2>1, <2>2, ProcessPoolAssumption DEF Told, TypeOK, Workers
    <3> QED
      BY <1>1, <2>1, <2>2, <3>1 DEF UpInv, ParentGone
  <2>3. CASE exitIdx < ToTell /\ Dead(exitIdx) /\ ParentEnds("killed", {})
    <3>1. exitIdx \in Workers /\ ~Told(exitIdx)
      BY <1>t, <2>1, <2>3, ProcessPoolAssumption DEF ToTell, Told, TypeOK, Workers
    <3>2. ~(gone' = {} /\ file1')
      BY <1>1, <2>1, <2>3, <3>1 DEF UpInv, Dead
    <3> QED
      BY <2>3, <3>2 DEF UpInv, ParentEnds
  <2>4. CASE parent' = "wait" /\ UNCHANGED <<exitIdx, conn>>
    <3>1. \A w \in Workers : Told(w)'
      BY <2>4 DEF Told
    <3> QED
      BY <1>1, <2>1, <2>4, <3>1 DEF UpInv, ParentGone
  <2> QED
    BY <1>6, <2>2, <2>3, <2>4 DEF ExitStep
<1>7. CASE WaitWorkers \/ AcceptFails
  <2>1. parent' = "exited" /\ leaked' = leaked /\ ~ParentGone
        /\ \A c \in Conns : conn'[c] = "dropped" => c \in leaked \/ conn[c] = "dropped"
    BY <1>7 DEF WaitWorkers, AcceptFails, Take, ParentEnds, ParentGone
  <2> QED
    BY <1>1, <2>1 DEF UpInv, ParentGone
<1> QED
  BY <1>2, <1>3, <1>4, <1>5, <1>6, <1>7 DEF Parent

(* A worker moves: it only gives up what it holds, and while the parent    *)
(* runs it is killed only by a client that is gone.                        *)
LEMMA UpWorker == ASSUME IInv, UpInv, NEW w \in Workers, eventHanler(w) PROVE UpInv'
<1>t. TypeOK /\ JobsInOrder /\ FdsHeld /\ Owned
  BY DEF IInv
<1>1. /\ UNCHANGED <<parent, exitIdx, leaked, gone, file1>>
      /\ \A v \in Workers : v # w => wpc'[v] = wpc[v]
  BY <1>t DEF eventHanler, RecvFd, RecvEof, TransFile, TransFileFatal, Report, Close,
              Goto, parentVars, clientVars, TypeOK
<1>2. \A v \in Workers : Told(v)' <=> Told(v)
  BY <1>1 DEF Told
<1>3. \A c \in Conns : c \in HeldBy(w) => conn[c] = "open"
  BY <1>t, HeldByIs DEF Owned
<1>4. netFd[w] \in Conns => conn[netFd[w]] = "open"
  BY <1>t DEF Owned
<1>5. AllIdle => AllIdle'
  <2>1. CASE RecvFd(w) \/ TransFileFatal(w)
    BY <1>3, <2>1 DEF RecvFd, TransFileFatal, DropAll, AllIdle
  <2>2. CASE RecvEof(w) \/ TransFile(w)
    BY <2>2 DEF RecvEof, TransFile, AllIdle
  <2>3. CASE Report(w) \/ Close(w)
    <3>1. netFd[w] \in Conns
      BY <1>t, <2>3 DEF Report, Close, At, FdsHeld
    <3> QED
      BY <1>4, <2>3, <3>1 DEF Report, Close, AllIdle
  <2> QED
    BY <2>1, <2>2, <2>3 DEF eventHanler
<1>6. ASSUME gone = {}, file1
      PROVE  /\ ~ParentGone => wpc'[w] # "killed" /\ (wpc'[w] = "exited" => Told(w))
             /\ \A c \in Conns : conn'[c] = "dropped" => conn[c] = "dropped"
  <2>1. CASE RecvFd(w)
    <3>1. CASE Head(job[w]) = ExitMsg
      <4>1. /\ job[w] \in Seq(Conns \cup {ExitMsg}) /\ job[w] # <<>>
            /\ DropAll(w) /\ wpc' = [wpc EXCEPT ![w] = "exited"]
        BY <1>t, <2>1, <3>1 DEF RecvFd, Goto, TypeOK
      <4>2. job[w][1] = ExitMsg /\ 1 \in 1..Len(job[w])
        BY <3>1, <4>1, JobReceived
      <4>3. Told(w)
        BY <1>t, <4>2 DEF JobsInOrder
      <4>4. HeldBy(w) = {}
        <5>1. netFd[w] \notin Conns
          BY <1>t, <2>1 DEF RecvFd, At, FdsHeld
        <5>2. ASSUME NEW c \in Conns PROVE ~HasJob(w, c)
          BY <4>2 DEF HasJob, Awaited
        <5> QED
          BY <1>t, <5>1, <5>2, HeldByIs DEF HeldBy
      <4> QED
        BY <1>t, <4>1, <4>3, <4>4 DEF DropAll, TypeOK
    <3>2. CASE Head(job[w]) # ExitMsg
      BY <1>t, <2>1, <3>2 DEF RecvFd, Goto, TypeOK
    <3> QED
      BY <3>1, <3>2
  <2>2. CASE RecvEof(w)
    BY <2>2 DEF RecvEof, EndOfFile, PeerOpen
  <2>3. CASE TransFile(w)
    BY <1>t, <2>3 DEF TransFile, Goto, TypeOK
  <2>4. CASE TransFileFatal(w)
    BY <1>6, <2>4 DEF TransFileFatal
  <2>5. CASE Report(w) \/ Close(w)
    <3>1. netFd[w] \in Conns
      BY <1>t, <2>5 DEF Report, Close, At, FdsHeld
    <3>2. \A c \in Conns : conn'[c] = "dropped" => conn[c] = "dropped"
      BY <1>t, <2>5, <3>1 DEF Report, Close, TypeOK
    <3>3. ~ParentGone => wpc'[w] \in {"close", "recv"}
      BY <1>t, <2>5 DEF Report, Close, Goto, PeerOpen, TypeOK
    <3> QED
      BY <3>2, <3>3
  <2> QED
    BY <2>1, <2>2, <2>3, <2>4, <2>5 DEF eventHanler
<1> QED
  BY <1>1, <1>2, <1>5, <1>6 DEF UpInv, ParentGone

(* While no client leaves and the file can be opened, no process of the    *)
(* pool is killed once connections arrive, and nothing that was handed     *)
(* over is dropped (main.c lines 59-71).                                   *)
THEOREM PoolStaysUp == Spec => []StaysUp
<1>1. Init => UpInv
  BY ProcessPoolAssumption DEF Init, UpInv, AllIdle, ParentGone
<1>2. IInv /\ UpInv /\ [Next]_vars => UpInv'
  <2>1. IInv /\ UpInv /\ UNCHANGED vars => UpInv'
    BY DEF UpInv, vars, parentVars, workerVars, chanVars, clientVars, AllIdle, ParentGone, Told
  <2> QED
    BY <2>1, UpParent, UpWorker DEF Next
<1>3. UpInv => StaysUp
  BY DEF UpInv, StaysUp, AllIdle
<1> QED
  BY <1>1, <1>2, <1>3, Inductive, PTL DEF Spec
==============================================================================

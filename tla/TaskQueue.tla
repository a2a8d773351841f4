------------------------------ MODULE TaskQueue -----------------------------
(***************************************************************************)
(* The task queue of the thread pool (threadPool/server/taskQueue.c): a    *)
(* singly linked list of heap nodes with a front pointer, a rear pointer   *)
(* and a length.  Memory is explicit, because the code leaves pRear        *)
(* dangling when the last node is freed and calloc may hand the same       *)
(* address out again.                                                      *)
(***************************************************************************)
EXTENDS Naturals, FiniteSets

CONSTANTS
  Addr,     (* the addresses calloc can return; its size bounds the queue  *)
  Conns,    (* the connections whose descriptors tasks carry               *)
  NULL,     (* the null pointer                                            *)
  Freed     (* the contents of memory that is not allocated                *)

(* A task_t: the descriptor and the link to the next task. *)
Node == [netFd : Conns, pNext : Addr \cup {NULL}]

ASSUME QueueAssumption == NULL \notin Addr /\ Freed \notin Node

VARIABLES
  pFront,   (* first node, NULL when the queue is empty                    *)
  pRear,    (* last node; keeps its last value when the queue empties      *)
  size,     (* number of nodes                                             *)
  heap      (* the node at each address, or Freed                          *)

queueVars == <<pFront, pRear, size, heap>>

QueueTypeOK ==
  /\ pFront \in Addr \cup {NULL}
  /\ pRear \in Addr \cup {NULL}
  /\ size \in Nat
  /\ heap \in [Addr -> Node \cup {Freed}]

QueueInit ==
  /\ pFront = NULL
  /\ pRear = NULL
  /\ size = 0
  /\ heap = [a \in Addr |-> Freed]

Live == {a \in Addr : heap[a] # Freed}

-----------------------------------------------------------------------------
(* What calloc returns: the address of any memory that is not in use. *)
Calloc == Addr \ Live

NewTask(fd) == [netFd |-> fd, pNext |-> NULL]

IsFirst == size = 0

(* The task, linked to the one that follows it. *)
LinkedTo(task, pTask) == [netFd |-> task.netFd, pNext |-> pTask]

(* Mutant: a new node is linked in front of the list, not behind it.       *)
taskEnqueueAtFront(fd) ==
  \E pTask \in Calloc :
    /\ heap' = [heap EXCEPT ![pTask] = LinkedTo(NewTask(fd), pFront)]
    /\ pFront' = pTask
    /\ pRear' = IF IsFirst THEN pTask ELSE pRear
    /\ size' = size + 1

(* taskEnqueue: link a new node behind pRear, or make it the whole list.   *)
taskEnqueue(fd) ==
  \E pTask \in Calloc :
    /\ \/ /\ IsFirst
          /\ pFront' = pTask
          /\ heap' = [heap EXCEPT ![pTask] = NewTask(fd)]
       \/ /\ ~IsFirst
          /\ pFront' = pFront
          /\ heap' = [heap EXCEPT ![pTask] = NewTask(fd),
                               ![pRear] = LinkedTo(heap[pRear], pTask)]
    /\ pRear' = pTask
    /\ size' = size + 1

(* Mutant: the front pointer is advanced but the node is never freed. *)
taskDequeueLeaks ==
  /\ pFront' = heap[pFront].pNext
  /\ size' = size - 1
  /\ UNCHANGED <<pRear, heap>>

(* taskDequeue: unlink the first node and free it.  pRear is not touched,  *)
(* so it dangles once the list is empty.  The caller must know that the    *)
(* queue is not empty: nothing here tests it.                              *)
taskDequeue ==
  /\ pFront' = heap[pFront].pNext
  /\ heap' = [heap EXCEPT ![pFront] = Freed]
  /\ size' = size - 1
  /\ UNCHANGED pRear

(* The queue driven by any caller that respects taskDequeue's precondition *)
QueueNext ==
  \/ \E fd \in Conns : taskEnqueue(fd)
  \/ size > 0 /\ taskDequeue

QueueSpec == QueueInit /\ [][QueueNext]_queueVars

-----------------------------------------------------------------------------
(* s lists the nodes of the queue from front to rear. *)
IsList(s) ==
  /\ \A i, j \in 1..size : s[i] = s[j] => i = j
  /\ Live = {s[i] : i \in 1..size}
  /\ \A i \in 1..size : i < size => heap[s[i]].pNext = s[i + 1]
  /\ size > 0 => /\ pFront = s[1]
                 /\ pRear = s[size]
                 /\ heap[s[size]].pNext = NULL
  /\ size = 0 => pFront = NULL

(***************************************************************************)
(* The allocated nodes form one chain of length size from pFront to pRear  *)
(* with no cycle, no node lost and no freed node reachable: the writes     *)
(* through pRear in taskEnqueue and the reads through pFront in            *)
(* taskDequeue never touch freed memory (taskQueue.c lines 7-13, 21-23).   *)
(***************************************************************************)
WellFormed == \E s \in [1..size -> Addr] : IsList(s)

(* The nodes reached by following pNext from pFront, and their payload. *)
Nodes ==
  LET node[i \in 1..size] == IF i = 1 THEN pFront ELSE heap[node[i - 1]].pNext
  IN  node

Contents == [i \in 1..size |-> heap[Nodes[i]].netFd]

(***************************************************************************)
(* The linked list behaves as a FIFO queue of descriptors: no task is      *)
(* lost, duplicated or overtaken, including across the empty queue.        *)
(***************************************************************************)
Fifo == INSTANCE TaskFifo WITH queue <- Contents, Fd <- Conns
ImplementsFifo == Fifo!Spec
=============================================================================

-------------------------- MODULE ThreadPoolProofs --------------------------
(***************************************************************************)
(* Proofs about the thread pool, for any number of workers, connections    *)
(* and addresses.  IInv strengthens the invariants of ThreadPool until     *)
(* every step preserves it.                                                *)
(***************************************************************************)
EXTENDS ThreadPool, FiniteSetTheorems, SequenceTheorems, WellFoundedInduction, TLAPS

-----------------------------------------------------------------------------
(* The task queue: its two operations keep the list intact.                *)

(* The list t carries the descriptors that the list s carried, and fd.     *)
ListsBehind(s, t, fd) ==
  /\ \A i \in 1..size : heap'[t[i]].netFd = heap[s[i]].netFd
  /\ heap'[t[size']].netFd = fd

(* taskEnqueue keeps the types and the list, which gets one task longer,   *)
(* whatever address calloc returns (taskQueue.c lines 4-17).               *)
LEMMA EnqueueExtends ==
  ASSUME QueueTypeOK, NEW s \in [1..size -> Addr], IsList(s), NEW fd \in Conns, taskEnqueue(fd)
  PROVE  /\ QueueTypeOK' /\ size' = size + 1
         /\ \E t \in [1..size' -> Addr] : IsList(t)' /\ ListsBehind(s, t, fd)
<1>1. IsList(s)
  OBVIOUS
<1>2. PICK a \in Addr \ Live :
         /\ \/ /\ size = 0
               /\ pFront' = a
               /\ heap' = [heap EXCEPT ![a] = NewTask(fd)]
            \/ /\ size # 0
               /\ pFront' = pFront
               /\ heap' = [heap EXCEPT ![a] = NewTask(fd), ![pRear] = LinkedTo(heap[pRear], a)]
         /\ pRear' = a
         /\ size' = size + 1
  BY DEF taskEnqueue, Calloc, IsFirst
<1>3. heap[a] = Freed
  BY <1>2 DEF Live
<1>n. NewTask(fd) \in Node /\ NewTask(fd) # Freed
  BY QueueAssumption DEF NewTask, Node
<1>4. CASE size = 0
  <2>1. heap' = [heap EXCEPT ![a] = NewTask(fd)] /\ pFront' = a
    BY <1>2, <1>4
  <2>2. QueueTypeOK'
    BY <1>2, <1>n, <1>4, <2>1 DEF QueueTypeOK
  <2>3. Live = {}
    BY <1>1, <1>4 DEF IsList
  <2>4. Live' = {a}
    BY <1>2, <1>n, <2>1, <2>3 DEF Live, QueueTypeOK
  <2>5. PICK t \in [1..1 -> Addr] : t[1] = a
    <3>1. [i \in 1..1 |-> a] \in [1..1 -> Addr] /\ [i \in 1..1 |-> a][1] = a
      OBVIOUS
    <3> QED
      BY <3>1
  <2>6. heap'[a].pNext = NULL
    BY <1>2, <2>1 DEF NewTask, QueueTypeOK
  <2>7. size' = 1 /\ t \in [1..size' -> Addr]
    BY <1>2, <1>4, <2>5
  <2>8. IsList(t)'
    BY <1>2, <2>1, <2>4, <2>5, <2>6, <2>7 DEF IsList
  <2>9. ListsBehind(s, t, fd)
    BY <1>2, <1>4, <2>1, <2>5, <2>7 DEF ListsBehind, NewTask, QueueTypeOK
  <2> QED
    BY <1>2, <2>2, <2>7, <2>8, <2>9
<1>5. CASE size # 0
  <2>1. heap' = [heap EXCEPT ![a] = NewTask(fd), ![pRear] = LinkedTo(heap[pRear], a)] /\ pFront' = pFront
    BY <1>2, <1>5
  <2>2. size \in Nat /\ size > 0
    BY <1>5 DEF QueueTypeOK
  <2>3. pRear = s[size] /\ pRear \in Live /\ pRear \in Addr /\ pRear # a /\ heap[pRear] \in Node
    BY <1>1, <1>2, <2>2 DEF IsList, Live, QueueTypeOK
  <2>4. LinkedTo(heap[pRear], a) \in Node
    BY <1>2, <2>3 DEF Node, LinkedTo
  <2>5. /\ heap'[a] = NewTask(fd)
        /\ heap'[pRear] = LinkedTo(heap[pRear], a)
        /\ \A b \in Addr \ {a, pRear} : heap'[b] = heap[b]
        /\ heap' \in [Addr -> Node \cup {Freed}]
    BY <1>2, <1>n, <2>1, <2>3, <2>4 DEF QueueTypeOK
  <2>6. QueueTypeOK'
    BY <1>2, <2>1, <2>2, <2>5 DEF QueueTypeOK
  <2>7. Live' = Live \cup {a}
    BY <1>2, <1>n, <2>3, <2>4, <2>5, QueueAssumption DEF Live
  <2>8. PICK t \in [1..size' -> Addr] :
          t[size + 1] = a /\ \A i \in 1..size : t[i] = s[i]
    <3> DEFINE u == [i \in 1..size + 1 |-> IF i = size + 1 THEN a ELSE s[i]]
    <3>1. u \in [1..size' -> Addr] /\ u[size + 1] = a /\ \A i \in 1..size : u[i] = s[i]
      BY <1>2, <2>2
    <3> QED
      BY <3>1
  <2>9. \A i \in 1..size : s[i] \in Live /\ s[i] # a
    BY <1>1, <1>2 DEF IsList
  <2>10. \A i, j \in 1..size' : t[i] = t[j] => i = j
    BY <1>1, <1>2, <2>2, <2>8, <2>9 DEF IsList
  <2>11. Live' = {t[i] : i \in 1..size'}
    <3>1. 1..size' = (1..size) \cup {size + 1}
      BY <1>2, <2>2
    <3> QED
      BY <1>1, <2>7, <2>8, <3>1 DEF IsList
  <2>12. \A i \in 1..size' : i < size' => heap'[t[i]].pNext = t[i + 1]
    <3> SUFFICES ASSUME NEW i \in 1..size', i < size'
                 PROVE  heap'[t[i]].pNext = t[i + 1]
      OBVIOUS
    <3>1. i \in 1..size /\ i + 1 \in 1..size' /\ t[i] = s[i]
      BY <1>2, <2>2, <2>8
    <3>2. CASE i = size
      <4>1. t[i] = pRear /\ t[i + 1] = a
        BY <2>3, <2>8, <3>1, <3>2
      <4>2. heap'[pRear].pNext = a
        BY <2>5 DEF LinkedTo
      <4> QED
        BY <4>1, <4>2
    <3>3. CASE i # size
      <4>1. i < size /\ i + 1 \in 1..size /\ t[i + 1] = s[i + 1] /\ size \in 1..size
        BY <2>2, <2>8, <3>1, <3>3
      <4>2. s[i] # pRear /\ s[i] # a /\ s[i] \in Addr
        BY <1>1, <2>3, <2>9, <3>1, <3>3, <4>1 DEF IsList
      <4>3. heap'[s[i]] = heap[s[i]]
        BY <2>5, <4>2
      <4> QED
        BY <1>1, <3>1, <4>1, <4>3 DEF IsList
    <3> QED
      BY <3>2, <3>3
  <2>13. pFront' = t[1] /\ pRear' = t[size'] /\ heap'[t[size']].pNext = NULL
    BY <1>1, <1>2, <2>1, <2>2, <2>5, <2>8 DEF IsList, NewTask
  <2>14. IsList(t)'
    BY <1>2, <2>2, <2>10, <2>11, <2>12, <2>13 DEF IsList
  <2>15. ASSUME NEW i \in 1..size PROVE heap'[t[i]].netFd = heap[s[i]].netFd
    <3>1. t[i] = s[i] /\ s[i] # a /\ s[i] \in Addr
      BY <2>8, <2>9
    <3>2. CASE s[i] = pRear
      BY <2>5, <3>1, <3>2 DEF LinkedTo
    <3>3. CASE s[i] # pRear
      BY <2>5, <3>1, <3>3
    <3> QED
      BY <3>2, <3>3
  <2>16. heap'[t[size']].netFd = fd
    BY <1>2, <2>5, <2>8 DEF NewTask
  <2> QED
    BY <1>2, <2>6, <2>8, <2>14, <2>15, <2>16 DEF ListsBehind
<1> QED
  BY <1>4, <1>5

LEMMA EnqueueKeepsList ==
  ASSUME QueueTypeOK, WellFormed, NEW fd \in Conns, taskEnqueue(fd)
  PROVE  QueueTypeOK' /\ WellFormed'
BY EnqueueExtends DEF WellFormed

(* The list t carries the descriptors of the list s but the first.         *)
ListsRest(s, t) == \A i \in 1..size' : heap'[t[i]].netFd = heap[s[i + 1]].netFd

(* taskDequeue on a queue that is not empty keeps the types and the list,  *)
(* although it leaves pRear dangling when it frees the last node           *)
(* (taskQueue.c lines 20-26).                                              *)
LEMMA DequeueShortens ==
  ASSUME QueueTypeOK, NEW s \in [1..size -> Addr], IsList(s), size > 0, taskDequeue
  PROVE  /\ QueueTypeOK' /\ size' = size - 1
         /\ \E t \in [1..size' -> Addr] : IsList(t)' /\ ListsRest(s, t)
<1>1. IsList(s)
  OBVIOUS
<1>2. /\ size \in Nat /\ 1 \in 1..size /\ size \in 1..size
      /\ size' = size - 1
      /\ pFront = s[1] /\ pFront \in Addr /\ pFront \in Live
      /\ pRear' = pRear /\ pRear = s[size]
  BY <1>1 DEF QueueTypeOK, taskDequeue, IsList
<1>3. /\ heap[pFront] \in Node
      /\ pFront' = heap[pFront].pNext
      /\ heap' \in [Addr -> Node \cup {Freed}]
      /\ heap'[pFront] = Freed
      /\ \A b \in Addr \ {pFront} : heap'[b] = heap[b]
  BY <1>2 DEF QueueTypeOK, taskDequeue, Live
<1>4. QueueTypeOK'
  BY <1>2, <1>3 DEF QueueTypeOK, Node
<1>5. Live' = Live \ {pFront}
  BY <1>3 DEF Live
<1>6. PICK t \in [1..size' -> Addr] : \A i \in 1..size' : t[i] = s[i + 1]
  <2> DEFINE u == [i \in 1..size - 1 |-> s[i + 1]]
  <2>1. u \in [1..size' -> Addr] /\ \A i \in 1..size' : u[i] = s[i + 1]
    BY <1>2
  <2> QED
    BY <2>1
<1>7. \A i \in 1..size' : i \in 1..size /\ i + 1 \in 1..size /\ i < size
  BY <1>2
<1>8. \A i, j \in 1..size' : t[i] = t[j] => i = j
  BY <1>1, <1>2, <1>6, <1>7 DEF IsList
<1>9. \A i \in 1..size' : t[i] # pFront /\ heap'[t[i]] = heap[t[i]]
  BY <1>1, <1>2, <1>3, <1>6, <1>7 DEF IsList
<1>10. Live' = {t[i] : i \in 1..size'}
  <2>1. \A i \in 1..size : i # 1 => i - 1 \in 1..size' /\ t[i - 1] = s[i]
    BY <1>2, <1>6
  <2>2. Live = {s[i] : i \in 1..size}
    BY <1>1 DEF IsList
  <2>3. ASSUME NEW b \in Live' PROVE b \in {t[i] : i \in 1..size'}
    <3>1. b \in Live /\ b # s[1]
      BY <1>2, <1>5
    <3>2. PICK i \in 1..size : b = s[i] /\ i # 1
      BY <2>2, <3>1
    <3> QED
      BY <2>1, <3>2
  <2>4. ASSUME NEW i \in 1..size' PROVE t[i] \in Live'
    <3>1. t[i] = s[i + 1] /\ s[i + 1] \in Live
      BY <1>6, <1>7, <2>2
    <3> QED
      BY <1>5, <1>9, <3>1
  <2> QED
    BY <2>3, <2>4
<1>11. \A i \in 1..size' : i < size' => heap'[t[i]].pNext = t[i + 1]
  <2> SUFFICES ASSUME NEW i \in 1..size', i < size'
               PROVE  heap'[t[i]].pNext = t[i + 1]
    OBVIOUS
  <2>1. i + 1 \in 1..size' /\ i + 1 \in 1..size /\ i + 1 < size
    BY <1>2
  <2>2. t[i] = s[i + 1] /\ t[i + 1] = s[(i + 1) + 1]
    BY <1>6, <2>1
  <2>3. heap[s[i + 1]].pNext = s[(i + 1) + 1]
    BY <1>1, <2>1 DEF IsList
  <2> QED
    BY <1>9, <2>2, <2>3
<1>r. ListsRest(s, t)
  BY <1>6, <1>9 DEF ListsRest
<1>12. CASE size' > 0
  <2>1. 1 \in 1..size' /\ size' \in 1..size' /\ size' + 1 = size /\ 1 < size
    BY <1>2, <1>12
  <2>2. t[1] = s[1 + 1] /\ t[size'] = s[size]
    BY <1>6, <2>1
  <2>3. pFront' = t[1]
    BY <1>1, <1>2, <1>3, <2>1, <2>2 DEF IsList
  <2>4. heap'[t[size']].pNext = NULL
    BY <1>1, <1>2, <1>9, <2>1, <2>2 DEF IsList
  <2>5. IsList(t)'
    BY <1>2, <1>8, <1>10, <1>11, <1>12, <2>2, <2>3, <2>4 DEF IsList
  <2> QED
    BY <1>2, <1>4, <1>6, <1>r, <2>5
<1>13. CASE ~(size' > 0)
  <2>1. size = 1 /\ size' = 0
    BY <1>2, <1>13
  <2>2. pFront' = NULL
    BY <1>1, <1>2, <1>3, <2>1 DEF IsList
  <2>3. IsList(t)'
    BY <1>8, <1>10, <1>11, <2>1, <2>2 DEF IsList
  <2> QED
    BY <1>2, <1>4, <1>6, <1>r, <2>3
<1> QED
  BY <1>12, <1>13

LEMMA DequeueKeepsList ==
  ASSUME QueueTypeOK, WellFormed, size > 0, taskDequeue
  PROVE  QueueTypeOK' /\ WellFormed'
BY DequeueShortens DEF WellFormed

(* What taskEnqueue does to the tasks in memory: one more, which carries   *)
(* fd, and no other task changes its descriptor (taskQueue.c lines 5-13).  *)
LEMMA EnqueueEffect ==
  ASSUME QueueTypeOK, WellFormed, NEW fd \in Conns, taskEnqueue(fd)
  PROVE  \E a \in Addr \ Live :
           /\ Live' = Live \cup {a}
           /\ heap'[a].netFd = fd
           /\ \A b \in Live : heap'[b].netFd = heap[b].netFd
<1>1. PICK s \in [1..size -> Addr] : IsList(s)
  BY DEF WellFormed
<1>2. PICK a \in Addr \ Live :
         \/ size = 0 /\ heap' = [heap EXCEPT ![a] = NewTask(fd)]
         \/ /\ size # 0
            /\ heap' = [heap EXCEPT ![a] = NewTask(fd), ![pRear] = LinkedTo(heap[pRear], a)]
  BY DEF taskEnqueue, Calloc, IsFirst
<1>3. NewTask(fd) \in Node /\ NewTask(fd) # Freed /\ NewTask(fd).netFd = fd
  BY QueueAssumption DEF NewTask, Node
<1>4. CASE size = 0
  BY <1>2, <1>3, <1>4 DEF Live, QueueTypeOK
<1>5. CASE size # 0
  <2>1. pRear \in Live /\ pRear \in Addr /\ pRear # a /\ heap[pRear] \in Node
    BY <1>1, <1>2, <1>5 DEF IsList, Live, QueueTypeOK
  <2>2. /\ LinkedTo(heap[pRear], a) \in Node
        /\ LinkedTo(heap[pRear], a) # Freed
        /\ LinkedTo(heap[pRear], a).netFd = heap[pRear].netFd
    BY <1>2, <2>1, QueueAssumption DEF LinkedTo, Node
  <2>3. /\ heap'[a] = NewTask(fd)
        /\ heap'[pRear] = LinkedTo(heap[pRear], a)
        /\ \A b \in Addr \ {a, pRear} : heap'[b] = heap[b]
    BY <1>2, <1>5, <2>1 DEF QueueTypeOK
  <2> QED
    BY <1>2, <1>3, <2>1, <2>2, <2>3 DEF Live
<1> QED
  BY <1>4, <1>5

(* What taskDequeue does: the first task is gone, the others are as they   *)
(* were (taskQueue.c lines 21-24).                                         *)
LEMMA DequeueEffect ==
  ASSUME QueueTypeOK, WellFormed, size > 0, taskDequeue
  PROVE  /\ pFront \in Live
         /\ heap[pFront].netFd \in Conns
         /\ Live' = Live \ {pFront}
         /\ \A b \in Live' : heap'[b] = heap[b]
<1>1. PICK s \in [1..size -> Addr] : IsList(s)
  BY DEF WellFormed
<1>2. pFront \in Live /\ heap[pFront] \in Node
  BY <1>1 DEF QueueTypeOK, IsList, Live
<1> QED
  BY <1>2 DEF QueueTypeOK, taskDequeue, Live, Node

(* The empty queue that threadPoolInit leaves is a list (main.c 75-77).    *)
LEMMA EmptyQueueIsList == QueueInit => QueueTypeOK /\ WellFormed
<1> SUFFICES ASSUME QueueInit PROVE QueueTypeOK /\ WellFormed
  OBVIOUS
<1>1. QueueTypeOK
  BY DEF QueueInit, QueueTypeOK
<1>2. Live = {}
  BY DEF QueueInit, Live
<1>3. PICK s : s \in [1..size -> Addr]
  <2> DEFINE e == [i \in 1..0 |-> i]
  <2>1. e \in [1..size -> Addr]
    BY DEF QueueInit
  <2> HIDE DEF e
  <2> QED
    BY <2>1
<1>4. IsList(s)
  BY <1>2 DEF QueueInit, IsList
<1> QED
  BY <1>1, <1>3, <1>4 DEF WellFormed

(* Every reachable queue is a well-formed list, whatever the caller does   *)
(* as long as it dequeues only from a queue that is not empty              *)
(* (taskQueue.c).                                                          *)
THEOREM QueueIsList == QueueSpec => [](QueueTypeOK /\ WellFormed)
<1>1. QueueInit => QueueTypeOK /\ WellFormed
  BY EmptyQueueIsList
<1>2. QueueTypeOK /\ WellFormed /\ [QueueNext]_queueVars => QueueTypeOK' /\ WellFormed'
  <2> SUFFICES ASSUME QueueTypeOK, WellFormed, [QueueNext]_queueVars
               PROVE  QueueTypeOK' /\ WellFormed'
    OBVIOUS
  <2>1. CASE \E fd \in Conns : taskEnqueue(fd)
    BY <2>1, EnqueueKeepsList
  <2>2. CASE size > 0 /\ taskDequeue
    BY <2>2, DequeueKeepsList
  <2>3. CASE UNCHANGED queueVars
    BY <2>3 DEF queueVars, QueueTypeOK, WellFormed, IsList, Live
  <2> QED
    BY <2>1, <2>2, <2>3 DEF QueueNext
<1> QED
  BY <1>1, <1>2, PTL DEF QueueSpec

-----------------------------------------------------------------------------
(* The queue implements the abstract queue: Contents is read along the     *)
(* list, of which there is only one.                                       *)

Carried(s) == [i \in 1..size |-> heap[s[i]].netFd]

LEMMA NodesFollowLinks ==
  ASSUME QueueTypeOK, NEW s \in [1..size -> Addr], IsList(s)
  PROVE  Nodes = [i \in 1..size |-> IF i = 1 THEN pFront ELSE heap[Nodes[i - 1]].pNext]
<1>1. s = [i \in 1..size |-> IF i = 1 THEN pFront ELSE heap[s[i - 1]].pNext]
  <2>1. \A i \in 1..size : s[i] = IF i = 1 THEN pFront ELSE heap[s[i - 1]].pNext
    BY DEF IsList, QueueTypeOK
  <2> QED
    BY <2>1
<1>2. Nodes = CHOOSE node : node = [i \in 1..size |-> IF i = 1 THEN pFront ELSE heap[node[i - 1]].pNext]
  BY DEF Nodes
<1> QED
  BY <1>1, <1>2, Zenon

LEMMA HasLeast ==
  ASSUME NEW S \in SUBSET Nat, S # {} PROVE \E x \in S : \A y \in S : ~(y < x)
<1>1. PICK x \in S : \A y \in S : ~(<<y, x>> \in OpToRel(<, Nat))
  BY NatLessThanWellFounded, WFMin
<1>2. OpToRel(<, Nat) = {p \in Nat \X Nat : p[1] < p[2]}
  BY DEF OpToRel
<1> QED
  BY <1>1, <1>2

LEMMA NodesAreList ==
  ASSUME QueueTypeOK, NEW s \in [1..size -> Addr], IsList(s) PROVE Nodes = s
<1>1. Nodes = [i \in 1..size |-> IF i = 1 THEN pFront ELSE heap[Nodes[i - 1]].pNext]
  BY NodesFollowLinks
<1>2. PICK n \in Nat : n = size
  BY DEF QueueTypeOK
<1>3. \A i \in 1..n : Nodes[i] = IF i = 1 THEN pFront ELSE heap[Nodes[i - 1]].pNext
  BY <1>1, <1>2
<1>4. \A i \in 1..n : s[i] = IF i = 1 THEN pFront ELSE heap[s[i - 1]].pNext
  BY <1>2 DEF IsList
<1>5. PICK B \in SUBSET Nat : \A i : i \in B <=> i \in 1..n /\ Nodes[i] # s[i]
  <2>1. {i \in 1..n : Nodes[i] # s[i]} \in SUBSET Nat
    OBVIOUS
  <2> QED
    BY <2>1
<1>6. ASSUME B # {} PROVE FALSE
  <2>1. PICK i \in B : \A j \in B : ~(j < i)
    BY <1>6, HasLeast
  <2>2. i \in 1..n /\ Nodes[i] # s[i]
    BY <1>5
  <2>3. i # 1
    BY <1>3, <1>4, <2>2
  <2>4. i - 1 \in 1..n /\ i - 1 < i
    BY <2>2, <2>3
  <2>5. i - 1 \notin B
    BY <2>1, <2>4
  <2>6. Nodes[i - 1] = s[i - 1]
    BY <1>5, <2>4, <2>5
  <2> QED
    BY <1>3, <1>4, <2>2, <2>3, <2>6
<1>7. \A i \in 1..n : Nodes[i] = s[i]
  BY <1>5, <1>6
<1> QED
  BY <1>1, <1>2, <1>7



LEMMA CarriedType ==
  ASSUME QueueTypeOK, NEW s \in [1..size -> Addr], IsList(s)
  PROVE  Carried(s) \in Seq(Conns) /\ Len(Carried(s)) = size
<1>1. PICK n \in Nat : n = size
  BY DEF QueueTypeOK
<1>2. ASSUME NEW i \in 1..n PROVE heap[s[i]].netFd \in Conns
  <2>1. heap[s[i]] \in Node
    BY <1>1 DEF IsList, Live, QueueTypeOK
  <2> QED
    BY <2>1 DEF Node
<1> QED
  BY <1>1, <1>2 DEF Carried

ListRead ==
  \A s \in [1..size -> Addr] :
    IsList(s) => /\ Contents = Carried(s)
                 /\ Contents \in Seq(Conns) /\ Len(Contents) = size
                 /\ \A i \in 1..size : Contents[i] = heap[s[i]].netFd

LEMMA ListIsRead == QueueTypeOK => ListRead
<1> SUFFICES ASSUME QueueTypeOK, NEW s \in [1..size -> Addr], IsList(s)
             PROVE  Contents = Carried(s)
  BY CarriedType DEF ListRead, Carried
<1> QED
  BY NodesAreList DEF Contents, Carried

LEMMA ListStaysRead == QueueTypeOK' => ListRead'
<1>1. (QueueTypeOK => ListRead)'
  BY ListIsRead, PTL
<1> QED
  BY <1>1

LEMMA ContentsType == QueueTypeOK /\ WellFormed => Contents \in Seq(Conns) /\ Len(Contents) = size
BY ListIsRead DEF ListRead, WellFormed

(* taskEnqueue appends its descriptor (taskQueue.c lines 4-17). *)
LEMMA EnqueueAppends ==
  ASSUME QueueTypeOK, WellFormed, NEW fd \in Conns, taskEnqueue(fd)
  PROVE  Contents' = Append(Contents, fd)
<1>1. PICK s \in [1..size -> Addr] : IsList(s)
  BY DEF WellFormed
<1>2. /\ QueueTypeOK' /\ size' = size + 1
      /\ \E t \in [1..size' -> Addr] : IsList(t)' /\ ListsBehind(s, t, fd)
  BY <1>1, EnqueueExtends
<1>3. PICK t \in [1..size' -> Addr] : IsList(t)' /\ ListsBehind(s, t, fd)
  BY <1>2
<1>5. PICK n \in Nat : n = size
  BY DEF QueueTypeOK
<1>6. PICK q \in Seq(Conns) : q = Contents /\ Len(q) = n
        /\ \A i \in 1..n : q[i] = heap[s[i]].netFd
  BY <1>1, <1>5, ListIsRead DEF ListRead
<1>7. PICK w \in Seq(Conns) : w = Contents' /\ Len(w) = n + 1
        /\ \A i \in 1..n + 1 : w[i] = heap'[t[i]].netFd
  BY <1>2, <1>3, <1>5, ListStaysRead DEF ListRead
<1>8. w[n + 1] = fd /\ \A i \in 1..n : w[i] = q[i]
  <2>1. size' = n + 1
    BY <1>2, <1>5
  <2>2. w[n + 1] = fd
    BY <1>3, <1>5, <1>7, <2>1 DEF ListsBehind
  <2>3. ASSUME NEW i \in 1..n PROVE w[i] = q[i]
    <3>1. i \in 1..size /\ i \in 1..n + 1
      BY <1>5
    <3>2. w[i] = heap'[t[i]].netFd /\ q[i] = heap[s[i]].netFd
      BY <1>6, <1>7, <3>1
    <3> QED
      BY <1>3, <3>1, <3>2 DEF ListsBehind
  <2> QED
    BY <2>2, <2>3
<1>9. PICK a \in Seq(Conns) : a = Append(q, fd) /\ Len(a) = n + 1
        /\ a[n + 1] = fd /\ \A i \in 1..n : a[i] = q[i]
  <2>1. PICK a \in Seq(Conns) : a = Append(q, fd)
    BY AppendProperties
  <2>2. Len(a) = Len(q) + 1 /\ a[Len(q) + 1] = fd /\ \A i \in 1..Len(q) : a[i] = q[i]
    BY <2>1, AppendProperties
  <2> QED
    BY <1>6, <2>1, <2>2
<1>10. \A i \in 1..n + 1 : w[i] = a[i]
  BY <1>8, <1>9
<1>11. w = a
  BY <1>7, <1>9, <1>10, SeqEqual
<1> QED
  BY <1>6, <1>7, <1>9, <1>11

(* taskDequeue drops the first descriptor, which the worker has read from  *)
(* pFront (taskQueue.c lines 20-26, worker.c line 27).                     *)
LEMMA DequeueDropsFirst ==
  ASSUME QueueTypeOK, WellFormed, size > 0, taskDequeue
  PROVE  /\ Contents # <<>> /\ Contents' = Tail(Contents)
         /\ Head(Contents) = heap[pFront].netFd
<1>1. PICK s \in [1..size -> Addr] : IsList(s)
  BY DEF WellFormed
<1>2. /\ QueueTypeOK' /\ size' = size - 1
      /\ \E t \in [1..size' -> Addr] : IsList(t)' /\ ListsRest(s, t)
  BY <1>1, DequeueShortens
<1>3. PICK t \in [1..size' -> Addr] : IsList(t)' /\ ListsRest(s, t)
  BY <1>2
<1>5. PICK n \in Nat : n = size /\ n > 0
  BY DEF QueueTypeOK
<1>6. PICK q \in Seq(Conns) : q = Contents /\ Len(q) = n
        /\ \A i \in 1..n : q[i] = heap[s[i]].netFd
  BY <1>1, <1>5, ListIsRead DEF ListRead
<1>7. PICK w \in Seq(Conns) : w = Contents' /\ Len(w) = n - 1
        /\ \A i \in 1..n - 1 : w[i] = heap'[t[i]].netFd
  BY <1>2, <1>3, <1>5, ListStaysRead DEF ListRead
<1>8. ASSUME NEW i \in 1..n - 1 PROVE w[i] = q[i + 1]
  <2>1. i + 1 \in 1..n
    BY <1>5
  <2>2. size' = n - 1
    BY <1>2, <1>5
  <2>3. heap'[t[i]].netFd = heap[s[i + 1]].netFd
    BY <1>3, <2>2 DEF ListsRest
  <2>4. q[i + 1] = heap[s[i + 1]].netFd
    BY <1>6, <2>1
  <2> QED
    BY <1>7, <2>3, <2>4
<1>9. q # <<>> /\ Head(q) = q[1]
  BY <1>5, <1>6
<1>10. PICK a \in Seq(Conns) : a = Tail(q) /\ Len(a) = n - 1
         /\ \A i \in 1..n - 1 : a[i] = q[i + 1]
  <2>1. PICK a \in Seq(Conns) : a = Tail(q)
    BY <1>9, HeadTailProperties
  <2>2. Len(a) = n - 1
    BY <1>6, <1>9, <2>1, HeadTailProperties
  <2>3. \A i \in 1..Len(a) : a[i] = q[i + 1]
    BY <1>9, <2>1, HeadTailProperties
  <2> QED
    BY <2>1, <2>2, <2>3
<1>11. \A i \in 1..n - 1 : w[i] = a[i]
  BY <1>8, <1>10
<1>12. w = a
  BY <1>7, <1>10, <1>11, SeqEqual
<1>13. q[1] = heap[pFront].netFd
  BY <1>1, <1>5, <1>6 DEF IsList
<1> QED
  BY <1>6, <1>7, <1>9, <1>10, <1>12, <1>13

LEMMA EmptyContents == QueueInit => Contents = <<>>
<1> SUFFICES ASSUME QueueInit PROVE Contents = <<>>
  OBVIOUS
<1>1. Contents \in Seq(Conns) /\ Len(Contents) = 0
  BY EmptyQueueIsList, ContentsType DEF QueueInit
<1>2. PICK q \in Seq(Conns) : q = Contents
  BY <1>1
<1> QED
  BY <1>1, <1>2

LEMMA SameContents == ASSUME UNCHANGED queueVars PROVE Contents' = Contents
BY DEF queueVars, Contents, Nodes

(* No task is lost, duplicated or overtaken, whatever addresses calloc     *)
(* returns, including across the empty queue with its dangling pRear       *)
(* (taskQueue.c).                                                          *)
THEOREM QueueIsFifo == QueueSpec => ImplementsFifo
<1>1. QueueInit => Fifo!Init
  BY EmptyContents DEF Fifo!Init
<1>2. QueueTypeOK /\ WellFormed /\ [QueueNext]_queueVars => [Fifo!Next]_Contents
  <2> SUFFICES ASSUME QueueTypeOK, WellFormed, [QueueNext]_queueVars
               PROVE  [Fifo!Next]_Contents
    OBVIOUS
  <2>1. ASSUME NEW fd \in Conns, taskEnqueue(fd) PROVE Fifo!Next
    BY <2>1, EnqueueAppends DEF Fifo!Next, Fifo!Enqueue
  <2>2. CASE size > 0 /\ taskDequeue
    BY <2>2, DequeueDropsFirst DEF Fifo!Next, Fifo!Dequeue
  <2>3. CASE UNCHANGED queueVars
    BY <2>3, SameContents
  <2> QED
    BY <2>1, <2>2, <2>3 DEF QueueNext
<1> QED
  BY <1>1, <1>2, QueueIsList, PTL DEF QueueSpec, ImplementsFifo, Fifo!Spec

-----------------------------------------------------------------------------
(* The queue operations, as the threads of the pool call them.             *)

(* taskEnqueue keeps the queue intact and adds one task, which carries the *)
(* descriptor (taskQueue.c lines 4-17).                                    *)
LEMMA PoolEnqueue ==
  ASSUME QueueTypeOK, WellFormed, NEW fd \in Conns, taskEnqueue(fd)
  PROVE  /\ QueueTypeOK' /\ WellFormed'
         /\ size' = size + 1
         /\ \E a \in Addr \ Live :
              /\ Live' = Live \cup {a}
              /\ heap'[a].netFd = fd
              /\ \A b \in Live : heap'[b].netFd = heap[b].netFd
<1>1. size' = size + 1
  BY DEF taskEnqueue
<1> QED
  BY <1>1, EnqueueKeepsList, EnqueueEffect

(* taskDequeue keeps the queue intact and removes its first task           *)
(* (taskQueue.c lines 20-26).                                              *)
LEMMA PoolDequeue ==
  ASSUME QueueTypeOK, WellFormed, size > 0, taskDequeue
  PROVE  /\ QueueTypeOK' /\ WellFormed'
         /\ size' = size - 1
         /\ pFront \in Live /\ heap[pFront].netFd \in Conns
         /\ Live' = Live \ {pFront}
         /\ \A b \in Live' : heap'[b] = heap[b]
<1>1. size' = size - 1
  BY DEF taskDequeue
<1> QED
  BY <1>1, DequeueKeepsList, DequeueEffect

(* threadPoolInit leaves an empty, well-formed queue (main.c 75-77). *)
LEMMA PoolQueueInit == QueueInit => QueueTypeOK /\ WellFormed /\ Live = {}
BY EmptyQueueIsList DEF QueueInit, Live

(* A step that leaves the queue's variables alone leaves the queue alone.  *)
LEMMA PoolQueueUnchanged ==
  ASSUME QueueTypeOK, WellFormed, UNCHANGED queueVars
  PROVE  QueueTypeOK' /\ WellFormed' /\ Live' = Live
BY DEF queueVars, QueueTypeOK, WellFormed, IsList, Live

-----------------------------------------------------------------------------
(* What a worker knows of the queue while it holds the mutex.              *)
QueueKnown ==
  \A w \in Workers :
    /\ wpc[w] = "take" => size > 0
    /\ wpc[w] = "testExit" => size > 0 \/ exitFlag = 1
    /\ wpc[w] = "towait" => size = 0

(* The descriptor variables hold a connection where they are used. *)
FdsHeld ==
  /\ mpc = "enqueue" => mainFd \in Conns
  /\ \A w \in Workers : wpc[w] \in InService => netFd[w] \in Conns

(* A worker that has seen exitFlag = 0 and is or will be blocked. *)
Blocking(w) == wpc[w] \in {"towait", "waiting"}

(* Once the flag is visible nobody starts to wait any more, and the        *)
(* broadcast leaves only the worker that was on its way to wait.           *)
ExitSeen ==
  /\ mpc \in {"broadcast", "join"} => exitFlag = 1
  /\ mpc = "join" => \A v, w \in Workers : Blocking(v) /\ Blocking(w) => v = w

IInv ==
  /\ TypeOK
  /\ WellFormed
  /\ MutexInv
  /\ QueueKnown
  /\ FdsHeld
  /\ ExitSeen

(* The pool starts with every thread outside the critical section. *)
LEMMA InitIInv == Init => IInv
<1> SUFFICES ASSUME Init PROVE IInv
  OBVIOUS
<1>1. QueueTypeOK /\ WellFormed
  BY PoolQueueInit DEF Init
<1>2. TypeOK
  BY <1>1 DEF Init, TypeOK, WorkerStates, MainStates
<1>3. MutexInv
  BY ThreadPoolAssumption DEF Init, MutexInv, Critical
<1>4. QueueKnown /\ FdsHeld /\ ExitSeen
  BY DEF Init, QueueKnown, FdsHeld, InService, ExitSeen
<1> QED
  BY <1>1, <1>2, <1>3, <1>4 DEF IInv

(* No step of any thread, process or client disturbs IInv. *)
LEMMA NextIInv == IInv /\ [Next]_vars => IInv'
<1> SUFFICES ASSUME IInv, [Next]_vars PROVE IInv'
  OBVIOUS
<1> USE DEF IInv, TypeOK, MutexInv, QueueKnown, FdsHeld, ExitSeen,
            WorkerStates, MainStates, Critical, InService, Blocking,
            queueVars, mainVars, connVars, procVars
<1>q. ASSUME UNCHANGED queueVars PROVE QueueTypeOK' /\ WellFormed' /\ size' = size
  BY <1>q, PoolQueueUnchanged
<1>1. ASSUME NEW c \in Conns, Connect(c) PROVE IInv'
  BY <1>1, <1>q DEF Connect
<1>2. ASSUME NEW c \in Conns, Disconnect(c) PROVE IInv'
  BY <1>2, <1>q DEF Disconnect
<1>3. ASSUME sigFunc PROVE IInv'
  BY <1>3, <1>q, ZenonT(60) DEF sigFunc
<1>4. ASSUME RegisterHandler PROVE IInv'
  BY <1>4, <1>q DEF RegisterHandler
<1>5. ASSUME WaitChild PROVE IInv'
  BY <1>5, <1>q DEF WaitChild
<1>6. ASSUME EpollWait PROVE IInv'
  BY <1>6, <1>q DEF EpollWait, ReadyEvents
<1>7. ASSUME Accept PROVE IInv'
  BY <1>7, <1>q DEF Accept
<1>8. ASSUME SetExitFlag PROVE IInv'
  BY <1>8, <1>q DEF SetExitFlag
<1>9. ASSUME Broadcast PROVE IInv'
  BY <1>9, <1>q DEF Broadcast, SignalAll, Waiting
<1>10. ASSUME BroadcastBeforeStore PROVE IInv'
  BY <1>10, <1>q DEF BroadcastBeforeStore
<1>11. ASSUME LateStore PROVE IInv'
  BY <1>11, <1>q DEF LateStore
<1>12. ASSUME Join PROVE IInv'
  BY <1>12, <1>q DEF Join
<1>13. ASSUME NEW w \in Workers, CheckEmpty(w) PROVE IInv'
  <2>1. size \in Nat
    BY DEF QueueTypeOK
  <2>2. TypeOK' /\ WellFormed'
    BY <1>13, <1>q DEF CheckEmpty, At, Goto
  <2>3. MutexInv'
    BY <1>13 DEF CheckEmpty, At, Goto
  <2>4. QueueKnown' /\ FdsHeld'
    BY <1>13, <2>1 DEF CheckEmpty, At, Goto
  <2>5. ExitSeen'
    BY <1>13 DEF CheckEmpty, At, Goto
  <2> QED
    BY <2>2, <2>3, <2>4, <2>5
<1>14. ASSUME NEW w \in Workers, Lock(w) PROVE IInv'
  BY <1>14, <1>q, ThreadPoolAssumption DEF Lock, At, Goto, AfterLock, MutexFree
<1>15. ASSUME NEW w \in Workers, CondWait(w) PROVE IInv'
  BY <1>15, <1>q, ThreadPoolAssumption DEF CondWait, At, Goto
<1>16. ASSUME NEW w \in Workers, SpuriousWakeup(w) PROVE IInv'
  BY <1>16, <1>q DEF SpuriousWakeup, At, Goto
<1>17. ASSUME NEW w \in Workers, TestExit(w) PROVE IInv'
  BY <1>17, <1>q, ThreadPoolAssumption DEF TestExit, At, Goto, cleanFunc
<1>18. ASSUME NEW w \in Workers, TransFile(w) PROVE IInv'
  BY <1>18, <1>q DEF TransFile, At, Goto
<1>19. ASSUME NEW w \in Workers, TransFileFatal(w) PROVE IInv'
  BY <1>19, <1>q DEF TransFileFatal, At, Goto
<1>20. ASSUME NEW w \in Workers, Close(w) PROVE IInv'
  BY <1>20, <1>q DEF Close, At, Goto
<1>21. ASSUME EnqueueTask PROVE IInv'
  <2>1. QueueTypeOK' /\ WellFormed' /\ size' = size + 1
    BY <1>21, PoolEnqueue DEF EnqueueTask
  <2>2. \A w \in Workers : wpc[w] \notin Critical
    BY <1>21, ThreadPoolAssumption DEF EnqueueTask, MutexFree
  <2>3. \A w \in Workers : wpc'[w] = wpc[w] \/ wpc'[w] = "relock"
    BY <1>21 DEF EnqueueTask, SignalOne, Goto, Waiting
  <2>4. wpc' \in [Workers -> WorkerStates]
    BY <1>21 DEF EnqueueTask, SignalOne, Goto, Waiting
  <2> QED
    BY <1>21, <2>1, <2>2, <2>3, <2>4 DEF EnqueueTask, NextEvent
<1>22. ASSUME NEW w \in Workers, TakeTask(w) PROVE IInv'
  <2>1. /\ QueueTypeOK' /\ WellFormed' /\ size' = size - 1
        /\ heap[pFront].netFd \in Conns
    BY <1>22, PoolDequeue DEF TakeTask, At
  <2>2. \A v \in Workers : v # w => wpc[v] \notin Critical
    BY <1>22 DEF TakeTask, At
  <2> QED
    BY <1>22, <2>1, <2>2, ThreadPoolAssumption
       DEF TakeTask, At, Goto, cleanFunc
<1>23. CASE UNCHANGED vars
  BY <1>23, <1>q DEF vars
<1> QED
  BY <1>1, <1>2, <1>3, <1>4, <1>5, <1>6, <1>7, <1>8, <1>9, <1>10, <1>11, <1>12,
     <1>13, <1>14, <1>15, <1>16, <1>17, <1>18, <1>19, <1>20, <1>21, <1>22, <1>23
     DEF Next, Client, Parent, Main, handleEvent

(* IInv holds in every reachable state. *)
LEMMA Inductive == Spec => []IInv
BY InitIInv, NextIInv, PTL DEF Spec

(* Every variable keeps its type: no worker takes a descriptor from a task *)
(* that is not there (worker.c lines 27-28).                               *)
THEOREM TypeCorrect == Spec => []TypeOK
<1>1. IInv => TypeOK
  BY DEF IInv
<1> QED
  BY <1>1, Inductive, PTL

(* However a worker leaves the critical section, the mutex is released     *)
(* then and only then (worker.c lines 14-29, 37-40).                       *)
THEOREM MutualExclusion == Spec => []MutexInv
<1>1. IInv => MutexInv
  BY DEF IInv
<1> QED
  BY <1>1, Inductive, PTL

(* The linked list is intact under every interleaving of main and the      *)
(* workers (taskQueue.c).                                                  *)
THEOREM QueueIntact == Spec => []WellFormed
<1>1. IInv => WellFormed
  BY DEF IInv
<1> QED
  BY <1>1, Inductive, PTL

(* taskDequeue is only called on a queue that is not empty, whatever the   *)
(* wakeups that preceded it (worker.c lines 16-28).                        *)
THEOREM DequeueNeverEmpty == Spec => []DequeueSafe
<1>1. IInv => DequeueSafe
  BY DEF IInv, QueueKnown, DequeueSafe
<1> QED
  BY <1>1, Inductive, PTL

(* The unlocked exit broadcast leaves at most one worker asleep, unless it *)
(* overtakes the store of exitFlag (main.c lines 60-61).                   *)
THEOREM BroadcastMissesAtMostOne == Spec => []AtMostOneMissed
<1>1. IInv => AtMostOneMissed
  BY DEF IInv, ExitSeen, AtMostOneMissed, Blocking, Waiting
<1> QED
  BY <1>1, Inductive, PTL

-----------------------------------------------------------------------------
(* Every accepted connection has one owner.                                *)

(* A step that leaves alone where connections are, and which of them are   *)
(* open, keeps OneOwner.                                                   *)
LEMMA OwnersUnchanged ==
  ASSUME IInv, OneOwner,
         UNCHANGED queueVars,
         \A c \in Conns : (conn'[c] = "open") <=> (conn[c] = "open"),
         mainFd' = mainFd, (mpc' = "enqueue") <=> (mpc = "enqueue"),
         netFd' = netFd,
         \A w \in Workers : wpc'[w] \in InService <=> wpc[w] \in InService
  PROVE  OneOwner'
<1>1. Live' = Live /\ heap' = heap
  BY PoolQueueUnchanged DEF IInv, TypeOK, queueVars
<1>2. ASSUME NEW c \in Conns
      PROVE  /\ InMain(c)' <=> InMain(c)
             /\ InQueue(c)' <=> InQueue(c)
             /\ \A w \in Workers : Serving(w, c)' <=> Serving(w, c)
  BY <1>1 DEF InMain, InQueue, Serving, InService
<1> QED
  BY <1>1, <1>2 DEF OneOwner

(* OneOwner at the start: nothing is accepted yet. *)
LEMMA InitOneOwner == Init => OneOwner
<1> SUFFICES ASSUME Init PROVE OneOwner
  OBVIOUS
<1>1. Live = {}
  BY PoolQueueInit DEF Init
<1> QED
  BY <1>1 DEF Init, OneOwner, InMain, InQueue, Serving, InService

(* A connection changes hands only by accept, taskEnqueue, taskDequeue and *)
(* close, and each of them takes it from the one place it is in.           *)
LEMMA NextOneOwner == IInv /\ OneOwner /\ [Next]_vars => OneOwner'
<1> SUFFICES ASSUME IInv, OneOwner, [Next]_vars PROVE OneOwner'
  OBVIOUS
<1>t. TypeOK /\ QueueTypeOK /\ WellFormed
  BY DEF IInv, TypeOK
<1>1. CASE Accept
  <2>1. PICK c \in Conns :
          /\ conn[c] = "backlog" /\ mainFd' = c
          /\ conn' = [conn EXCEPT ![c] = "open"]
    BY <1>1 DEF Accept
  <2>2. /\ mpc = "dispatch" /\ mpc' = "enqueue"
        /\ UNCHANGED <<wpc, netFd>> /\ UNCHANGED queueVars
    BY <1>1 DEF Accept
  <2>3. Live' = Live /\ heap' = heap
    BY <1>t, <2>2, PoolQueueUnchanged DEF queueVars
  <2>4. ASSUME NEW d \in Conns
        PROVE  /\ InMain(d)' <=> d = c
               /\ ~InMain(d)
               /\ InQueue(d)' <=> InQueue(d)
               /\ \A w \in Workers : Serving(w, d)' <=> Serving(w, d)
    BY <2>1, <2>2, <2>3 DEF InMain, InQueue, Serving
  <2>5. ~InQueue(c) /\ \A w \in Workers : ~Serving(w, c)
    BY <2>1 DEF OneOwner
  <2>6. \A d \in Conns : conn'[d] = "open" <=> conn[d] = "open" \/ d = c
    BY <1>t, <2>1 DEF TypeOK
  <2> QED
    BY <2>1, <2>3, <2>4, <2>5, <2>6 DEF OneOwner
<1>2. CASE EnqueueTask
  <2>1. mpc = "enqueue" /\ mainFd \in Conns /\ mpc' # "enqueue"
    BY <1>2 DEF EnqueueTask, IInv, FdsHeld, NextEvent
  <2>2. PICK a \in Addr \ Live :
          /\ Live' = Live \cup {a}
          /\ heap'[a].netFd = mainFd
          /\ \A b \in Live : heap'[b].netFd = heap[b].netFd
    BY <1>2, <1>t, <2>1, PoolEnqueue DEF EnqueueTask
  <2>3. conn' = conn /\ netFd' = netFd
    BY <1>2 DEF EnqueueTask, connVars
  <2>4. \A w \in Workers : wpc'[w] \in InService <=> wpc[w] \in InService
    BY <1>2, <1>t DEF EnqueueTask, SignalOne, Goto, Waiting, TypeOK, InService
  <2>5. ASSUME NEW d \in Conns
        PROVE  /\ InMain(d) <=> d = mainFd
               /\ ~InMain(d)'
               /\ InQueue(d)' <=> InQueue(d) \/ d = mainFd
               /\ \A w \in Workers : Serving(w, d)' <=> Serving(w, d)
    BY <2>1, <2>2, <2>3, <2>4 DEF InMain, InQueue, Serving
  <2>6. ASSUME NEW d \in Conns, NEW b1 \in Live', NEW b2 \in Live',
               heap'[b1].netFd = d, heap'[b2].netFd = d
        PROVE  b1 = b2
    BY <2>1, <2>2, <2>5, <2>6 DEF OneOwner, InQueue
  <2> QED
    BY <2>1, <2>3, <2>5, <2>6 DEF OneOwner
<1>3. ASSUME NEW w \in Workers, TakeTask(w) PROVE OneOwner'
  <2> DEFINE fd == heap[pFront].netFd
  <2>1. /\ pFront \in Live /\ fd \in Conns
        /\ Live' = Live \ {pFront}
        /\ \A b \in Live' : heap'[b] = heap[b]
    BY <1>3, <1>t, PoolDequeue DEF TakeTask, At, IInv, QueueKnown
  <2>2. /\ wpc[w] = "take" /\ wpc' = [wpc EXCEPT ![w] = "serve"]
        /\ netFd' = [netFd EXCEPT ![w] = fd]
        /\ conn' = conn /\ mpc' = mpc /\ mainFd' = mainFd
    BY <1>3 DEF TakeTask, At, Goto, connVars, mainVars
  <2>3. InQueue(fd) /\ \A b \in Live : heap[b].netFd = fd => b = pFront
    BY <2>1 DEF InQueue, OneOwner
  <2>4. ASSUME NEW d \in Conns
        PROVE  /\ InMain(d)' <=> InMain(d)
               /\ InQueue(d)' <=> InQueue(d) /\ d # fd
               /\ \A v \in Workers : Serving(v, d)' <=> Serving(v, d) \/ (v = w /\ d = fd)
    <3>1. InMain(d)' <=> InMain(d)
      BY <2>2 DEF InMain
    <3>2. InQueue(d)' <=> InQueue(d) /\ d # fd
      BY <2>1, <2>3 DEF InQueue
    <3>3. \A v \in Workers : Serving(v, d)' <=> Serving(v, d) \/ (v = w /\ d = fd)
      BY <1>t, <2>2 DEF Serving, InService, TypeOK
    <3> QED
      BY <3>1, <3>2, <3>3
  <2> HIDE DEF fd
  <2>5. ASSUME NEW d \in Conns, NEW b1 \in Live', NEW b2 \in Live',
               heap'[b1].netFd = d, heap'[b2].netFd = d
        PROVE  b1 = b2
    BY <2>1, <2>5 DEF OneOwner
  <2> QED
    BY <2>1, <2>2, <2>3, <2>4, <2>5 DEF OneOwner
<1>4. ASSUME NEW w \in Workers, Close(w) PROVE OneOwner'
  <2> DEFINE fd == netFd[w]
  <2>1. /\ wpc[w] = "close" /\ wpc' = [wpc EXCEPT ![w] = "free"]
        /\ netFd' = [netFd EXCEPT ![w] = NoFd]
        /\ conn' = [conn EXCEPT ![fd] = "closed"]
        /\ mpc' = mpc /\ mainFd' = mainFd /\ UNCHANGED queueVars
        /\ fd \in Conns
    BY <1>4 DEF Close, At, Goto, mainVars, IInv, FdsHeld, InService
  <2>2. Live' = Live /\ heap' = heap
    BY <1>t, <2>1, PoolQueueUnchanged DEF queueVars
  <2>3. Serving(w, fd)
    BY <2>1 DEF Serving, InService
  <2>4. ASSUME NEW d \in Conns
        PROVE  /\ InMain(d)' <=> InMain(d)
               /\ InQueue(d)' <=> InQueue(d)
               /\ \A v \in Workers : Serving(v, d)' <=> Serving(v, d) /\ v # w
               /\ Serving(w, d) <=> d = fd
               /\ conn'[d] = "open" <=> conn[d] = "open" /\ d # fd
    BY <1>t, <2>1, <2>2 DEF InMain, InQueue, Serving, InService, TypeOK
  <2> HIDE DEF fd
  <2> QED
    BY <2>1, <2>2, <2>3, <2>4 DEF OneOwner
<1>5. ASSUME NEW c \in Conns, Connect(c) PROVE OneOwner'
  BY <1>5, <1>t, OwnersUnchanged DEF Connect, mainVars, TypeOK
<1>6. CASE \/ \E c \in Conns : Disconnect(c)
           \/ sigFunc \/ Parent
           \/ EpollWait \/ SetExitFlag \/ BroadcastBeforeStore \/ LateStore \/ Join
           \/ UNCHANGED vars
  BY <1>6, OwnersUnchanged
     DEF Disconnect, sigFunc, Parent, RegisterHandler, WaitChild, EpollWait, SetExitFlag,
         BroadcastBeforeStore, LateStore, Join, vars, connVars, mainVars
<1>7. CASE Broadcast
  <2>1. \A w \in Workers : wpc'[w] \in InService <=> wpc[w] \in InService
    BY <1>7 DEF Broadcast, SignalAll, Waiting, InService
  <2> QED
    BY <1>7, <2>1, OwnersUnchanged DEF Broadcast, connVars
<1>8. ASSUME NEW w \in Workers,
             \/ Lock(w) \/ CheckEmpty(w) \/ CondWait(w) \/ SpuriousWakeup(w)
             \/ TestExit(w) \/ TransFile(w) \/ TransFileFatal(w)
      PROVE  OneOwner'
  <2>1. \A v \in Workers : wpc'[v] \in InService <=> wpc[v] \in InService
    BY <1>8, <1>t DEF Lock, CheckEmpty, CondWait, SpuriousWakeup, TestExit, TransFile,
                      TransFileFatal, At, Goto, AfterLock, InService, TypeOK
  <2>2. UNCHANGED queueVars /\ UNCHANGED <<netFd, mpc, mainFd, conn>>
    BY <1>8 DEF Lock, CheckEmpty, CondWait, SpuriousWakeup, TestExit, TransFile,
                TransFileFatal, connVars, mainVars
  <2> QED
    BY <2>1, <2>2, OwnersUnchanged
<1> QED
  BY <1>1, <1>2, <1>3, <1>4, <1>5, <1>6, <1>7, <1>8
     DEF Next, Client, Main, handleEvent

(* No accepted connection is forgotten, served by two workers or closed    *)
(* twice, under every interleaving (main.c line 44 to worker.c line 33).   *)
THEOREM EveryConnectionOwned == Spec => []OneOwner
BY Inductive, InitOneOwner, NextOneOwner, PTL DEF Spec

-----------------------------------------------------------------------------
(* The regular shutdown.                                                   *)

(* The process ends through the joins, when every worker is terminated;    *)
(* and nothing of it runs afterwards.                                      *)
EndedByJoin == child = "exited" => mpc = "exited" /\ \A w \in Workers : wpc[w] = "dead"

(* Nobody has ended at the beginning. *)
LEMMA InitEndedByJoin == Init => EndedByJoin
BY DEF Init, EndedByJoin

(* Every step keeps it: the exits are before the joins. *)
LEMMA NextEndedByJoin == EndedByJoin /\ [Next]_vars => EndedByJoin'
<1> SUFFICES ASSUME EndedByJoin, [Next]_vars PROVE EndedByJoin'
  OBVIOUS
<1> USE DEF EndedByJoin, Running, mainVars, connVars, procVars
<1>1. CASE Join
  BY <1>1 DEF Join, AllJoined
<1>2. CASE Client \/ sigFunc \/ Parent \/ UNCHANGED vars
  BY <1>2 DEF Client, Connect, Disconnect, sigFunc, Parent, RegisterHandler, WaitChild, vars
<1>3. CASE \/ EpollWait \/ Accept \/ EnqueueTask \/ SetExitFlag \/ Broadcast
           \/ BroadcastBeforeStore \/ LateStore
  BY <1>3 DEF EpollWait, Accept, EnqueueTask, SetExitFlag, Broadcast,
              BroadcastBeforeStore, LateStore
<1>4. ASSUME NEW w \in Workers, handleEvent(w) PROVE EndedByJoin'
  BY <1>4 DEF handleEvent, Lock, CheckEmpty, CondWait, SpuriousWakeup, TestExit, TakeTask,
              TransFile, TransFileFatal, Close, At
<1> QED
  BY <1>1, <1>2, <1>3, <1>4 DEF Next, Main

(* The regular shutdown cuts no transfer short: when the process has       *)
(* exited, every connection still open was waiting in the queue (main.c    *)
(* lines 60-65).                                                           *)
THEOREM ShutdownDrains == Spec => []GracefulDrain
<1>1. OneOwner /\ EndedByJoin => GracefulDrain
  BY DEF OneOwner, EndedByJoin, GracefulDrain, InMain, Serving, InService
<1>2. Spec => []EndedByJoin
  BY InitEndedByJoin, NextEndedByJoin, PTL DEF Spec
<1> QED
  BY <1>1, <1>2, EveryConnectionOwned, PTL

-----------------------------------------------------------------------------
(* No wakeup for a task is lost.                                           *)

(* The sets of threads that are counted are finite. *)
LEMMA AwakeFinite == IsFiniteSet(Awake) /\ Cardinality(Awake) \in Nat
<1>1. IsFiniteSet(Awake)
  BY ThreadPoolAssumption, FS_Subset DEF Awake
<1> QED
  BY <1>1, FS_CardinalityType

(* A step that puts nobody to sleep, in or after whom no task is queued.   *)
LEMMA NobodySleeps ==
  ASSUME IInv, WorkConserving, size' = size, Awake \subseteq Awake',
         exitFlag' = 0 => exitFlag = 0 /\ Waiting' \subseteq Waiting
  PROVE  WorkConserving'
<1>1. IsFiniteSet(Awake') /\ Cardinality(Awake') \in Nat /\ Cardinality(Awake) \in Nat
  <2>1. IsFiniteSet(Awake')
    BY ThreadPoolAssumption, FS_Subset DEF Awake
  <2> QED
    BY <2>1, AwakeFinite, FS_CardinalityType
<1>2. Cardinality(Awake) <= Cardinality(Awake')
  BY <1>1, FS_Subset
<1>3. size \in Nat
  BY DEF IInv, TypeOK, QueueTypeOK
<1> QED
  BY <1>1, <1>2, <1>3 DEF WorkConserving

(* Nobody sleeps at the beginning. *)
LEMMA InitWorkConserving == Init => WorkConserving
BY DEF Init, QueueInit, WorkConserving, Waiting

(* Queueing a task wakes a thread for it if one sleeps; only a thread that *)
(* finds the queue empty goes to sleep; a thread that leaves to serve has  *)
(* taken a task with it.                                                   *)
LEMMA NextWorkConserving == IInv /\ WorkConserving /\ [Next]_vars => WorkConserving'
<1> SUFFICES ASSUME IInv, WorkConserving, [Next]_vars PROVE WorkConserving'
  OBVIOUS
<1>t. TypeOK /\ QueueTypeOK /\ WellFormed /\ size \in Nat
  BY DEF IInv, TypeOK, QueueTypeOK
<1>1. CASE EnqueueTask
  <2>1. size' = size + 1 /\ exitFlag' = exitFlag
    BY <1>1 DEF EnqueueTask, taskEnqueue
  <2>2. CASE Waiting = {} /\ UNCHANGED wpc
    BY <2>2 DEF WorkConserving, Waiting
  <2>3. ASSUME NEW w \in Waiting, Goto(w, "relock") PROVE WorkConserving'
    <3>1. w \in Workers /\ w \notin Awake /\ Awake' = Awake \cup {w}
      BY <1>t, <2>3 DEF Waiting, Awake, Goto, TypeOK
    <3>2. Cardinality(Awake') = Cardinality(Awake) + 1
      BY <3>1, AwakeFinite, FS_AddElement
    <3> QED
      BY <1>t, <2>1, <3>2, AwakeFinite DEF WorkConserving
  <2> QED
    BY <1>1, <2>2, <2>3 DEF EnqueueTask, SignalOne
<1>2. ASSUME NEW w \in Workers, TakeTask(w) PROVE WorkConserving'
  <2>1. size' = size - 1 /\ exitFlag' = exitFlag
    BY <1>2 DEF TakeTask, taskDequeue
  <2>2. w \in Awake /\ Awake' = Awake \ {w} /\ Waiting' = Waiting
    BY <1>2, <1>t DEF TakeTask, At, Goto, Awake, Waiting, TypeOK
  <2>3. Cardinality(Awake') = Cardinality(Awake) - 1
    BY <2>2, AwakeFinite, FS_RemoveElement
  <2> QED
    BY <1>t, <2>1, <2>2, <2>3, AwakeFinite DEF WorkConserving
<1>3. ASSUME NEW w \in Workers, CheckEmpty(w) \/ CondWait(w) PROVE WorkConserving'
  <2>1. CASE size = 0
    <3>1. size' = 0
      BY <1>3, <2>1 DEF CheckEmpty, CondWait, queueVars
    <3>2. Cardinality(Awake') \in Nat
      BY ThreadPoolAssumption, FS_Subset, FS_CardinalityType DEF Awake
    <3> QED
      BY <3>1, <3>2 DEF WorkConserving
  <2>2. CASE size # 0
    <3>1. /\ wpc[w] = "check" /\ wpc' = [wpc EXCEPT ![w] = "testExit"]
          /\ size' = size /\ exitFlag' = exitFlag
      BY <1>3, <2>2 DEF CheckEmpty, CondWait, At, Goto, queueVars, IInv, QueueKnown
    <3>2. Awake' = Awake /\ Waiting' = Waiting
      BY <1>t, <3>1 DEF Awake, Waiting, TypeOK
    <3> QED
      BY <3>1, <3>2, NobodySleeps
  <2> QED
    BY <2>1, <2>2
<1>4. ASSUME NEW w \in Workers,
             \/ Lock(w) \/ SpuriousWakeup(w) \/ TransFile(w) \/ TransFileFatal(w) \/ Close(w)
      PROVE  WorkConserving'
  <2>1. Awake \subseteq Awake' /\ Waiting' \subseteq Waiting
    BY <1>4, <1>t DEF Lock, SpuriousWakeup, TransFile, TransFileFatal, Close, At, Goto,
                      AfterLock, Awake, Waiting, TypeOK
  <2>2. size' = size /\ exitFlag' = exitFlag
    BY <1>4 DEF Lock, SpuriousWakeup, TransFile, TransFileFatal, Close, queueVars
  <2> QED
    BY <2>1, <2>2, NobodySleeps
<1>5. ASSUME NEW w \in Workers, TestExit(w) PROVE WorkConserving'
  <2>1. exitFlag' = exitFlag /\ size' = size
    BY <1>5 DEF TestExit, queueVars
  <2>2. CASE exitFlag # 0
    BY <2>1, <2>2 DEF WorkConserving
  <2>3. CASE exitFlag = 0
    <3>1. Awake' = Awake /\ Waiting' = Waiting
      BY <1>5, <1>t, <2>3 DEF TestExit, At, Goto, Awake, Waiting, TypeOK
    <3> QED
      BY <2>1, <3>1, NobodySleeps
  <2> QED
    BY <2>2, <2>3
<1>6. CASE SetExitFlag \/ LateStore \/ Broadcast
  <2>1. exitFlag' = 1
    BY <1>6 DEF SetExitFlag, LateStore, Broadcast, IInv, ExitSeen
  <2> QED
    BY <2>1 DEF WorkConserving
<1>7. CASE Client \/ sigFunc \/ Parent \/ EpollWait \/ Accept \/ BroadcastBeforeStore \/ Join
           \/ UNCHANGED vars
  BY <1>7, NobodySleeps
     DEF Client, Connect, Disconnect, sigFunc, Parent, RegisterHandler, WaitChild, EpollWait,
         Accept, BroadcastBeforeStore, Join, vars, queueVars, Awake, Waiting
<1> QED
  BY <1>1, <1>2, <1>3, <1>4, <1>5, <1>6, <1>7 DEF Next, Main, handleEvent

(* While a worker sleeps, there is an awake one for every queued task:     *)
(* cond_signal once per task is enough (main.c line 52, worker.c lines     *)
(* 16-17).                                                                 *)
THEOREM NoLostWakeup == Spec => []WorkConserving
BY Inductive, InitWorkConserving, NextWorkConserving, PTL DEF Spec

-----------------------------------------------------------------------------
(* The pool implements the abstract queue and the abstract service.        *)

OtherStep ==
  \/ Client \/ sigFunc \/ Parent \/ EpollWait \/ Accept \/ SetExitFlag \/ Broadcast
  \/ BroadcastBeforeStore \/ LateStore \/ Join
  \/ \E w \in Workers : \/ Lock(w) \/ CheckEmpty(w) \/ CondWait(w) \/ SpuriousWakeup(w)
                        \/ TestExit(w) \/ TransFile(w) \/ TransFileFatal(w)

LEMMA StepKinds ==
  ASSUME [Next]_vars
  PROVE  \/ EnqueueTask \/ OtherStep \/ UNCHANGED vars
         \/ \E w \in Workers : TakeTask(w) \/ Close(w)
BY DEF Next, Main, handleEvent, OtherStep

LEMMA OthersLeaveQueue ==
  ASSUME OtherStep PROVE UNCHANGED queueVars
BY DEF OtherStep, Client, Connect, Disconnect, sigFunc, Parent, RegisterHandler, WaitChild,
       EpollWait, Accept, SetExitFlag, Broadcast, BroadcastBeforeStore, LateStore, Join,
       Lock, CheckEmpty, CondWait, SpuriousWakeup, TestExit, TransFile, TransFileFatal

LEMMA TaskAppended ==
  ASSUME IInv, EnqueueTask PROVE mainFd \in Conns /\ Contents' = Append(Contents, mainFd)
<1>1. QueueTypeOK /\ WellFormed /\ mainFd \in Conns /\ taskEnqueue(mainFd)
  BY DEF IInv, TypeOK, FdsHeld, EnqueueTask
<1> QED
  BY <1>1, EnqueueAppends

LEMMA TaskTaken ==
  ASSUME IInv, NEW w \in Workers, TakeTask(w)
  PROVE  /\ Contents # <<>> /\ Contents' = Tail(Contents)
         /\ netFd' = [netFd EXCEPT ![w] = Head(Contents)]
<1>1. QueueTypeOK /\ WellFormed /\ size > 0 /\ taskDequeue
  BY DEF IInv, TypeOK, QueueKnown, TakeTask, At
<1>2. Contents # <<>> /\ Contents' = Tail(Contents) /\ Head(Contents) = heap[pFront].netFd
  BY <1>1, DequeueDropsFirst
<1> QED
  BY <1>2 DEF TakeTask

(* Whatever threads do to the list under the mutex is a step of a FIFO     *)
(* queue: no task is lost, duplicated or overtaken (main.c lines 46-53,    *)
(* worker.c lines 27-28).                                                  *)
THEOREM PoolKeepsFifo == Spec => ImplementsFifo
<1>1. Init => Fifo!Init
  BY EmptyContents DEF Init, Fifo!Init
<1>2. IInv /\ [Next]_vars => [Fifo!Next]_Contents
  <2> SUFFICES ASSUME IInv, [Next]_vars PROVE [Fifo!Next]_Contents
    OBVIOUS
  <2>1. CASE EnqueueTask
    BY <2>1, TaskAppended DEF Fifo!Next, Fifo!Enqueue
  <2>2. ASSUME NEW w \in Workers, TakeTask(w) PROVE Fifo!Next
    BY <2>2, TaskTaken DEF Fifo!Next, Fifo!Dequeue
  <2>3. ASSUME NEW w \in Workers, Close(w) PROVE UNCHANGED queueVars
    BY <2>3 DEF Close
  <2>4. CASE UNCHANGED queueVars
    BY <2>4, SameContents
  <2> QED
    BY <2>1, <2>2, <2>3, <2>4, StepKinds, OthersLeaveQueue DEF vars
<1> QED
  BY <1>1, <1>2, Inductive, PTL DEF Spec, ImplementsFifo, Fifo!Spec

(* What stands for the variables of PoolService. *)
ServingNow == {netFd[w] : w \in {v \in Workers : wpc[v] \in InService}}
ClosedNow == {c \in Conns : conn[c] = "closed"}

LEMMA QueuedAreTasks ==
  ASSUME QueueTypeOK, WellFormed, NEW c, \E i \in 1..Len(Contents) : Contents[i] = c
  PROVE  InQueue(c)
<1>1. PICK s \in [1..size -> Addr] : IsList(s)
  BY DEF WellFormed
<1>2. /\ Len(Contents) = size
      /\ \A i \in 1..size : Contents[i] = heap[s[i]].netFd
  BY <1>1, ListIsRead DEF ListRead
<1>3. PICK i \in 1..size : heap[s[i]].netFd = c
  BY <1>2
<1>4. s[i] \in Live
  BY <1>1 DEF IsList
<1> QED
  BY <1>3, <1>4 DEF InQueue

LEMMA OthersServeSame ==
  ASSUME IInv, OtherStep PROVE ServingNow' = ServingNow /\ ClosedNow' = ClosedNow
<1>t. TypeOK
  BY DEF IInv
<1>1. \A w \in Workers : wpc'[w] \in InService <=> wpc[w] \in InService
  <2>1. CASE \E w \in Workers : \/ Lock(w) \/ CheckEmpty(w) \/ CondWait(w) \/ SpuriousWakeup(w)
                                \/ TestExit(w) \/ TransFile(w) \/ TransFileFatal(w)
    BY <1>t, <2>1 DEF Lock, CheckEmpty, CondWait, SpuriousWakeup, TestExit, TransFile,
           TransFileFatal, At, Goto, AfterLock, InService, TypeOK
  <2>2. CASE Broadcast
    BY <1>t, <2>2 DEF Broadcast, SignalAll, Waiting, InService, TypeOK
  <2>3. CASE \/ Client \/ sigFunc \/ Parent \/ EpollWait \/ Accept \/ SetExitFlag
             \/ BroadcastBeforeStore \/ LateStore \/ Join
    BY <2>3 DEF Client, Connect, Disconnect, sigFunc, Parent, RegisterHandler, WaitChild,
           EpollWait, Accept, SetExitFlag, BroadcastBeforeStore, LateStore, Join
  <2> QED
    BY <2>1, <2>2, <2>3 DEF OtherStep
<1>2. netFd' = netFd
  BY DEF OtherStep, Client, Connect, Disconnect, sigFunc, Parent, RegisterHandler, WaitChild,
       EpollWait, Accept, SetExitFlag, Broadcast, BroadcastBeforeStore, LateStore, Join,
       Lock, CheckEmpty, CondWait, SpuriousWakeup, TestExit, TransFile, TransFileFatal
<1>3. \A c \in Conns : conn'[c] = "closed" <=> conn[c] = "closed"
  <2>1. CASE Client \/ Accept
    BY <1>t, <2>1 DEF Client, Connect, Disconnect, Accept, TypeOK
  <2>2. CASE UNCHANGED conn
    BY <2>2
  <2> QED
    BY <2>1, <2>2 DEF OtherStep, sigFunc, Parent, RegisterHandler, WaitChild,
       EpollWait, SetExitFlag, Broadcast, BroadcastBeforeStore, LateStore, Join, connVars,
       Lock, CheckEmpty, CondWait, SpuriousWakeup, TestExit, TransFile, TransFileFatal
<1> QED
  BY <1>1, <1>2, <1>3 DEF ServingNow, ClosedNow

LEMMA EnqueueSubmits ==
  ASSUME IInv, OneOwner, EnqueueTask PROVE \E c \in Conns : Service!Submit(c)
<1>1. mainFd \in Conns /\ Contents' = Append(Contents, mainFd)
  BY TaskAppended
<1>2. InMain(mainFd)
  BY DEF EnqueueTask, InMain
<1>3. /\ conn[mainFd] = "open" /\ ~InQueue(mainFd)
      /\ \A w \in Workers : ~Serving(w, mainFd)
  BY <1>1, <1>2 DEF OneOwner
<1>4. ~Service!InQueue(mainFd)
  BY <1>3, QueuedAreTasks DEF Service!InQueue, IInv, TypeOK
<1>5. mainFd \notin ServingNow \cup ClosedNow
  BY <1>3 DEF ServingNow, ClosedNow, Serving
<1>6. \A w \in Workers : wpc'[w] \in InService <=> wpc[w] \in InService
  BY DEF EnqueueTask, SignalOne, Goto, Waiting, InService, IInv, TypeOK
<1>7. ServingNow' = ServingNow /\ ClosedNow' = ClosedNow
  BY <1>6 DEF EnqueueTask, ServingNow, ClosedNow, connVars
<1>8. Service!Submit(mainFd)
  BY <1>1, <1>4, <1>5, <1>7 DEF Service!Submit, ServingNow, ClosedNow
<1> QED
  BY <1>1, <1>8

LEMMA TakeStarts ==
  ASSUME IInv, NEW w \in Workers, TakeTask(w) PROVE Service!Start
<1>t. wpc \in [Workers -> WorkerStates] /\ netFd \in [Workers -> Conns \cup {NoFd}]
  BY DEF IInv, TypeOK
<1>1. /\ Contents # <<>> /\ Contents' = Tail(Contents)
      /\ netFd' = [netFd EXCEPT ![w] = Head(Contents)]
  BY TaskTaken
<1>2. PICK h : h = Head(Contents)
  OBVIOUS
<1>3. wpc[w] = "take" /\ wpc' = [wpc EXCEPT ![w] = "serve"]
  BY DEF TakeTask, At, Goto
<1>4. /\ wpc'[w] \in InService /\ wpc[w] \notin InService /\ netFd'[w] = h
      /\ \A v \in Workers \ {w} : wpc'[v] = wpc[v] /\ netFd'[v] = netFd[v]
  BY <1>t, <1>1, <1>2, <1>3 DEF InService
<1>5. ServingNow' = ServingNow \cup {h}
  BY <1>4 DEF ServingNow
<1>6. ClosedNow' = ClosedNow
  BY DEF TakeTask, ClosedNow, connVars
<1> QED
  BY <1>1, <1>2, <1>5, <1>6 DEF Service!Start, ServingNow, ClosedNow

LEMMA CloseFinishes ==
  ASSUME IInv, OneOwner, NEW w \in Workers, Close(w)
  PROVE  \E c \in Conns : Service!Finish(c)
<1>t. TypeOK
  BY DEF IInv
<1>1. PICK c \in Conns : c = netFd[w]
  BY DEF IInv, FdsHeld, Close, At, InService
<1>2. Serving(w, c)
  BY <1>1 DEF Serving, Close, At, InService
<1>3. \A v \in Workers : Serving(v, c) => v = w
  BY <1>2 DEF OneOwner
<1>4. /\ wpc'[w] \notin InService
      /\ \A v \in Workers \ {w} : wpc'[v] = wpc[v] /\ netFd'[v] = netFd[v]
  BY <1>t DEF Close, Goto, InService, TypeOK
<1>5. ServingNow' = ServingNow \ {c}
  <2>1. \A v \in Workers \ {w} : wpc[v] \in InService => netFd[v] # c
    BY <1>3 DEF Serving
  <2> QED
    BY <1>1, <1>4, <2>1 DEF ServingNow
<1>6. c \in ServingNow
  BY <1>2 DEF ServingNow, Serving
<1>7. ClosedNow' = ClosedNow \cup {c}
  BY <1>t, <1>1 DEF Close, ClosedNow, TypeOK
<1>8. Contents' = Contents
  BY SameContents DEF Close
<1>9. Service!Finish(c)
  BY <1>5, <1>6, <1>7, <1>8 DEF Service!Finish, ServingNow, ClosedNow
<1> QED
  BY <1>9

(* The pool is the service it promises: connections are started in the     *)
(* order they were accepted, each is served by one worker and once, and    *)
(* closed only after it was served, for any number of workers (main.c      *)
(* lines 43-53, worker.c lines 27-33).                                     *)
THEOREM PoolIsService == Spec => ImplementsService
<1>1. Init => Service!Init
  <2> SUFFICES ASSUME Init PROVE Service!Init
    OBVIOUS
  <2>1. Contents = <<>>
    BY EmptyContents DEF Init
  <2>2. ServingNow = {} /\ ClosedNow = {}
    BY DEF Init, ServingNow, ClosedNow, InService
  <2> QED
    BY <2>1, <2>2 DEF Service!Init, ServingNow, ClosedNow
<1>2. IInv /\ OneOwner /\ [Next]_vars => [Service!Next]_Service!svars
  <2> SUFFICES ASSUME IInv, OneOwner, [Next]_vars PROVE [Service!Next]_Service!svars
    OBVIOUS
  <2>1. CASE EnqueueTask
    BY <2>1, EnqueueSubmits DEF Service!Next
  <2>2. ASSUME NEW w \in Workers, TakeTask(w) PROVE Service!Next
    BY <2>2, TakeStarts DEF Service!Next
  <2>3. ASSUME NEW w \in Workers, Close(w) PROVE Service!Next
    BY <2>3, CloseFinishes DEF Service!Next
  <2>4. CASE OtherStep \/ UNCHANGED vars
    <3>1. Contents' = Contents
      BY <2>4, OthersLeaveQueue, SameContents DEF vars
    <3>2. ServingNow' = ServingNow /\ ClosedNow' = ClosedNow
      BY <2>4, OthersServeSame DEF vars, connVars, ServingNow, ClosedNow
    <3> QED
      BY <3>1, <3>2 DEF Service!svars, ServingNow, ClosedNow
  <2> QED
    BY <2>1, <2>2, <2>3, <2>4, StepKinds
<1> QED
  BY <1>1, <1>2, Inductive, EveryConnectionOwned, PTL DEF Spec, ImplementsService, Service!Spec
=============================================================================

------------------------ MODULE BoundedBufferProofs -------------------------
(* Proofs about BoundedBuffer, for every size of the ring and every number *)
(* of values.                                                              *)
EXTENDS BoundedBuffer, SequenceTheorems, TLAPS

-----------------------------------------------------------------------------
(* Arithmetic of the ring.                                                 *)

(* The remainder of a number below twice the size. *)
LEMMA Wrap ==
  ASSUME NEW N \in Nat \ {0}, NEW x \in 0..2 * N - 1
  PROVE  /\ (x % N) = (IF x < N THEN x ELSE x - N)
         /\ (x % N) \in 0..N - 1
<1>1. CASE x < N
  <2>1. x \in 0..N - 1
    BY <1>1
  <2>2. (x % N) = x
    BY <2>1
  <2> QED
    BY <1>1, <2>1, <2>2
<1>2. CASE ~(x < N)
  <2>1. x \in N..2 * N - 1
    BY <1>2
  <2>2. (x % N) = x - N
    BY <2>1
  <2> QED
    BY <1>2, <2>1, <2>2
<1> QED
  BY <1>1, <1>2

(* Different offsets below the size are different slots. *)
LEMMA WrapDistinct ==
  ASSUME NEW N \in Nat \ {0}, NEW a \in 0..N - 1,
         NEW k \in 0..N - 1, NEW l \in 0..N - 1, k # l
  PROVE  (a + k) % N # (a + l) % N
<1>1. PICK x \in 0..2 * N - 1 : x = a + k
  OBVIOUS
<1>2. PICK y \in 0..2 * N - 1 : y = a + l
  OBVIOUS
<1>3. (x % N) = (IF x < N THEN x ELSE x - N) /\ (y % N) = (IF y < N THEN y ELSE y - N)
  BY Wrap
<1>4. (x % N) # (y % N)
  BY <1>1, <1>2, <1>3
<1> QED
  BY <1>1, <1>2, <1>4

(* Moving the start and moving the offset by one are the same. *)
LEMMA WrapAfter ==
  ASSUME NEW N \in Nat \ {0}, NEW a \in 0..N - 1, NEW k \in 0..N - 1
  PROVE  /\ (((a + k) % N) + 1) % N = (a + (k + 1)) % N
         /\ (((a + 1) % N) + k) % N = (a + (k + 1)) % N
<1>1. PICK x \in 0..2 * N - 1, y \in 0..2 * N - 1, z \in 0..2 * N - 1 :
        x = a + k /\ y = a + 1 /\ z = a + (k + 1)
  OBVIOUS
<1>2. /\ (x % N) = (IF x < N THEN x ELSE x - N) /\ (x % N) \in 0..N - 1
      /\ (y % N) = (IF y < N THEN y ELSE y - N) /\ (y % N) \in 0..N - 1
      /\ (z % N) = (IF z < N THEN z ELSE z - N)
  BY Wrap
<1>3. PICK v \in 0..2 * N - 1, w \in 0..2 * N - 1 : v = (x % N) + 1 /\ w = (y % N) + k
  <2>1. PICK p \in 0..N - 1, q \in 0..N - 1 : p = (x % N) /\ q = (y % N)
    BY <1>2
  <2>2. p + 1 \in 0..2 * N - 1 /\ q + k \in 0..2 * N - 1
    OBVIOUS
  <2> QED
    BY <2>1, <2>2
<1>4. (v % N) = (IF v < N THEN v ELSE v - N) /\ (w % N) = (IF w < N THEN w ELSE w - N)
  BY Wrap
<1>5. (v % N) = (z % N) /\ (w % N) = (z % N)
  BY <1>1, <1>2, <1>3, <1>4
<1> QED
  BY <1>1, <1>3, <1>5

-----------------------------------------------------------------------------
(* The inductive invariant.  What the checked invariants lack is that a    *)
(* thread that is not done has a round left, which bounds the counters.    *)
RoundsLeft ==
  /\ pc["writer"] # "done" => written < TRANSIZE
  /\ pc["reader"] # "done" => Len(printed) < TRANSIZE

IInv == TypeOK /\ MutexInv /\ RingIntact /\ PrintedInOrder /\ SleepersHaveReason /\ RoundsLeft

(* The oldest value is in the slot out. *)
LEMMA SlotZero ==
  ASSUME BUFFERSIZE \in Nat \ {0}, out \in 0..BUFFERSIZE - 1
  PROVE  Slot(0) = out
<1>1. PICK x \in 0..BUFFERSIZE - 1 : x = out
  OBVIOUS
<1>2. (x % BUFFERSIZE) = x /\ x = out + 0
  BY <1>1
<1> QED
  BY <1>2 DEF Slot

(* The empty ring satisfies the invariant (lines 5-19). *)
LEMMA InitInv ==
  ASSUME Init
  PROVE  IInv
<1>1. 0 \in 0..BUFFERSIZE - 1 /\ BUFFERSIZE \in Nat /\ TRANSIZE \in Nat
  BY BoundedBufferAssumption
<1>2. TypeOK
  <2>1. ring \in [0..BUFFERSIZE - 1 -> 0..TRANSIZE]
    BY <1>1 DEF Init
  <2>2. pc \in [Threads -> PcStates]
    BY DEF Init, PcStates
  <2> QED
    BY <1>1, <2>1, <2>2 DEF Init, TypeOK
<1>3. MutexInv /\ SleepersHaveReason
  BY BoundedBufferAssumption DEF Init, MutexInv, SleepersHaveReason, Threads
<1>4. RingIntact /\ PrintedInOrder
  <2>1. count = 0 /\ in = 0 /\ out = 0 /\ written = 0 /\ printed = <<>> /\ Len(printed) = 0
    BY DEF Init
  <2>2. Slot(0) = 0
    BY <1>1, <2>1, SlotZero, BoundedBufferAssumption
  <2>3. in = Slot(count)
    BY <2>1, <2>2, Zenon
  <2>4. count = written - Len(printed)
    <3>1. 0 = 0 - 0
      OBVIOUS
    <3> QED
      BY <2>1, <3>1, Zenon
  <2>5. 0..count - 1 = {} /\ 1..Len(printed) = {}
    BY <2>1
  <2> QED
    BY <2>3, <2>4, <2>5 DEF RingIntact, PrintedInOrder
<1>5. RoundsLeft
  BY BoundedBufferAssumption DEF Init, RoundsLeft
<1> QED
  BY <1>2, <1>3, <1>4, <1>5 DEF IInv

(* What the other thread is afterwards has the right type, and it is not   *)
(* asleep any more; nothing else of it changes.                            *)
LEMMA AfterUnlock ==
  ASSUME TypeOK, NEW t \in Threads, NEW u \in Threads, t # u, NEW n \in Nat,
         Unlock(t, u, n)
  PROVE  /\ mutex' = NoThread
         /\ pc' \in [Threads -> PcStates]
         /\ pc'[t] = (IF n = TRANSIZE THEN "done" ELSE "lock")
         /\ pc'[u] = (IF pc[u] = "asleep" THEN "awake" ELSE pc[u])
  BY DEF TypeOK, Unlock, Signalled, PcStates, Threads

(* Taking the mutex keeps the invariant (lines 23 and 40). *)
LEMMA LockInv ==
  ASSUME IInv, NEW t \in Threads, Lock(t)
  PROVE  IInv'
<1> USE DEF Lock, bufVars, Threads
<1>1. TypeOK'
  BY DEF IInv, TypeOK, PcStates
<1>2. MutexInv'
  BY BoundedBufferAssumption DEF IInv, TypeOK, MutexInv
<1>3. SleepersHaveReason' /\ RoundsLeft'
  BY DEF IInv, TypeOK, SleepersHaveReason, RoundsLeft
<1>4. RingIntact' /\ PrintedInOrder'
  BY DEF IInv, RingIntact, PrintedInOrder, Slot
<1> QED
  BY <1>1, <1>2, <1>3, <1>4 DEF IInv

(* So do falling asleep and waking up without a signal (25-27, 42-44). *)
LEMMA SleepInv ==
  ASSUME IInv, WriterWaits \/ ReaderWaits \/ \E t \in Threads : SpuriousWakeup(t)
  PROVE  IInv'
<1> USE DEF WriterWaits, ReaderWaits, SpuriousWakeup, Sleep, bufVars, Threads
<1>1. TypeOK'
  BY DEF IInv, TypeOK, PcStates
<1>2. MutexInv'
  BY BoundedBufferAssumption DEF IInv, TypeOK, MutexInv
<1>3. SleepersHaveReason'
  BY DEF IInv, TypeOK, SleepersHaveReason, Full, Empty
<1>4. RoundsLeft'
  BY DEF IInv, TypeOK, RoundsLeft
<1>5. RingIntact' /\ PrintedInOrder'
  BY DEF IInv, RingIntact, PrintedInOrder, Slot
<1> QED
  BY <1>1, <1>2, <1>3, <1>4, <1>5 DEF IInv

(* The critical section of the writer keeps the invariant (lines 28-33). *)
LEMMA WriteInv ==
  ASSUME IInv, Write
  PROVE  IInv'
<1>1. /\ BUFFERSIZE \in Nat \ {0} /\ TRANSIZE \in Nat
      /\ count \in 0..BUFFERSIZE - 1 /\ in \in 0..BUFFERSIZE - 1
      /\ out \in 0..BUFFERSIZE - 1 /\ written \in 0..TRANSIZE - 1
      /\ Len(printed) \in Nat
  BY BoundedBufferAssumption DEF IInv, TypeOK, RoundsLeft, Write, Full
<1>2. /\ ring' = [ring EXCEPT ![in] = written + 1] /\ in' = After(in) /\ out' = out
      /\ count' = count + 1 /\ written' = written + 1 /\ printed' = printed
      /\ Unlock("writer", "reader", written + 1) /\ pc["writer"] = "cs"
  BY DEF Write
<1>3. /\ mutex' = NoThread /\ pc' \in [Threads -> PcStates]
      /\ pc'["writer"] = (IF written + 1 = TRANSIZE THEN "done" ELSE "lock")
      /\ pc'["reader"] = (IF pc["reader"] = "asleep" THEN "awake" ELSE pc["reader"])
  BY <1>1, <1>2, AfterUnlock DEF IInv, Threads
<1>4. After(in) = Slot(count + 1) /\ After(in) \in 0..BUFFERSIZE - 1
  <2>1. in = Slot(count)
    BY DEF IInv, RingIntact
  <2>2. in + 1 \in 0..2 * BUFFERSIZE - 1
    BY <1>1
  <2> QED
    BY <1>1, <2>1, <2>2, Wrap, WrapAfter DEF After, Slot
<1>5. TypeOK'
  BY <1>1, <1>2, <1>3, <1>4 DEF IInv, TypeOK
<1>6. MutexInv'
  BY <1>2, <1>3, BoundedBufferAssumption DEF IInv, MutexInv, Threads
<1>7. RingIntact'
  <2>1. \A k \in 0..count : k # count => Slot(k) # in
    <3>1. PICK a \in 0..BUFFERSIZE - 1, l \in 0..BUFFERSIZE - 1 : a = out /\ l = count
      BY <1>1
    <3>2. in = (a + l) % BUFFERSIZE
      BY <3>1 DEF IInv, RingIntact, Slot
    <3> TAKE k \in 0..count
    <3>3. ASSUME k # count
          PROVE  (a + k) % BUFFERSIZE # (a + l) % BUFFERSIZE
      <4>1. k \in 0..BUFFERSIZE - 1 /\ k # l
        BY <1>1, <3>1, <3>3
      <4> QED
        BY <1>1, <4>1, WrapDistinct
    <3> QED
      BY <3>1, <3>2, <3>3 DEF Slot
  <2>2. \A k \in 0..count : Slot(k) \in 0..BUFFERSIZE - 1
    <3> TAKE k \in 0..count
    <3>1. out + k \in 0..2 * BUFFERSIZE - 1
      BY <1>1
    <3> QED
      BY <1>1, <3>1, Wrap DEF Slot
  <2>3. Slot(count) = in
    BY DEF IInv, RingIntact
  <2>4. \A k \in 0..count : ring'[Slot(k)] = Len(printed) + k + 1
    <3> TAKE k \in 0..count
    <3>1. CASE k = count
      BY <1>1, <1>2, <2>3, <3>1 DEF IInv, TypeOK, RingIntact
    <3>2. CASE k # count
      <4>1. k \in 0..count - 1 /\ Slot(k) # in
        BY <1>1, <2>1, <3>2
      <4>2. ring'[Slot(k)] = ring[Slot(k)]
        BY <1>2, <2>2, <4>1 DEF IInv, TypeOK
      <4> QED
        BY <4>1, <4>2 DEF IInv, RingIntact
    <3> QED
      BY <3>1, <3>2
  <2>5. \A k \in Nat : Slot(k)' = Slot(k)
    BY <1>2 DEF Slot
  <2> QED
    BY <1>1, <1>2, <1>4, <2>4, <2>5, SMTT(30) DEF IInv, RingIntact
<1>8. PrintedInOrder'
  BY <1>2 DEF IInv, PrintedInOrder
<1>9. SleepersHaveReason' /\ RoundsLeft'
  BY <1>1, <1>2, <1>3 DEF IInv, SleepersHaveReason, RoundsLeft
<1> QED
  BY <1>5, <1>6, <1>7, <1>8, <1>9 DEF IInv

(* The critical section of the reader keeps the invariant (lines 45-50). *)
LEMMA ReadInv ==
  ASSUME IInv, Read
  PROVE  IInv'
<1>1. /\ BUFFERSIZE \in Nat \ {0} /\ TRANSIZE \in Nat
      /\ count \in 1..BUFFERSIZE /\ in \in 0..BUFFERSIZE - 1
      /\ out \in 0..BUFFERSIZE - 1 /\ written \in 0..TRANSIZE
      /\ Len(printed) \in 0..TRANSIZE - 1 /\ printed \in Seq(1..TRANSIZE)
  BY BoundedBufferAssumption DEF IInv, TypeOK, RoundsLeft, Read, Empty
<1>2. /\ printed' = Append(printed, ring[out]) /\ in' = in /\ out' = After(out)
      /\ count' = count - 1 /\ written' = written /\ ring' = ring
      /\ Unlock("reader", "writer", Len(printed) + 1) /\ pc["reader"] = "cs"
  BY DEF Read
<1>3. /\ mutex' = NoThread /\ pc' \in [Threads -> PcStates]
      /\ pc'["reader"] = (IF Len(printed) + 1 = TRANSIZE THEN "done" ELSE "lock")
      /\ pc'["writer"] = (IF pc["writer"] = "asleep" THEN "awake" ELSE pc["writer"])
  BY <1>1, <1>2, AfterUnlock DEF IInv, Threads
<1>4. ring[out] = Len(printed) + 1
  <2>1. Slot(0) = out
    BY <1>1, SlotZero
  <2>2. 0 \in 0..count - 1
    BY <1>1
  <2> QED
    BY <1>1, <2>1, <2>2 DEF IInv, RingIntact
<1>5. /\ printed' \in Seq(1..TRANSIZE) /\ Len(printed') = Len(printed) + 1
      /\ \A k \in 1..Len(printed) : printed'[k] = printed[k]
      /\ printed'[Len(printed) + 1] = Len(printed) + 1
  <2>1. Len(printed) + 1 \in 1..TRANSIZE
    BY <1>1
  <2> QED
    BY <1>1, <1>2, <1>4, <2>1
<1>6. After(out) \in 0..BUFFERSIZE - 1
  <2>1. out + 1 \in 0..2 * BUFFERSIZE - 1
    BY <1>1
  <2> QED
    BY <1>1, <2>1, Wrap DEF After
<1>7. TypeOK'
  BY <1>1, <1>2, <1>3, <1>5, <1>6 DEF IInv, TypeOK
<1>8. MutexInv'
  BY <1>2, <1>3, BoundedBufferAssumption DEF IInv, MutexInv, Threads
<1>9. RingIntact'
  <2>1. \A k \in 0..BUFFERSIZE - 1 : Slot(k)' = Slot(k + 1)
    BY <1>1, <1>2, WrapAfter DEF Slot, After
  <2>2. in = Slot(count) /\ count = written - Len(printed)
    BY DEF IInv, RingIntact
  <2>3. count' \in 0..BUFFERSIZE - 1 /\ count' + 1 = count
    BY <1>1, <1>2
  <2>4. in' = Slot(count)'
    <3>1. PICK m \in 0..BUFFERSIZE - 1 : m = count' /\ m + 1 = count
      BY <2>3
    <3>2. Slot(m)' = Slot(m + 1)
      BY <2>1
    <3>3. Slot(m)' = Slot(count)' /\ Slot(m + 1) = Slot(count)
      BY <3>1 DEF Slot
    <3> QED
      BY <1>2, <2>2, <3>2, <3>3
  <2>5. ASSUME NEW k \in Nat, k \in 0..count' - 1
        PROVE  ring'[Slot(k)'] = Len(printed') + k + 1
    <3>1. k \in 0..BUFFERSIZE - 1 /\ k + 1 \in 0..count - 1
      BY <1>1, <1>2, <2>3, <2>5
    <3>2. ring[Slot(k + 1)] = Len(printed) + (k + 1) + 1
      BY <3>1 DEF IInv, RingIntact
    <3> QED
      BY <1>1, <1>2, <1>5, <2>1, <3>1, <3>2
  <2>6. count' = written' - Len(printed')
    BY <1>1, <1>2, <1>5, <2>2
  <2> QED
    BY <2>4, <2>5, <2>6 DEF RingIntact
<1>10. PrintedInOrder'
  BY <1>1, <1>5 DEF IInv, PrintedInOrder
<1>11. SleepersHaveReason' /\ RoundsLeft'
  BY <1>1, <1>2, <1>3, <1>5 DEF IInv, SleepersHaveReason, RoundsLeft
<1> QED
  BY <1>7, <1>8, <1>9, <1>10, <1>11 DEF IInv

(* Every step keeps the invariant. *)
LEMMA NextInv ==
  ASSUME IInv, [Next]_vars
  PROVE  IInv'
<1>1. CASE \E t \in Threads : Lock(t)
  BY <1>1, LockInv
<1>2. CASE WriterWaits \/ ReaderWaits \/ \E t \in Threads : SpuriousWakeup(t)
  BY <1>2, SleepInv
<1>3. CASE Write
  BY <1>3, WriteInv
<1>4. CASE Read
  BY <1>4, ReadInv
<1>5. CASE UNCHANGED vars
  BY <1>5 DEF vars, bufVars, IInv, TypeOK, MutexInv, RingIntact, Slot, PrintedInOrder,
              SleepersHaveReason, RoundsLeft
<1> QED
  BY <1>1, <1>2, <1>3, <1>4, <1>5 DEF Next, WriterStep, ReaderStep, Threads

(* The inductive invariant holds. *)
LEMMA Invariance == Spec => []IInv
<1>1. Init => IInv
  BY InitInv
<1>2. IInv /\ [Next]_vars => IInv'
  BY NextInv
<1> QED
  BY <1>1, <1>2, PTL DEF Spec

(* The fields of the buffer stay in range (cond_lock.c 11-19).             *)
THEOREM TypeCorrect == Spec => []TypeOK
<1>1. IInv => TypeOK
  BY DEF IInv
<1> QED
  BY <1>1, Invariance, PTL

(* The ring holds what was written and not printed yet, for any size of    *)
(* the ring (lines 28-30 and 45-47).                                       *)
THEOREM RingCorrect == Spec => []RingIntact
<1>1. IInv => RingIntact
  BY DEF IInv
<1> QED
  BY <1>1, Invariance, PTL

(* Every value is printed once and in order.                               *)
THEOREM Fifo == Spec => []PrintedInOrder
<1>1. IInv => PrintedInOrder
  BY DEF IInv
<1> QED
  BY <1>1, Invariance, PTL

(* A sleeping thread has a reason to sleep: the signals at lines 32 and 49 *)
(* are enough.                                                             *)
THEOREM WakeupsKept == Spec => []SleepersHaveReason
<1>1. IInv => SleepersHaveReason
  BY DEF IInv
<1> QED
  BY <1>1, Invariance, PTL

(* Only the holder of the mutex is inside the critical section (lines 23,  *)
(* 26, 33, 40, 43 and 50).                                                 *)
THEOREM MutualExclusion == Spec => []MutexInv
<1>1. IInv => MutexInv
  BY DEF IInv
<1> QED
  BY <1>1, Invariance, PTL

-----------------------------------------------------------------------------
(* The refinement.  The queue of the channel is a run of numbers.          *)
Run(b, n) == [k \in 1..n |-> b + k]

(* How a run grows at its end and shrinks at its front. *)
LEMMA RunSeq ==
  ASSUME NEW b \in Nat, NEW n \in Nat
  PROVE  /\ Run(b, n) \in Seq(Nat) /\ Len(Run(b, n)) = n
         /\ Append(Run(b, n), b + n + 1) = Run(b, n + 1)
         /\ Run(b, n + 1) # <<>>
         /\ Head(Run(b, n + 1)) = b + 1
         /\ Tail(Run(b, n + 1)) = Run(b + 1, n)
<1>1. Run(b, n) \in Seq(Nat) /\ Len(Run(b, n)) = n
  BY DEF Run
<1>2. Run(b, n + 1) \in Seq(Nat) /\ Len(Run(b, n + 1)) = n + 1
  BY DEF Run
<1>3. Append(Run(b, n), b + n + 1) = Run(b, n + 1)
  BY DEF Run
<1>4. Run(b, n + 1) # <<>>
  BY <1>2
<1>5. Head(Run(b, n + 1)) = b + 1
  BY <1>2 DEF Run
<1>6. Tail(Run(b, n + 1)) = Run(b + 1, n)
  BY <1>2 DEF Run
<1> QED
  BY <1>1, <1>3, <1>4, <1>5, <1>6

(* What is in the ring is the run of numbers behind the last one printed. *)
QueueRun ==
  /\ Queue = Run(Len(printed), count)
  /\ Len(printed) \in Nat /\ count \in Nat
  /\ written = Len(printed) + count

(* The inductive invariant says so. *)
LEMMA QueueIsRun == IInv => QueueRun
<1> SUFFICES ASSUME IInv
             PROVE  QueueRun
  OBVIOUS
<1>1. Len(printed) \in Nat /\ count \in Nat /\ written \in Nat /\ count = written - Len(printed)
  BY BoundedBufferAssumption DEF IInv, TypeOK, RingIntact
<1>2. \A k \in 1..count : ring[Slot(k - 1)] = Len(printed) + k
  <2> TAKE k \in 1..count
  <2>1. k - 1 \in 0..count - 1 /\ (k - 1) + 1 = k
    BY <1>1
  <2>2. ring[Slot(k - 1)] = Len(printed) + (k - 1) + 1
    BY <2>1 DEF IInv, RingIntact
  <2> QED
    BY <1>1, <2>1, <2>2
<1> QED
  BY <1>1, <1>2 DEF Queue, Run, QueueRun

(* The same one step later. *)
LEMMA QueueStaysRun == IInv' => QueueRun'
  BY QueueIsRun, PTL

(* A write is a step of the channel (lines 28-30). *)
LEMMA WriteRefines ==
  ASSUME IInv, IInv', Write
  PROVE  Channel!Put
<1>1. PICK b \in Nat, n \in Nat : b = Len(printed) /\ n = count
  BY QueueIsRun DEF QueueRun
<1>2. count' = count + 1 /\ written' = written + 1 /\ printed' = printed
      /\ written < TRANSIZE /\ n < BUFFERSIZE
  BY <1>1, BoundedBufferAssumption DEF IInv, TypeOK, RoundsLeft, Write, Full
<1>3. Queue = Run(b, n) /\ written = b + n
  BY <1>1, QueueIsRun DEF QueueRun
<1>4. Queue' = Run(Len(printed'), count')
  BY QueueStaysRun DEF QueueRun, Run
<1>5. Queue' = Run(b, n + 1)
  BY <1>1, <1>2, <1>4 DEF Run
<1>6. Queue' = Append(Queue, written + 1) /\ Len(Queue) < BUFFERSIZE
  BY <1>2, <1>3, <1>5, RunSeq
<1> QED
  BY <1>2, <1>6 DEF Channel!Put

(* And so is a read (lines 45-47). *)
LEMMA ReadRefines ==
  ASSUME IInv, IInv', Read
  PROVE  Channel!Take
<1>1. PICK b \in Nat, n \in Nat : b = Len(printed) /\ count = n + 1
  <2>1. count \in Nat \ {0} /\ Len(printed) \in Nat
    BY QueueIsRun DEF QueueRun, Read, Empty
  <2>2. count - 1 \in Nat /\ count = (count - 1) + 1
    BY <2>1
  <2> QED
    BY <2>1, <2>2
<1>2. /\ count' = count - 1 /\ written' = written
      /\ printed' = Append(printed, ring[out]) /\ printed \in Seq(1..TRANSIZE)
  BY DEF Read, IInv, TypeOK
<1>3. Queue = Run(b, n + 1)
  BY <1>1, QueueIsRun DEF QueueRun
<1>4. /\ Queue' = Run(Len(printed'), count') /\ written = b + (n + 1)
      /\ written' = Len(printed') + count' /\ Len(printed') \in Nat
  BY <1>1, QueueIsRun, QueueStaysRun DEF QueueRun, Run
<1>5. Len(printed') = b + 1 /\ count' = n
  BY <1>1, <1>2, <1>4
<1>6. Queue' = Run(b + 1, n)
  BY <1>4, <1>5 DEF Run
<1>7. ring[out] = b + 1
  <2>1. BUFFERSIZE \in Nat \ {0} /\ out \in 0..BUFFERSIZE - 1 /\ 0 \in 0..count - 1
    BY <1>1, BoundedBufferAssumption DEF IInv, TypeOK
  <2>2. ring[Slot(0)] = Len(printed) + 0 + 1
    BY <2>1 DEF IInv, RingIntact
  <2> QED
    BY <1>1, <2>1, <2>2, SlotZero
<1>8. Queue # <<>> /\ Head(Queue) = b + 1 /\ Tail(Queue) = Run(b + 1, n)
  BY <1>3, RunSeq
<1> QED
  BY <1>2, <1>6, <1>7, <1>8 DEF Channel!Take

(* The threads, the mutex and the ring implement the FIFO channel, apart   *)
(* from its fairness (writer and reader).                                  *)
THEOREM ChannelSafety == Spec => Channel!Spec
<1>1. Init => Channel!Init
  <2> SUFFICES ASSUME Init
               PROVE  Channel!Init
    OBVIOUS
  <2>1. count = 0 /\ written = 0 /\ printed = <<>>
    BY DEF Init
  <2>2. Queue = <<>>
    BY <2>1 DEF Queue
  <2> QED
    BY <2>1, <2>2 DEF Channel!Init
<1>2. IInv /\ IInv' /\ [Next]_vars => [Channel!Next]_<<Queue, written, printed>>
  <2> SUFFICES ASSUME IInv, IInv', [Next]_vars
               PROVE  [Channel!Next]_<<Queue, written, printed>>
    OBVIOUS
  <2>1. CASE Write
    BY <2>1, WriteRefines DEF Channel!Next
  <2>2. CASE Read
    BY <2>2, ReadRefines DEF Channel!Next
  <2>3. CASE \/ \E t \in Threads : Lock(t) \/ SpuriousWakeup(t)
             \/ WriterWaits \/ ReaderWaits \/ UNCHANGED vars
    <3>1. UNCHANGED <<written, printed, bufVars>>
      BY <2>3 DEF Lock, SpuriousWakeup, WriterWaits, ReaderWaits, Sleep, vars, bufVars
    <3> QED
      BY <3>1 DEF bufVars, Queue, Slot
  <2> QED
    BY <2>1, <2>2, <2>3 DEF Next, WriterStep, ReaderStep, Threads
<1> QED
  BY <1>1, <1>2, Invariance, PTL DEF Spec, Channel!Spec
=============================================================================

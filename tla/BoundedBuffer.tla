---------------------------- MODULE BoundedBuffer ---------------------------
(***************************************************************************)
(* The bounded buffer of thread_test/cond_lock.c: a writer and a reader    *)
(* move TRANSIZE values through a ring of BUFFERSIZE slots, with one mutex *)
(* and a condition for each direction.  The value that is written is       *)
(* random; here it is the number of the write, so that values can be told  *)
(* apart.                                                                  *)
(***************************************************************************)
EXTENDS Naturals, Sequences

CONSTANTS
  BUFFERSIZE,
  TRANSIZE,
  NoThread     (* the mutex is free                                        *)

Threads == {"writer", "reader"}

ASSUME BoundedBufferAssumption ==
  /\ BUFFERSIZE \in Nat \ {0} /\ TRANSIZE \in Nat \ {0}
  /\ NoThread \notin Threads

VARIABLES
  mutex,     (* who holds it                                               *)
  pc,        (* where each thread is                                       *)
  written,   (* i of the writer: how many values it has written            *)
  printed,   (* what the reader has printed                                *)
  count,     (* the fields of buf                                          *)
  in,
  out,
  ring

bufVars == <<count, in, out, ring>>
vars == <<mutex, pc, written, printed, bufVars>>

(* "cs" is at the test of the while loop, "asleep" in cond_wait and not    *)
(* signalled yet, "awake" signalled and waiting for the mutex.             *)
PcStates == {"lock", "cs", "asleep", "awake", "done"}

TypeOK ==
  /\ mutex \in Threads \cup {NoThread}
  /\ pc \in [Threads -> PcStates]
  /\ written \in 0..TRANSIZE
  /\ printed \in Seq(1..TRANSIZE)
  /\ count \in 0..BUFFERSIZE
  /\ in \in 0..BUFFERSIZE - 1 /\ out \in 0..BUFFERSIZE - 1
  /\ ring \in [0..BUFFERSIZE - 1 -> 0..TRANSIZE]

Init ==
  /\ mutex = NoThread
  /\ pc = [t \in Threads |-> "lock"]
  /\ written = 0 /\ printed = <<>>
  /\ count = 0 /\ in = 0 /\ out = 0
  /\ ring = [k \in 0..BUFFERSIZE - 1 |-> 0]

-----------------------------------------------------------------------------
(* pthread_mutex_lock, or the end of cond_wait. *)
Lock(t) ==
  /\ pc[t] \in {"lock", "awake"} /\ mutex = NoThread
  /\ mutex' = t
  /\ pc' = [pc EXCEPT ![t] = "cs"]
  /\ UNCHANGED <<written, printed, bufVars>>

(* pthread_cond_wait: the mutex is released in the same step. *)
Sleep(t) ==
  /\ mutex' = NoThread
  /\ pc' = [pc EXCEPT ![t] = "asleep"]
  /\ UNCHANGED <<written, printed, bufVars>>

(* cond_wait may return without a signal. *)
SpuriousWakeup(t) ==
  /\ pc[t] = "asleep"
  /\ pc' = [pc EXCEPT ![t] = "awake"]
  /\ UNCHANGED <<mutex, written, printed, bufVars>>

(* Mutant: nobody is signalled. *)
NotSignalled(t) == pc[t]
(* pthread_cond_signal: where the other thread is afterwards. *)
Signalled(t) == IF pc[t] = "asleep" THEN "awake" ELSE pc[t]

(* The mutex is released after the n-th round of the loop. *)
Unlock(t, other, n) ==
  /\ mutex' = NoThread
  /\ pc' = [pc EXCEPT ![t] = IF n = TRANSIZE THEN "done" ELSE "lock",
                      ![other] = Signalled(other)]

Full == count = BUFFERSIZE
Empty == count = 0

(* Mutant: the index is not taken modulo the size. *)
AfterNoWrap(k) == IF k + 1 > BUFFERSIZE THEN 0 ELSE k + 1
After(k) == (k + 1) % BUFFERSIZE

WriterWaits == pc["writer"] = "cs" /\ Full /\ Sleep("writer")

(* The critical section of the writer: nobody else looks at anything until *)
(* the mutex is released, so it is one step.                               *)
Write ==
  /\ pc["writer"] = "cs" /\ ~Full
  /\ ring' = [ring EXCEPT ![in] = written + 1]
  /\ in' = After(in)
  /\ count' = count + 1
  /\ written' = written + 1
  /\ Unlock("writer", "reader", written + 1)
  /\ UNCHANGED <<printed, out>>

ReaderWaits == pc["reader"] = "cs" /\ Empty /\ Sleep("reader")

Read ==
  /\ pc["reader"] = "cs" /\ ~Empty
  /\ printed' = Append(printed, ring[out])
  /\ out' = After(out)
  /\ count' = count - 1
  /\ Unlock("reader", "writer", Len(printed) + 1)
  /\ UNCHANGED <<written, in, ring>>

WriterStep == Lock("writer") \/ WriterWaits \/ Write
ReaderStep == Lock("reader") \/ ReaderWaits \/ Read

Next == WriterStep \/ ReaderStep \/ \E t \in Threads : SpuriousWakeup(t)

(* Each thread keeps running, and one that competes for the mutex gets it  *)
(* in the end, although the other may wake up and sleep again for ever.    *)
Fairness ==
  /\ WF_vars(WriterStep) /\ WF_vars(ReaderStep)
  /\ \A t \in Threads : SF_vars(Lock(t))

Spec == Init /\ [][Next]_vars
FairSpec == Spec /\ Fairness

-----------------------------------------------------------------------------
(* Only the holder of the mutex is in the critical section. *)
MutexInv == \A t \in Threads : pc[t] = "cs" <=> mutex = t

(* The slot of the k-th value in the ring, counted from the oldest. *)
Slot(k) == (out + k) % BUFFERSIZE

(* The ring holds exactly what was written and not printed yet, oldest     *)
(* first from out, and in is the slot behind the newest (lines 28-30 and   *)
(* 45-47).                                                                 *)
RingIntact ==
  /\ count = written - Len(printed) /\ in = Slot(count)
  /\ \A k \in 0..count - 1 : ring[Slot(k)] = Len(printed) + k + 1

(* Every value is printed once, in the order of the writes. *)
PrintedInOrder == \A k \in 1..Len(printed) : printed[k] = k

(* No wakeup is lost: who sleeps has a reason to, so both never sleep at   *)
(* once (lines 25-27, 32, 42-44 and 49).                                   *)
SleepersHaveReason ==
  /\ pc["writer"] = "asleep" => count = BUFFERSIZE
  /\ pc["reader"] = "asleep" => count = 0

Queue == [k \in 1..count |-> ring[Slot(k - 1)]]
Channel == INSTANCE BoundedChannel WITH
  Capacity <- BUFFERSIZE, Last <- TRANSIZE, queue <- Queue, put <- written,
  taken <- printed

(* The threads, the mutex and the ring implement the channel, and keep its *)
(* promise that everything is carried (writer and reader).                 *)
ImplementsChannel == Channel!FairSpec
=============================================================================

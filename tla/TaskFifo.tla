------------------------------ MODULE TaskFifo ------------------------------
(***************************************************************************)
(* What the task queue of the thread pool promises: an unbounded first-in  *)
(* first-out queue of file descriptors, whatever it is built from.         *)
(***************************************************************************)
EXTENDS Sequences

CONSTANT Fd             (* the file descriptors a task can carry           *)

VARIABLE queue          (* the descriptors waiting, oldest first           *)

Init == queue = <<>>

Enqueue(fd) == queue' = Append(queue, fd)

Dequeue ==
  /\ queue # <<>>
  /\ queue' = Tail(queue)

Next == Dequeue \/ \E fd \in Fd : Enqueue(fd)

Spec == Init /\ [][Next]_queue
=============================================================================

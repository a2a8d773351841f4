--------------------------- MODULE BoundedChannel ---------------------------
(***************************************************************************)
(* What the buffer of thread_test/cond_lock.c promises: a FIFO channel of  *)
(* bounded capacity that carries the numbers 1, 2, ... up to Last.         *)
(***************************************************************************)
EXTENDS Naturals, Sequences

CONSTANTS Capacity, Last

VARIABLES
  queue,      (* put and not taken yet                                     *)
  put,        (* how many have been put                                    *)
  taken       (* what has been taken, in order                             *)

Init == queue = <<>> /\ put = 0 /\ taken = <<>>

Put ==
  /\ put < Last /\ Len(queue) < Capacity
  /\ queue' = Append(queue, put + 1)
  /\ put' = put + 1
  /\ UNCHANGED taken

Take ==
  /\ queue # <<>>
  /\ taken' = Append(taken, Head(queue))
  /\ queue' = Tail(queue)
  /\ UNCHANGED put

Next == Put \/ Take

Spec == Init /\ [][Next]_<<queue, put, taken>>

(* Everything is carried. *)
FairSpec == Spec /\ WF_<<queue, put, taken>>(Next)
=============================================================================

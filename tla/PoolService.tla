----------------------------- MODULE PoolService ----------------------------
(***************************************************************************)
(* What the thread pool promises about the connections submitted to it,    *)
(* with no threads, locks or memory: they are started in the order they    *)
(* were submitted, each is served by one worker at a time and once, and    *)
(* it is closed only after it was served.                                  *)
(***************************************************************************)
EXTENDS Naturals, Sequences

CONSTANT Conns

VARIABLES
  queue,    (* submitted and not started, oldest first                     *)
  serving,  (* being served                                                *)
  closed    (* served and closed                                           *)

svars == <<queue, serving, closed>>

Init == queue = <<>> /\ serving = {} /\ closed = {}

InQueue(c) == \E i \in 1..Len(queue) : queue[i] = c

Submit(c) ==
  /\ ~InQueue(c) /\ c \notin serving \cup closed
  /\ queue' = Append(queue, c)
  /\ UNCHANGED <<serving, closed>>

Start ==
  /\ queue # <<>>
  /\ serving' = serving \cup {Head(queue)}
  /\ queue' = Tail(queue)
  /\ UNCHANGED closed

Finish(c) ==
  /\ c \in serving
  /\ serving' = serving \ {c}
  /\ closed' = closed \cup {c}
  /\ UNCHANGED queue

Next == Start \/ \E c \in Conns : Submit(c) \/ Finish(c)

Spec == Init /\ [][Next]_svars
=============================================================================

---------------------------- MODULE MCThreadPool ----------------------------
(* ThreadPool with two workers and two connections, one of which stalls:   *)
(* both workers race for a task, one can sleep while the other one is      *)
(* busy for ever, and the second task waits in the queue behind the first. *)
EXTENDS ThreadPool
=============================================================================

---------------------------- MODULE MCProcessPool ---------------------------
(* ProcessPool with two workers, the second of which inherits the parent's *)
(* end of the first one's socket pair, and three connections, one of which *)
(* stalls: a worker gets a second job, and one arrives when none is FREE.  *)
EXTENDS ProcessPool
=============================================================================

------------------------------ MODULE MCPeerChat -----------------------------
(* Three units from each user, a buffer of two and a connection of two     *)
(* units: reads and receives are cut, buffers are filled, and both prog-   *)
(* rams can wait for each other in send.                                   *)
EXTENDS EpollChat
=============================================================================

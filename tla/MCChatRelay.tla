----------------------------- MODULE MCChatRelay -----------------------------
(* ChatRelay with three clients and an array for one, so that it grows     *)
(* twice; three are needed for one to leave between two others, and the    *)
(* third can come when the first has gone, in its descriptor.  One says so *)
(* much that a recv returns two units at once; one does not read.          *)
EXTENDS ChatRelay, TLC

CONSTANTS c1, c2, c3

MCClients == {c1, c2, c3}
MCMaxSaid == (c1 :> 2) @@ (c2 :> 1) @@ (c3 :> 0)
=============================================================================

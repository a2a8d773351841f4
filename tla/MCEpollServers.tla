---------------------------- MODULE MCEpollServers ---------------------------
(* The chat room with three clients, of which the third one overruns its   *)
(* two slots.  The reconnecting server twice: with two clients and a user  *)
(* who types, and a readyArr that is too short for everything that can be  *)
(* ready; and with three clients and a readyArr for one event, so that one *)
(* waits while a connection that was replaced is ready for ever.           *)
EXTENDS EpollServers, TLC

CONSTANTS c1, c2, c3, c4

MCClients == {c1, c2, c3, c4}
MCMaxSaid == (c1 :> 2) @@ (c2 :> 1) @@ (c3 :> 0) @@ (c4 :> 1)

Server(name, callers, size, typist) ==
  [server |-> name, callers |-> callers, readySize |-> size, user |-> typist]
MCSetups ==
  {Server("room", {c1, c2, c3}, MaxConn + 1, FALSE),
   Server("reconnect", {c2, c4}, 2, TRUE),
   Server("reconnect", {c2, c3, c4}, 1, FALSE)}
=============================================================================

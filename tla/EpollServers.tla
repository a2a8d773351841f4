----------------------------- MODULE EpollServers ----------------------------
(***************************************************************************)
(* The chat room and the reconnecting server with their clients.  Only the *)
(* server that prog names runs; the clients are the same.                  *)
(***************************************************************************)
EXTENDS ChatRoom, ReconnectServer

vars == <<roomVars, reconnectVars>>

Init == ClientsInit /\ RoomInit /\ ReconnectInit

Room == RoomStep /\ UNCHANGED <<connectVars, userVars>>
Reconnect == ReconnectStep /\ UNCHANGED <<netFdArr, relayVars>>
Environment ==
  \/ ClientStep /\ UNCHANGED <<netFdArr, relayVars, connectVars, userVars>>
  \/ UserStep /\ UNCHANGED <<netFdArr, relayVars>>

Next == Room \/ Reconnect \/ Environment

Spec == Init /\ [][Next]_vars

(* epoll_wait reports the descriptors of its ready list in their order and *)
(* puts those that were reported at its end: one that stays ready is       *)
(* reported, unless the server does not come back to epoll_wait.           *)
InTurn(f) ==
  f \in Ready => f \in ready \/ InAccept \/ InSend \/ Ended \/ prog.server = "room"

(* The server keeps running.  Nothing is assumed of the clients and of the *)
(* user; time passes for a server that waits in epoll_wait.                *)
FairSpec ==
  /\ Spec /\ WF_vars(Room) /\ WF_vars(Reconnect)
  /\ []<>InTurn(Listen) /\ []<>InTurn(Stdin)
=============================================================================

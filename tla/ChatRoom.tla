------------------------------- MODULE ChatRoom ------------------------------
(***************************************************************************)
(* The chat room (socket_test/tcp_epoll3/server_room.c): what one client   *)
(* says is sent to all others.  The array of connections has MaxConn slots *)
(* and only grows: the server never notices that a client has left, so a   *)
(* departed one is reported as readable for ever and goes on being sent to.*)
(***************************************************************************)
EXTENDS EpollClients

CONSTANT MaxConn    (* the length of netFdArr, 10 in the code            *)

ASSUME ChatRoomAssumption == MaxConn \in Nat \ {0}

VARIABLES
  netFdArr,   (* the connections; its length is curConn                    *)
  speaker,    (* the descriptor whose data is being sent                   *)
  buf,        (* what recv and strlen took for its message                 *)
  j           (* the index of the loop of sends                            *)

relayVars == <<speaker, buf, j>>
roomVars == <<prog, pc, ready, clientVars, heard, out, netFdArr, relayVars>>

RoomInit == netFdArr = <<>> /\ speaker = NoClient /\ buf = <<>> /\ j = 0

-----------------------------------------------------------------------------
(* Mutant: readyArr has room for one event. *)
ReadyArrShort(events) == {{e} : e \in events}
(* readyArr has a slot for the listening socket and each connection. *)
ReadyArr(events) == {events} \ {{}}

RoomWait ==
  /\ pc = "wait"
  /\ ready' \in ReadyArr(ReadySockets)
  /\ pc' = "dispatch"
  /\ UNCHANGED <<clientVars, heard, out, netFdArr, relayVars>>

RoomBatchDone ==
  /\ pc = "dispatch" /\ ready = {} /\ pc' = "wait"
  /\ UNCHANGED <<ready, clientVars, heard, out, netFdArr, relayVars>>

(* Mutant: curConn is not incremented. *)
RoomAcceptInPlace ==
  /\ pc = "dispatch" /\ Listen \in ready
  /\ ready' = ready \ {Listen}
  /\ \E c \in Backlog : conn' = [conn EXCEPT ![c] = "open"] /\ netFdArr' = <<c>>
  /\ UNCHANGED <<pc, said, left, heard, out, relayVars>>
(* Nothing asks whether there is a slot left.  The write behind the last   *)
(* one is undefined: what the program does afterwards is not modelled.     *)
RoomAccept ==
  /\ pc = "dispatch" /\ Listen \in ready
  /\ ready' = ready \ {Listen}
  /\ \E c \in Backlog : /\ conn' = [conn EXCEPT ![c] = "open"]
                        /\ netFdArr' = Append(netFdArr, c)
  /\ pc' = IF Len(netFdArr) >= MaxConn THEN "overrun" ELSE "dispatch"
  /\ UNCHANGED <<said, left, heard, out, relayVars>>

(* accept returns an error: ERROR_CHECK ends the program (line 46). *)
RoomAcceptFails ==
  /\ pc = "dispatch" /\ Listen \in ready
  /\ pc' = "exited"
  /\ UNCHANGED <<ready, clientVars, heard, out, netFdArr, relayVars>>

(* recv; that it returns nothing, or an error, is not looked at. *)
RoomRecv(c) ==
  LET n == Min({BufSize, said[c] - heard[c]}) IN
  /\ pc = "dispatch" /\ c \in ready \ {Listen}
  /\ ready' = ready \ {c}
  /\ heard' = [heard EXCEPT ![c] = @ + n]
  /\ buf' \in Strings([k \in 1..n |-> <<c, heard[c] + k>>])
  /\ speaker' = c /\ j' = 1 /\ pc' = "relay"
  /\ UNCHANGED <<clientVars, out, netFdArr>>

Relaying == pc = "relay" /\ j <= Len(netFdArr)

(* Mutant: what is said is also sent to who said it. *)
IsSpeakerNever(c) == FALSE
IsSpeaker(c) == c = speaker

RoomSkip ==
  /\ Relaying /\ IsSpeaker(netFdArr[j]) /\ j' = j + 1
  /\ UNCHANGED <<pc, ready, clientVars, heard, out, netFdArr, speaker, buf>>

RoomSend ==
  LET c == netFdArr[j] IN
  /\ Relaying /\ ~IsSpeaker(c)
  /\ SendTakes(c, buf)
  /\ j' = j + 1
  /\ UNCHANGED <<pc, ready, conn, said, heard, netFdArr, speaker, buf>>

RoomSendFails ==
  /\ Relaying /\ ~IsSpeaker(netFdArr[j])
  /\ SendRefused(netFdArr[j])
  /\ \/ j' = j + 1 /\ UNCHANGED pc
     \/ pc' = "killed" /\ UNCHANGED j
  /\ UNCHANGED <<ready, conn, said, heard, netFdArr, speaker, buf>>

RoomRelayed ==
  /\ pc = "relay" /\ j > Len(netFdArr)
  /\ pc' = "dispatch" /\ speaker' = NoClient /\ buf' = <<>> /\ j' = 0
  /\ UNCHANGED <<ready, clientVars, heard, out, netFdArr>>

RoomStep ==
  /\ prog.server = "room" /\ UNCHANGED prog
  /\ \/ RoomWait \/ RoomBatchDone \/ RoomAccept \/ RoomAcceptFails
     \/ RoomSkip \/ RoomSend \/ RoomSendFails \/ RoomRelayed
     \/ \E c \in Clients : RoomRecv(c)

-----------------------------------------------------------------------------
RoomTypeOK ==
  /\ ClientsTypeOK
  /\ pc \in {"wait", "dispatch", "relay", "overrun", "exited", "killed"}
  /\ netFdArr \in Seq(Clients) /\ speaker \in Clients \cup {NoClient}
  /\ buf \in Seq(Unit) /\ j \in 0..MaxConn + 1

(* The array holds every connection once, and what a client is sent of     *)
(* another one is what that one said, without a gap from when the first    *)
(* was accepted, and nothing of itself, however messages are cut, joined   *)
(* and read too far (lines 45-62).                                         *)
RoomIntact ==
  prog.server = "room" =>
    /\ RoomTypeOK
    /\ ToSet(netFdArr) = Open /\ Cardinality(Open) = Len(netFdArr)
    /\ \A c \in Clients :
         /\ \A k \in DOMAIN out[c] : out[c][k][1] # c
         /\ \A k, l \in DOMAIN out[c] :
              NextOf(out[c], k, l) /\ out[c][k] # Garbage => out[c][l][2] = out[c][k][2] + 1
         /\ left[c] # "rst" /\ pc \in {"wait", "dispatch"} =>
              \A k \in DOMAIN out[c] : LastOf(out[c], k) /\ out[c][k] # Garbage =>
                                        out[c][k][2] = heard[out[c][k][1]]

(* The room ends only when a connection arrives, either the first one more *)
(* than the array has slots, even if all before have left, or one whose    *)
(* accept fails; or when somebody else speaks or leaves after a client's   *)
(* connection was reset.  No client ends it by what it says, and none that *)
(* was accepted ends it alone (lines 45, 46 and 61).                       *)
RoomStopExplained ==
  prog.server = "room" =>
    /\ pc = "overrun" => Cardinality(Open) = MaxConn + 1
    /\ pc = "exited" => Backlog # {}
    /\ pc = "killed" => \E c, d \in Open :
                          c # d /\ left[c] = "rst" /\ (heard[d] > 0 \/ left[d] # "no")

(* send waits for a client that does not read. *)
RoomBlocked ==
  Relaying /\ ~IsSpeaker(netFdArr[j]) /\ ~Fits(netFdArr[j], buf)

(* What a client says is received, although every client that has left is  *)
(* reported in every round: only the end of the room, or a client that     *)
(* does not read, prevents it (main loop).  Connections stay open and what *)
(* is heard stays heard, so this is a leads-to.                            *)
RoomHears ==
  \A c \in {d \in Clients : MaxSaid[d] > 0} :
    []<>(prog.server = "room" /\ conn[c] = "open" /\ said[c] = MaxSaid[c] =>
           heard[c] = MaxSaid[c] \/ ~Running \/ RoomBlocked)
=============================================================================

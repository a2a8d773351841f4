------------------------------ MODULE ChatRelay -----------------------------
(***************************************************************************)
(* The chat relay (socket_test/tcp_chat2/server_reconnect.c): one thread   *)
(* and select.  The connections are in an array that is compacted when a   *)
(* client leaves; the descriptors to watch are in a set beside it.  What a *)
(* client says is sent to all others.                                      *)
(*                                                                         *)
(* Descriptors are numbers, and the kernel gives out the lowest free one:  *)
(* which number is closed and which is reused is what the program is       *)
(* about.  The listening socket is 0, below every connection.              *)
(***************************************************************************)
EXTENDS Units, FiniteSetsExt

CONSTANTS
  Clients,    (* each connects once; a reconnection is another client      *)
  MaxConn,    (* the first capacity of netFdArr, 10 in the code            *)
  MaxSaid,    (* how much each client says at most                         *)
  RecvMax,    (* sizeof(buf)                                               *)
  Stalled,    (* clients that do not read                                  *)
  SockCap,    (* how much the socket of such a client takes                *)
  FdLimits,   (* how many connections the process may have open at once:   *)
              (* the limit on its descriptors, less those it starts with   *)
  NoClient    (* the owner of a descriptor that is not open                *)

ASSUME ChatRelayAssumption ==
  /\ IsFiniteSet(Clients) /\ NoClient \notin Clients
  /\ {MaxConn, RecvMax} \subseteq Nat \ {0} /\ MaxSaid \in [Clients -> Nat]
  /\ Stalled \subseteq Clients /\ SockCap \in Nat /\ FdLimits \subseteq Nat

Listen == 0
Error == -1
Fds == 1..Cardinality(Clients)
Slots == 0..Cardinality(Clients)

VARIABLES
  fdLimit,     (* the limit this process has: an element of FdLimits       *)
  server,      (* where the server is, or how it ended                     *)
  netFdArr,    (* the memory of the array; an unused slot holds anything   *)
  curConn,     (* the number of connections                                *)
  maxConn,     (* the capacity of the array                                *)
  monitorSet,  (* the two descriptor sets                                  *)
  rdSet,
  i, j,        (* the indices of the two loops                             *)
  buf,         (* what the last recv returned                              *)
  owner,       (* the client at the other end of each descriptor           *)
  conn,        (* "idle", "backlog", "open" or "closed"                    *)
  said,        (* how much each client has said                            *)
  heard,       (* how much of it the server has received                   *)
  left,        (* "no", "fin" after close, "rst" once the connection reset *)
  out,         (* the units sent to each client: <<sender, number>>        *)
  orderly      (* history: only the latest client of the array ever left   *)

arrayVars == <<netFdArr, curConn, maxConn>>
loopVars == <<rdSet, i, j, buf>>
clientVars == <<said, left>>
vars == <<fdLimit, server, arrayVars, monitorSet, loopVars, owner, conn, clientVars,
          heard, out, orderly>>

Running == server \notin {"closed", "killed", "crashed"}
Array == {netFdArr[k] : k \in 0..curConn - 1}
OpenFds == {fd \in Fds : owner[fd] # NoClient}
CanOpen == Cardinality(OpenFds) < fdLimit
Arrived == \E c \in Clients : conn[c] = "backlog"
Readable(c) == heard[c] < said[c] \/ left[c] # "no"

(* What has been said: <<sender, number>>. *)
Said == UNION {{c} \X (1..said[c]) : c \in Clients}

TypeOK ==
  /\ fdLimit \in FdLimits
  /\ server \in {"select", "accept", "scan", "relay", "closed", "killed", "crashed"}
  /\ netFdArr \in [Slots -> Fds \cup {Listen, Error}]
  /\ curConn \in 0..Cardinality(Clients) /\ maxConn \in Nat
  /\ monitorSet \subseteq Fds \cup {Listen} /\ rdSet \subseteq Fds \cup {Listen}
  /\ i \in Slots /\ j \in Slots
  /\ buf \in Seq(Said)
  /\ owner \in [Fds -> Clients \cup {NoClient}]
  /\ conn \in [Clients -> {"idle", "backlog", "open", "closed"}]
  /\ said \in [Clients -> Nat] /\ heard \in [Clients -> Nat]
  /\ \A c \in Clients : said[c] <= MaxSaid[c] /\ heard[c] <= said[c]
  /\ left \in [Clients -> {"no", "fin", "rst"}]
  /\ out \in [Clients -> Seq(Said)]
  /\ orderly \in BOOLEAN

Init ==
  /\ fdLimit \in FdLimits /\ server = "select"
  /\ netFdArr = [k \in Slots |-> Listen] /\ curConn = 0 /\ maxConn = MaxConn
  /\ monitorSet = {Listen} /\ rdSet = {} /\ i = 0 /\ j = 0 /\ buf = <<>>
  /\ owner = [fd \in Fds |-> NoClient]
  /\ conn = [c \in Clients |-> "idle"]
  /\ said = [c \in Clients |-> 0] /\ heard = [c \in Clients |-> 0]
  /\ left = [c \in Clients |-> "no"]
  /\ out = [c \in Clients |-> <<>>]
  /\ orderly = TRUE

-----------------------------------------------------------------------------
(* The clients (chat_client.c). *)

Connect(c) ==
  /\ conn[c] = "idle" /\ Running
  /\ conn' = [conn EXCEPT ![c] = "backlog"]
  /\ UNCHANGED <<server, arrayVars, monitorSet, loopVars, owner, clientVars, heard,
                 out, orderly>>

Say(c) ==
  /\ conn[c] \in {"backlog", "open"} /\ left[c] = "no" /\ said[c] < MaxSaid[c] /\ Running
  /\ said' = [said EXCEPT ![c] = @ + 1]
  /\ UNCHANGED <<server, arrayVars, monitorSet, loopVars, owner, conn, left, heard,
                 out, orderly>>

(* The client closes, or resets the connection. *)
Leave(c) ==
  /\ conn[c] \in {"backlog", "open"} /\ left[c] = "no" /\ Running
  /\ \E how \in {"fin", "rst"} : left' = [left EXCEPT ![c] = how]
  /\ UNCHANGED <<server, arrayVars, monitorSet, loopVars, owner, conn, said, heard,
                 out, orderly>>

-----------------------------------------------------------------------------
(* select (lines 85-96) *)

MaxFd == Max(Array \cup {Listen})
Watched == {fd \in monitorSet : fd <= MaxFd}
Ready == {fd \in Watched : IF fd = Listen THEN Arrived ELSE Readable(owner[fd])}

Select ==
  /\ server = "select" /\ Watched \subseteq OpenFds \cup {Listen} /\ Ready # {}
  /\ rdSet' = Ready
  /\ server' = "accept" /\ i' = 0
  /\ UNCHANGED <<arrayVars, monitorSet, j, buf, owner, conn, clientVars, heard, out,
                 orderly>>

(* A watched descriptor that is closed: EBADF.  The loop ends and          *)
(* everything is closed (lines 93-96 and 138-145).                         *)
SelectFails ==
  /\ server = "select" /\ ~(Watched \subseteq OpenFds \cup {Listen})
  /\ server' = "closed"
  /\ owner' = [fd \in Fds |-> NoClient]
  /\ conn' = [c \in Clients |-> IF conn[c] = "idle" THEN "idle" ELSE "closed"]
  /\ UNCHANGED <<arrayVars, monitorSet, loopVars, clientVars, heard, out, orderly>>

-----------------------------------------------------------------------------
(* A new connection (lines 98-115) *)

(* Whether the array has to grow, and its capacity then. *)
Full == curConn >= maxConn
Grown == IF Full THEN 2 * maxConn ELSE maxConn

(* Mutant: the new descriptor is not watched. *)
AcceptUnwatched ==
  /\ server = "accept" /\ Listen \in rdSet /\ CanOpen
  /\ maxConn' = Grown
  /\ \E c \in Clients :
       LET fd == Min({f \in Fds : owner[f] = NoClient}) IN
       /\ conn[c] = "backlog"
       /\ conn' = [conn EXCEPT ![c] = "open"]
       /\ owner' = [owner EXCEPT ![fd] = c]
       /\ netFdArr' = [netFdArr EXCEPT ![curConn] = fd]
  /\ curConn' = curConn + 1
  /\ server' = "scan"
  /\ UNCHANGED <<monitorSet, loopVars, clientVars, heard, out, orderly>>
Accept ==
  /\ server = "accept" /\ Listen \in rdSet /\ CanOpen
  /\ maxConn' = Grown
  /\ \E c \in Clients :
       LET fd == Min({f \in Fds : owner[f] = NoClient}) IN
       /\ conn[c] = "backlog"
       /\ conn' = [conn EXCEPT ![c] = "open"]
       /\ owner' = [owner EXCEPT ![fd] = c]
       /\ netFdArr' = [netFdArr EXCEPT ![curConn] = fd]
       /\ monitorSet' = monitorSet \cup {fd}
  /\ curConn' = curConn + 1
  /\ server' = "scan"
  /\ UNCHANGED <<loopVars, clientVars, heard, out, orderly>>

(* There is no descriptor for the connection, which stays in the backlog.  *)
(* continue also skips the scan (lines 107-111).                           *)
AcceptFails ==
  /\ server = "accept" /\ Listen \in rdSet /\ ~CanOpen
  /\ maxConn' = Grown
  /\ netFdArr' = [netFdArr EXCEPT ![curConn] = Error]
  /\ server' = "select" /\ rdSet' = {}
  /\ UNCHANGED <<curConn, monitorSet, i, j, buf, owner, conn, clientVars, heard, out,
                 orderly>>

(* There is no memory for the array: netFdArr is NULL, and the loop that   *)
(* closes the connections reads through it (lines 100-105 and 138-140).    *)
ReallocFails ==
  /\ server = "accept" /\ Listen \in rdSet /\ Full
  /\ maxConn' = Grown
  /\ server' = "crashed"
  /\ UNCHANGED <<netFdArr, curConn, monitorSet, loopVars, owner, conn, clientVars, heard,
                 out, orderly>>

NoAccept ==
  /\ server = "accept" /\ Listen \notin rdSet
  /\ server' = "scan"
  /\ UNCHANGED <<arrayVars, monitorSet, loopVars, owner, conn, clientVars, heard, out,
                 orderly>>

-----------------------------------------------------------------------------
(* The loop over the array (lines 117-135) *)

AtReady == server = "scan" /\ i < curConn /\ netFdArr[i] \in rdSet

Skip ==
  /\ server = "scan" /\ i < curConn /\ netFdArr[i] \notin rdSet
  /\ i' = i + 1
  /\ UNCHANGED <<server, arrayVars, monitorSet, rdSet, j, buf, owner, conn, clientVars,
                 heard, out, orderly>>

(* rdSet is not looked at again. *)
ScanDone ==
  /\ server = "scan" /\ i >= curConn
  /\ server' = "select" /\ i' = 0 /\ rdSet' = {}
  /\ UNCHANGED <<arrayVars, monitorSet, j, buf, owner, conn, clientVars, heard, out,
                 orderly>>

(* recv returns data: up to RecvMax units, the buffer is cleared before. *)
Recv ==
  LET c == owner[netFdArr[i]]  n == Min({RecvMax, said[c] - heard[c]}) IN
  /\ AtReady /\ heard[c] < said[c]
  /\ buf' = [k \in 1..n |-> <<c, heard[c] + k>>]
  /\ heard' = [heard EXCEPT ![c] = @ + n]
  /\ server' = "relay" /\ j' = 0
  /\ UNCHANGED <<arrayVars, monitorSet, rdSet, i, owner, conn, clientVars, out, orderly>>

(* Mutant: the last slot is not moved. *)
CompactedShort ==
  [k \in Slots |-> IF k \in i..curConn - 3 THEN netFdArr[k + 1] ELSE netFdArr[k]]
(* The array without its entry i (lines 21-23). *)
Compacted ==
  [k \in Slots |-> IF k \in i..curConn - 2 THEN netFdArr[k + 1] ELSE netFdArr[k]]

(* FD_CLR. *)
Cleared(set, fd) == set \ {fd}

(* Mutant: the connection is only closed. *)
DisconnectCloseOnly ==
  LET fd == netFdArr[i] IN
  /\ AtReady /\ heard[owner[fd]] = said[owner[fd]]
  /\ owner' = [owner EXCEPT ![fd] = NoClient]
  /\ conn' = [conn EXCEPT ![owner[fd]] = "closed"]
  /\ orderly' = (orderly /\ i = curConn - 1)
  /\ i' = i + 1
  /\ UNCHANGED <<server, arrayVars, monitorSet, rdSet, j, buf, clientVars, heard, out>>
(* recv returns 0 or an error: handleClientDisconnect, then FD_CLR of what *)
(* is in slot i by now, and on to the next slot.                           *)
Disconnect ==
  LET fd == netFdArr[i] IN
  /\ AtReady /\ heard[owner[fd]] = said[owner[fd]]
  /\ owner' = [owner EXCEPT ![fd] = NoClient]
  /\ conn' = [conn EXCEPT ![owner[fd]] = "closed"]
  /\ netFdArr' = Compacted
  /\ curConn' = curConn - 1
  /\ monitorSet' = Cleared(monitorSet, netFdArr'[i])
  /\ orderly' = (orderly /\ i = curConn - 1)
  /\ i' = i + 1
  /\ UNCHANGED <<server, maxConn, rdSet, j, buf, clientVars, heard, out>>

(* On to the next slot; buf is not looked at after the last one. *)
Advance ==
  \/ j + 1 < curConn /\ j' = j + 1 /\ UNCHANGED <<server, i, buf>>
  \/ j + 1 >= curConn /\ server' = "scan" /\ i' = i + 1 /\ j' = 0 /\ buf' = <<>>

RelaySelf ==
  /\ server = "relay" /\ j = i
  /\ Advance
  /\ UNCHANGED <<arrayVars, monitorSet, rdSet, owner, conn, clientVars, heard, out,
                 orderly>>

(* Mutant: only the first unit is sent, as for a buffer taken for a string. *)
RelayToFirst(c) == out' = [out EXCEPT ![c] = Append(@, buf[1])]
RelayTo(c) == out' = [out EXCEPT ![c] = @ \o buf]

(* Whether send returns: the socket of a client that does not read fills.  *)
Fits(c) == c \in Stalled /\ left[c] = "no" => Len(out[c]) + Len(buf) <= SockCap

(* send takes everything, or blocks until it can.  The first one to a      *)
(* client that has closed provokes a reset.                                *)
Relay ==
  LET c == owner[netFdArr[j]] IN
  /\ server = "relay" /\ j # i /\ left[c] # "rst" /\ Fits(c)
  /\ RelayTo(c)
  /\ \E how \in {"fin", "rst"} : left' = [left EXCEPT ![c] = IF @ = "fin" THEN how ELSE @]
  /\ Advance
  /\ UNCHANGED <<arrayVars, monitorSet, rdSet, owner, conn, said, heard, orderly>>

(* The connection was reset: an error that is ignored, or SIGPIPE. *)
RelayFails ==
  /\ server = "relay" /\ j # i /\ left[owner[netFdArr[j]]] = "rst"
  /\ Advance \/ (server' = "killed" /\ UNCHANGED <<i, j, buf>>)
  /\ UNCHANGED <<arrayVars, monitorSet, rdSet, owner, conn, clientVars, heard, out,
                 orderly>>

ServerStep ==
  /\ UNCHANGED fdLimit
  /\ \/ Select \/ SelectFails \/ Accept \/ AcceptFails \/ ReallocFails \/ NoAccept
     \/ Skip \/ ScanDone \/ Recv \/ Disconnect \/ RelaySelf \/ Relay \/ RelayFails

ClientStep ==
  /\ UNCHANGED fdLimit
  /\ \E c \in Clients : Connect(c) \/ Say(c) \/ Leave(c)

Next == ServerStep \/ ClientStep

Spec == Init /\ [][Next]_vars
(* The server keeps running.  Nothing is assumed of the clients. *)
FairSpec == Spec /\ WF_vars(ServerStep)

-----------------------------------------------------------------------------
ArrayIsOpen ==
  Running => /\ Array = OpenFds
             /\ \A k, l \in 0..curConn - 1 : k # l => netFdArr[k] # netFdArr[l]
             /\ {owner[fd] : fd \in OpenFds} = {c \in Clients : conn[c] = "open"}

(* As long as clients leave in the reverse order of their arrival, the set *)
(* watches exactly the listening socket and the array, and neither loop    *)
(* meets a closed descriptor (lines 113 and 121-125).                      *)
SetMatchesArray ==
  orderly /\ Running => monitorSet = Array \cup {Listen}

(* The array holds exactly the open connections, each once, whatever order *)
(* they come, leave and reuse descriptors in (handleClientDisconnect), and *)
(* is never written beyond what was allocated (lines 99-114); and the set  *)
(* agrees with it while clients leave in order.                            *)
ArrayIntact == TypeOK /\ ArrayIsOpen /\ curConn <= maxConn /\ SetMatchesArray

(* What a client hears of another is a piece of what that one said, in     *)
(* order and without a gap or an echo; and while it is there, nothing is   *)
(* missing at the end between two relays either (lines 119-133).           *)
RelayIntact ==
  \A c \in Clients :
    /\ \A k \in DOMAIN out[c] : out[c][k][1] # c
    /\ \A k, l \in DOMAIN out[c] : NextOf(out[c], k, l) => out[c][l][2] = out[c][k][2] + 1
    /\ conn[c] = "open" /\ left[c] # "rst" /\ server \notin {"relay", "killed"} =>
         \A k \in DOMAIN out[c] : LastOf(out[c], k) => out[c][k][2] = heard[out[c][k][1]]

(* The relay stops only after a client left out of order, and is killed    *)
(* only by a client that left while it was spoken to.  When there is no    *)
(* memory it crashes, but only on an array that is really full, for a      *)
(* client that is really there (lines 93, 99-105 and 132).                 *)
StopExplained ==
  /\ server = "closed" => ~orderly
  /\ server = "crashed" => maxConn = 2 * curConn /\ Arrived
  /\ server = "killed" => \E c \in Clients : conn[c] = "open" /\ left[c] = "rst"

(* The one thread is inside a send to a client that does not read.         *)
Blocked == server = "relay" /\ j # i /\ ~Fits(owner[netFdArr[j]])

(* Somebody waits for whom there is no descriptor: accept fails in every   *)
(* round, the array is not scanned again, and nothing is closed that could *)
(* free a descriptor.                                                      *)
Starved == server = "select" /\ Arrived /\ ~CanOpen

(* As long as clients leave in order, what a client says is heard, also if *)
(* it leaves afterwards; nothing but a send to a client that does not read *)
(* keeps the server from it, or a client too many (main loop).  What is    *)
(* said or heard stays so, so this is a leads-to.                          *)
EverythingHeard ==
  \A c \in Clients :
    []<>(said[c] = MaxSaid[c] =>
           heard[c] = MaxSaid[c] \/ ~orderly \/ ~Running \/ Blocked \/ Starved)

(* The comment of main says that the server supports clients that leave    *)
(* and come back (line 27): no disconnection stops it.                     *)
SurvivesDisconnect == server # "closed"
=============================================================================

------------------------------- MODULE PeerChat ------------------------------
(***************************************************************************)
(* The chat of two programs (socket_test/tcp_chat1): chat_server accepts   *)
(* one connection, chat_client makes it, and from there on both run the    *)
(* same loop of select, read, send, recv and print.  What a user types is  *)
(* the sequence 1, 2, ...; the connection holds SockCap units in each      *)
(* direction, and send blocks while it is full.  EpollChat adds the        *)
(* servers that wait with epoll, and the specification of all three.       *)
(***************************************************************************)
EXTENDS Naturals, FiniteSetsExt, SequencesExt

CONSTANTS
  MaxTyped,   (* how much a user types at most                             *)
  BufSize,    (* sizeof(buf)                                               *)
  SockCap     (* how much a direction of the connection holds              *)

ASSUME PeerChatAssumption == {MaxTyped, BufSize, SockCap} \subseteq Nat \ {0}

Programs == {"server", "client"}
Peer(p) == IF p = "server" THEN "client" ELSE "server"

(* The message of a program that ends, and what strlen finds behind a      *)
(* buffer without a terminating zero.                                      *)
Bye == 0
Garbage == MaxTyped + 1

VARIABLES
  pc,       (* where each program is                                       *)
  rfds,     (* what select reported and the round has not handled          *)
  toSend,   (* what send has not handed over to the kernel                 *)
  printed,  (* what each program has shown of its peer                     *)
  typed,    (* how much each user has typed                                *)
  taken,    (* how much of it the program has read                         *)
  eof,      (* whether the user has closed the standard input              *)
  wire,     (* what is on its way to, or unread at, each program           *)
  link      (* the connection as each program finds it                     *)

userVars == <<typed, eof>>
netVars == <<wire, link>>
vars == <<pc, rfds, toSend, printed, taken, userVars, netVars>>

(* "up": the peer has not closed.  "fin": it has.  "rst": it has with data *)
(* unread, so there is an error to be reported.  "dead": recv returns 0    *)
(* and send raises SIGPIPE.                                                *)
Links == {"up", "fin", "rst", "dead"}
PcStates == {"start", "accept", "select", "stdin", "send", "bye", "net", "done",
             "killed"} \cup {"batch", "drain"}   (* these of the epoll servers *)

Stopped(p) == pc[p] \in {"done", "killed"}
Chatting(p) == pc[p] \notin {"start", "accept"} /\ ~Stopped(p)

TypeOK ==
  /\ pc \in [Programs -> PcStates]
  /\ rfds \in [Programs -> SUBSET {"stdin", "net"}]
  /\ toSend \in [Programs -> Seq(0..Garbage)]
  /\ printed \in [Programs -> Seq(0..Garbage)]
  /\ typed \in [Programs -> 0..MaxTyped] /\ taken \in [Programs -> 0..MaxTyped]
  /\ eof \in [Programs -> BOOLEAN]
  /\ wire \in [Programs -> Seq(0..Garbage)]
  /\ \A p \in Programs : Len(wire[p]) <= SockCap
  /\ link \in [Programs -> Links]

Init ==
  /\ pc = [p \in Programs |-> "start"]
  /\ rfds = [p \in Programs |-> {}]
  /\ toSend = [p \in Programs |-> <<>>]
  /\ printed = [p \in Programs |-> <<>>]
  /\ typed = [p \in Programs |-> 0] /\ taken = [p \in Programs |-> 0]
  /\ eof = [p \in Programs |-> FALSE]
  /\ wire = [p \in Programs |-> <<>>]
  /\ link = [p \in Programs |-> "up"]

Goto(p, label) == pc' = [pc EXCEPT ![p] = label]
(* FD_ZERO at the head of the loop. *)
Cleared(p) == rfds' = [rfds EXCEPT ![p] = {}]

-----------------------------------------------------------------------------
(* The two users. *)

Type(p) ==
  /\ ~Stopped(p) /\ ~eof[p] /\ typed[p] < MaxTyped
  /\ typed' = [typed EXCEPT ![p] = @ + 1]
  /\ UNCHANGED <<pc, rfds, toSend, printed, taken, eof, netVars>>

CloseStdin(p) ==
  /\ ~Stopped(p) /\ ~eof[p]
  /\ eof' = [eof EXCEPT ![p] = TRUE]
  /\ UNCHANGED <<pc, rfds, toSend, printed, taken, typed, netVars>>

-----------------------------------------------------------------------------
(* The connection (server 17-63, client 17-36) *)

Listen ==
  /\ pc["server"] = "start" /\ Goto("server", "accept")
  /\ UNCHANGED <<rfds, toSend, printed, taken, userVars, netVars>>

(* The backlog completes the connection before the server accepts it. *)
Connect ==
  /\ pc["client"] = "start" /\ pc["server"] = "accept" /\ Goto("client", "select")
  /\ UNCHANGED <<rfds, toSend, printed, taken, userVars, netVars>>

ConnectRefused ==
  /\ pc["client"] = "start" /\ pc["server"] = "start" /\ Goto("client", "done")
  /\ UNCHANGED <<rfds, toSend, printed, taken, userVars, netVars>>

Accept ==
  /\ pc["server"] = "accept" /\ (Chatting("client") \/ link["server"] # "up")
  /\ Goto("server", "select")
  /\ UNCHANGED <<rfds, toSend, printed, taken, userVars, netVars>>

-----------------------------------------------------------------------------
(* The loop (server 75-115, client 41-81) *)

Ready(p) ==
  {f \in {"stdin", "net"} : IF f = "stdin" THEN taken[p] < typed[p] \/ eof[p]
                            ELSE wire[p] # <<>> \/ link[p] # "up"}

Select(p) ==
  /\ pc[p] = "select" /\ Ready(p) # {}
  /\ rfds' = [rfds EXCEPT ![p] = Ready(p)]
  /\ Goto(p, IF "stdin" \in Ready(p) THEN "stdin" ELSE "net")
  /\ UNCHANGED <<toSend, printed, taken, userVars, netVars>>

(* read returns up to BufSize units of what the user typed. *)
ReadStdin(p) ==
  LET n == Min({BufSize, typed[p] - taken[p]}) IN
  /\ pc[p] = "stdin" /\ n > 0
  /\ taken' = [taken EXCEPT ![p] = @ + n]
  /\ toSend' = [toSend EXCEPT ![p] = [k \in 1..n |-> taken[p] + k]]
  /\ Goto(p, "send")
  /\ UNCHANGED <<rfds, printed, userVars, netVars>>

(* read returns 0: a last message, and the loop is left. *)
StdinEof(p) ==
  /\ pc[p] = "stdin" /\ taken[p] = typed[p]
  /\ toSend' = [toSend EXCEPT ![p] = <<Bye>>]
  /\ Goto(p, "bye")
  /\ UNCHANGED <<rfds, printed, taken, userVars, netVars>>

-----------------------------------------------------------------------------
(* send (lines 95 and 99 of the server).  It returns when the kernel has   *)
(* taken everything.                                                       *)

Sending(p) == pc[p] \in {"send", "bye"} /\ toSend[p] # <<>>

(* Mutant: what was typed last overtakes what is under way. *)
PushOvertaking(p) ==
  /\ Sending(p) /\ link[p] = "up" /\ Len(wire[Peer(p)]) < SockCap
  /\ wire' = [wire EXCEPT ![Peer(p)] = <<Head(toSend[p])>> \o @]
  /\ toSend' = [toSend EXCEPT ![p] = Tail(@)]
  /\ UNCHANGED <<pc, rfds, printed, taken, userVars, link>>
Push(p) ==
  /\ Sending(p) /\ link[p] = "up" /\ Len(wire[Peer(p)]) < SockCap
  /\ wire' = [wire EXCEPT ![Peer(p)] = Append(@, Head(toSend[p]))]
  /\ toSend' = [toSend EXCEPT ![p] = Tail(@)]
  /\ UNCHANGED <<pc, rfds, printed, taken, userVars, link>>

(* The peer has closed: what is sent is lost and may provoke a reset. *)
PushLost(p) ==
  /\ Sending(p) /\ link[p] = "fin"
  /\ \E l \in {"fin", "dead"} : link' = [link EXCEPT ![p] = l]
  /\ toSend' = [toSend EXCEPT ![p] = Tail(@)]
  /\ UNCHANGED <<pc, rfds, printed, taken, userVars, wire>>

(* An error, which nobody looks at. *)
SendFails(p) ==
  /\ Sending(p) /\ link[p] = "rst"
  /\ link' = [link EXCEPT ![p] = "dead"]
  /\ toSend' = [toSend EXCEPT ![p] = <<>>]
  /\ UNCHANGED <<pc, rfds, printed, taken, userVars, wire>>

(* SIGPIPE.  The peer has closed, so nobody sees the connection close. *)
Killed(p) ==
  /\ Sending(p) /\ link[p] = "dead" /\ Goto(p, "killed")
  /\ Cleared(p) /\ UNCHANGED <<toSend, printed, taken, userVars, netVars>>

Sent(p) ==
  /\ pc[p] = "send" /\ toSend[p] = <<>>
  /\ IF "net" \in rfds[p] THEN Goto(p, "net") /\ UNCHANGED rfds
                          ELSE Goto(p, "select") /\ Cleared(p)
  /\ UNCHANGED <<toSend, printed, taken, userVars, netVars>>

-----------------------------------------------------------------------------
(* The end of a program: close.  If something was unread the connection is *)
(* reset, and what the peer had not got yet may be lost.                   *)
Close(p) ==
  LET q == Peer(p) IN
  /\ Goto(p, "done")
  /\ \/ /\ wire[p] = <<>> /\ UNCHANGED wire
        /\ link' = [link EXCEPT ![q] = IF @ = "up" THEN "fin" ELSE @]
     \/ /\ wire[p] # <<>>
        /\ \E n \in 0..Len(wire[q]) :
             wire' = [wire EXCEPT ![p] = <<>>, ![q] = SubSeq(@, 1, n)]
        /\ link' = [link EXCEPT ![q] = IF @ = "up" THEN "rst" ELSE @]

Leave(p) ==
  /\ pc[p] = "bye" /\ toSend[p] = <<>> /\ Close(p)
  /\ Cleared(p) /\ UNCHANGED <<toSend, printed, taken, userVars>>

(* recv into a buffer with place for room units, and puts.  What puts runs *)
(* on to behind a full buffer is not recorded.                             *)
Receives(p, room) ==
  LET n == Min({room, Len(wire[p])}) IN
  /\ printed' = [printed EXCEPT ![p] = @ \o SubSeq(wire[p], 1, n)]
  /\ wire' = [wire EXCEPT ![p] = SubSeq(@, n + 1, Len(@))]

Recv(p) ==
  /\ pc[p] = "net" /\ wire[p] # <<>>
  /\ Receives(p, BufSize) /\ Goto(p, "select")
  /\ Cleared(p) /\ UNCHANGED <<toSend, taken, userVars, link>>

(* Mutant: a closed connection is not noticed. *)
RecvNothingIgnored(p) ==
  /\ pc[p] = "net" /\ wire[p] = <<>> /\ link[p] \in {"fin", "dead"}
  /\ Goto(p, "select")
  /\ Cleared(p) /\ UNCHANGED <<toSend, printed, taken, userVars, netVars>>
(* recv returns 0: the loop is left. *)
RecvNothing(p) ==
  /\ pc[p] = "net" /\ wire[p] = <<>> /\ link[p] \in {"fin", "dead"}
  /\ Close(p)
  /\ Cleared(p) /\ UNCHANGED <<toSend, printed, taken, userVars>>

(* recv returns -1: neither branch is taken, and the next recv returns 0. *)
RecvError(p) ==
  /\ pc[p] = "net" /\ wire[p] = <<>> /\ link[p] = "rst"
  /\ link' = [link EXCEPT ![p] = "dead"]
  /\ Goto(p, "select")
  /\ Cleared(p) /\ UNCHANGED <<toSend, printed, taken, userVars, wire>>

-----------------------------------------------------------------------------
Round(p) ==
  \/ Select(p) \/ ReadStdin(p) \/ StdinEof(p)
  \/ Push(p) \/ PushLost(p) \/ SendFails(p) \/ Killed(p) \/ Sent(p) \/ Leave(p)
  \/ Recv(p) \/ RecvNothing(p) \/ RecvError(p)

ClientStep == Connect \/ ConnectRefused \/ Round("client")
UserStep == \E p \in Programs : Type(p) \/ CloseStdin(p)

-----------------------------------------------------------------------------
(* How many units of the first k of s are not garbage. *)
Legible(s, k) == {m \in 1..k : s[m] # Garbage}
Rank(s, k) == Cardinality(Legible(s, k))

(* s reads as the beginning of 1, 2, ..., n and the farewell. *)
ReadsUpTo(s, n) ==
  \A k \in 1..Len(s) : s[k] # Garbage =>
    LET r == Rank(s, k) IN (r <= n /\ s[k] = r) \/ (r = n + 1 /\ s[k] = Bye)

(* What a program shows is what the other user typed, in order and from    *)
(* the beginning, however it was cut and joined on the way and however the *)
(* other one ends; a farewell comes last (send and recv of both loops).    *)
ShowsWhatWasTyped == \A p \in Programs : ReadsUpTo(printed[p], typed[Peer(p)])

(* All that a program is told, and how much the other one has told it: what*)
(* it has read from its user, and its farewell.                            *)
Stream(p) == printed[p] \o wire[p] \o toSend[Peer(p)]
Told(p) == taken[p] + (IF pc[p] = "bye" THEN 1 ELSE 0)

(* As long as nobody has closed, all that was read is shown, under way or  *)
(* held by a send that waits: nothing is lost or passed between the two    *)
(* loops (send and recv of both).                                          *)
NothingLost ==
  \A p \in Programs :
    ~Stopped(p) /\ ~Stopped(Peer(p)) =>
      /\ ReadsUpTo(Stream(p), typed[Peer(p)])
      /\ Rank(Stream(p), Len(Stream(p))) = Told(Peer(p))

(* Each waits in send until the other one reads. *)
StuckTogether ==
  \A p \in Programs : Sending(p) /\ link[p] = "up" /\ Len(wire[Peer(p)]) = SockCap

(* The client found nobody listening.  A client that has been connected    *)
(* and closes leaves its mark at the server.                               *)
Refused == pc["client"] = "done" /\ link["server"] = "up"
(* p has been connected, and may have ended since. *)
Connected(p) == pc[p] \notin {"start", "accept"} /\ ~Refused

(* What is typed is shown at the other side, unless somebody leaves or     *)
(* both wait for each other in send.  Both sides of the implication hold   *)
(* for ever once they hold, so that the one leads to the other.            *)
Typed(p) == Connected(p) /\ typed[p] = MaxTyped
AllShown(p) == MaxTyped \in ToSet(printed[p])
Delivered ==
  \A p \in Programs :
    []<>(Typed(p) => AllShown(Peer(p)) \/ StuckTogether \/ \E q \in Programs : eof[q])
=============================================================================

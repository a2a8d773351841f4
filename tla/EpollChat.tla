------------------------------ MODULE EpollChat ------------------------------
(***************************************************************************)
(* The servers that chat_client talks to: chat_server (PeerChat), and the  *)
(* two that wait with epoll, tcp_epoll1/epoll.c and epoll_et.c.  The first *)
(* is level-triggered and leaves its loop through flag, at the end of a    *)
(* batch.  The second is told of its socket once for every arrival, and    *)
(* drains it with MSG_DONTWAIT.  The two copies of the client are the same.*)
(***************************************************************************)
EXTENDS PeerChat

ASSUME EpollChatAssumption == BufSize > 1

VARIABLES
  kind,     (* which server runs                                           *)
  flag,     (* flag of epoll.c                                             *)
  edge      (* whether epoll_wait may report the socket.  Always, unless   *)
            (* it is edge-triggered                                        *)

kindVars == <<kind, flag, edge>>
chatVars == <<vars, kindVars>>

Kinds == {"select", "epoll", "et"}

ChatInit == Init /\ kind \in Kinds /\ flag = TRUE /\ edge = TRUE

(* What the kernel brings to the server's socket. *)
Arrival ==
  edge' = (edge \/ wire'["server"] # wire["server"] \/ link'["server"] # link["server"])

-----------------------------------------------------------------------------
(* The loop of both (epoll.c 47-69, epoll_et.c 33-63) *)

Reported == {f \in Ready("server") : f = "net" => edge}

EpollWait ==
  /\ kind # "select" /\ pc["server"] = "select" /\ Reported # {}
  /\ rfds' = [rfds EXCEPT !["server"] = Reported]
  /\ edge' = (kind # "et")
  /\ Goto("server", "batch")
  /\ UNCHANGED <<toSend, printed, taken, userVars, netVars, kind, flag>>

(* The events of a batch come in any order. *)
AtEvent(f) == pc["server"] = "batch" /\ f \in rfds["server"]
HandleEvent(f) == AtEvent(f) /\ rfds' = [rfds EXCEPT !["server"] = @ \ {f}]

(* sizeof(buf), or one less to leave place for a terminating zero. *)
Room == IF kind = "et" THEN BufSize - 1 ELSE BufSize

(* A buffer that is full has no terminating zero, and strlen goes on       *)
(* behind it up to the first one.                                          *)
Strings(data) == {data} \cup (IF Len(data) = BufSize THEN {Append(data, Garbage)} ELSE {})

EpollReadStdin ==
  LET n == Min({Room, typed["server"] - taken["server"]}) IN
  /\ HandleEvent("stdin") /\ n > 0 /\ Goto("server", "send")
  /\ taken' = [taken EXCEPT !["server"] = @ + n]
  /\ \E s \in Strings([k \in 1..n |-> taken["server"] + k]) :
       toSend' = [toSend EXCEPT !["server"] = s]
  /\ UNCHANGED <<printed, userVars, netVars, kindVars>>

EpollSend ==
  \/ (Push("server") \/ SendFails("server") \/ Killed("server")) /\ UNCHANGED kindVars
  \/ PushLost("server") /\ Arrival /\ UNCHANGED <<kind, flag>>

EpollSent ==
  /\ pc["server"] = "send" /\ toSend["server"] = <<>> /\ Goto("server", "batch")
  /\ UNCHANGED <<rfds, toSend, printed, taken, userVars, netVars, kindVars>>

-----------------------------------------------------------------------------
(* epoll.c.  The end of the input, and a send of nothing: it fails as any  *)
(* other, and after an error that was reported it raises SIGPIPE.          *)
EpollEof ==
  /\ kind = "epoll" /\ HandleEvent("stdin") /\ taken["server"] = typed["server"]
  /\ flag' = FALSE
  /\ link' = [link EXCEPT !["server"] = IF @ = "rst" THEN "dead" ELSE @]
  /\ Goto("server", IF link["server"] = "dead" THEN "killed" ELSE "batch")
  /\ UNCHANGED <<toSend, printed, taken, userVars, wire, kind, edge>>

EpollRecv ==
  /\ kind = "epoll" /\ HandleEvent("net") /\ wire["server"] # <<>>
  /\ Receives("server", Room) /\ Goto("server", "batch")
  /\ UNCHANGED <<toSend, taken, userVars, link, kindVars>>

(* recv returns 0, or -1, which nobody looks at. *)
EpollRecvNothing ==
  /\ kind = "epoll" /\ HandleEvent("net") /\ wire["server"] = <<>>
  /\ flag' = (flag /\ link["server"] = "rst")
  /\ link' = [link EXCEPT !["server"] = IF @ = "rst" THEN "dead" ELSE @]
  /\ Goto("server", "batch")
  /\ UNCHANGED <<toSend, printed, taken, userVars, wire, kind, edge>>

-----------------------------------------------------------------------------
(* epoll_et.c.  The end of the input: goto end, whatever else was reported.*)
EtEof ==
  /\ kind = "et" /\ AtEvent("stdin") /\ taken["server"] = typed["server"]
  /\ Close("server") /\ Cleared("server")
  /\ UNCHANGED <<toSend, printed, taken, userVars, kindVars>>

EtDrain ==
  /\ kind = "et" /\ HandleEvent("net") /\ Goto("server", "drain")
  /\ UNCHANGED <<toSend, printed, taken, userVars, netVars, kindVars>>

(* Mutant: one recv for each event, as in the lines that are commented out.*)
AfterRecvOnce == "batch"
AfterRecv == "drain"

EtRecv ==
  /\ pc["server"] = "drain" /\ wire["server"] # <<>>
  /\ Receives("server", Room) /\ Goto("server", AfterRecv)
  /\ UNCHANGED <<rfds, toSend, taken, userVars, link, kindVars>>

(* recv returns 0 or -1.  Neither ends the program. *)
EtDrained ==
  /\ pc["server"] = "drain" /\ wire["server"] = <<>> /\ Goto("server", "batch")
  /\ link' = [link EXCEPT !["server"] = IF @ = "rst" THEN "dead" ELSE @]
  /\ UNCHANGED <<rfds, toSend, printed, taken, userVars, wire, kindVars>>

-----------------------------------------------------------------------------
EpollBatchDone ==
  /\ pc["server"] = "batch" /\ rfds["server"] = {}
  /\ IF flag THEN Goto("server", "select") /\ UNCHANGED netVars ELSE Close("server")
  /\ UNCHANGED <<rfds, toSend, printed, taken, userVars, kindVars>>

EpollServer ==
  \/ EpollWait \/ EpollReadStdin \/ EpollSend \/ EpollSent
  \/ EpollEof \/ EpollRecv \/ EpollRecvNothing
  \/ EtEof \/ EtDrain \/ EtRecv \/ EtDrained \/ EpollBatchDone

ServerStep ==
  \/ (Listen \/ Accept) /\ UNCHANGED kindVars
  \/ kind = "select" /\ Round("server") /\ UNCHANGED kindVars
  \/ kind # "select" /\ EpollServer

ChatNext ==
  \/ ServerStep
  \/ ClientStep /\ Arrival /\ UNCHANGED <<kind, flag>>
  \/ UserStep /\ UNCHANGED kindVars

ChatSpec == ChatInit /\ [][ChatNext]_chatVars
(* Both programs keep running.  Nothing is assumed of the users. *)
FairSpec ==
  /\ ChatSpec
  /\ WF_chatVars(ServerStep)
  /\ WF_chatVars(ClientStep /\ Arrival /\ UNCHANGED <<kind, flag>>)

-----------------------------------------------------------------------------
(* The variables keep their types; each program shows what the other user  *)
(* typed, in order and from the beginning, whatever cuts, joins, resets or *)
(* runs on behind a buffer; nothing is lost while both programs live; and  *)
(* a server that waits for an edge has one coming when data is unread      *)
(* (send, strlen and recv of all programs, the drain of epoll_et.c 53-60). *)
Intact ==
  /\ TypeOK /\ kind \in Kinds /\ {flag, edge} \subseteq BOOLEAN
  /\ ShowsWhatWasTyped /\ NothingLost
  /\ pc["server"] = "select" /\ wire["server"] # <<>> => edge

(* A user that closes the input ends both programs, unless both wait for   *)
(* each other in send.  Only epoll_et.c goes on without its client         *)
(* (chat_server 92-96, 107-109, epoll.c 55-65, epoll_et.c 40-42, 57-59).   *)
(* Both sides of the implication hold for ever once they hold.             *)
EndedBy(p) == IF kind = "et" THEN {"client", p} ELSE Programs
EndsTogether ==
  \A p \in Programs :
    []<>(eof[p] /\ Connected(p) => (\A q \in EndedBy(p) : Stopped(q)) \/ StuckTogether)
=============================================================================

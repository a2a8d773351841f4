--------------------------- MODULE ReconnectServer ---------------------------
(***************************************************************************)
(* The reconnecting chat server (socket_test/tcp_epoll2/                   *)
(* server_reconnect.c): it sends what its user types to the connection in  *)
(* netFd and drops that connection when it is older than a limit and       *)
(* nothing happens.  While it is connected, anything that can be read from *)
(* the connection makes it wait for the next client and close that one, so *)
(* it never receives anything.  A client that is accepted in the meantime  *)
(* takes the place of the first one, which is never looked at again.       *)
(***************************************************************************)
EXTENDS EpollClients

CONSTANTS
  Limit,      (* the age in seconds that is allowed, 5 in the code         *)
  MaxTyped    (* how much the user types at most                           *)

ASSUME ReconnectAssumption ==
  Limit \in Nat /\ MaxTyped \in Nat

VARIABLES
  netFd,        (* the latest connection                                   *)
  isConnected,
  flag,         (* whether the loop goes on                                *)
  age,          (* how many seconds of time(NULL) - tmsg passed in vain    *)
  typed,        (* how much the user has typed                             *)
  taken,        (* how much of it was read                                 *)
  eof           (* whether the user has closed the standard input          *)

userVars == <<typed, eof>>
connectVars == <<netFd, isConnected, flag, age, taken>>
reconnectVars == <<prog, pc, ready, clientVars, heard, out, connectVars, userVars>>

ReconnectInit ==
  /\ netFd = NoClient /\ isConnected = FALSE /\ flag = TRUE /\ age = 0
  /\ typed = 0 /\ taken = 0 /\ eof = FALSE

(* The units a client is sent: <<NoClient, 1>>, ... for what was typed.    *)
Typed(n) == <<NoClient, n>>
TimeOut == <<NoClient, MaxTyped + 1>>

-----------------------------------------------------------------------------
(* The user. *)

Type ==
  /\ ~eof /\ typed < MaxTyped /\ typed' = typed + 1
  /\ UNCHANGED <<pc, connectVars, eof>>

CloseStdin ==
  /\ ~eof /\ eof' = TRUE
  /\ UNCHANGED <<pc, connectVars, typed>>

UserStep ==
  /\ prog.server = "reconnect" /\ prog.user /\ Running
  /\ Type \/ CloseStdin
  /\ UNCHANGED <<prog, ready, clientVars, heard, out>>

-----------------------------------------------------------------------------
(* epoll_wait (lines 50-65) *)

Ready == ReadySockets \cup {f \in {Stdin} : taken < typed \/ eof}

(* readyArr, of READYARR_SIZE events, is filled as far as possible. *)
Reports == kSubset(Min({prog.readySize, Cardinality(Ready)}), Ready) \ {{}}

ReconnectWait ==
  /\ pc = "wait" /\ flag
  /\ ready' \in Reports
  /\ pc' = "dispatch"
  /\ UNCHANGED <<clientVars, heard, out, connectVars, userVars>>

(* A second in which nothing is ready.  Time also passes elsewhere, so the *)
(* limit can be reached by any such second and is by Limit + 1 of them.    *)
WaitedInVain ==
  /\ pc = "wait" /\ flag /\ Ready = {} /\ isConnected /\ age < Limit
  /\ age' = age + 1
  /\ UNCHANGED <<pc, ready, clientVars, heard, out, netFd, isConnected, flag, taken, userVars>>

(* The same, with a connection that is too old: it is told so.             *)
TooOld ==
  /\ pc = "wait" /\ flag /\ Ready = {} /\ isConnected
  /\ pc' = "farewell"
  /\ UNCHANGED <<ready, clientVars, heard, out, connectVars, userVars>>

(* Mutant: closed without a word, and isConnected keeps its value. *)
TimesOutStillConnected ==
  /\ pc = "farewell" /\ pc' = "wait"
  /\ conn' = [conn EXCEPT ![netFd] = "closed"]
  /\ UNCHANGED <<ready, said, left, heard, out, connectVars, userVars>>
(* The message is sent and the connection closed.  netFd keeps the number  *)
(* of what is closed.                                                      *)
TimesOut ==
  /\ pc = "farewell" /\ pc' = "wait"
  /\ SendTakes(netFd, <<TimeOut>>) \/ SendRefused(netFd)
  /\ conn' = [conn EXCEPT ![netFd] = "closed"]
  /\ isConnected' = FALSE /\ age' = 0
  /\ UNCHANGED <<ready, said, heard, netFd, flag, taken, userVars>>

(* The client has reset the connection meanwhile: SIGPIPE. *)
FarewellKills ==
  /\ pc = "farewell" /\ SendRefused(netFd) /\ pc' = "killed"
  /\ UNCHANGED <<ready, conn, said, heard, connectVars, userVars>>

-----------------------------------------------------------------------------
(* The events (lines 67-108).  accept waits if nobody is in the backlog.   *)

(* Mutant: only a server that is not connected accepts. *)
CallAcceptIfFree ==
  /\ pc = "dispatch" /\ Listen \in ready
  /\ ready' = ready \ {Listen} /\ pc' = IF isConnected THEN pc ELSE "accept"
  /\ UNCHANGED <<clientVars, heard, out, connectVars, userVars>>
(* If accept fails, as for want of descriptors, ERROR_CHECK ends the       *)
(* program (line 70).                                                      *)
CallAccept ==
  /\ pc = "dispatch" /\ Listen \in ready
  /\ ready' = ready \ {Listen} /\ pc' \in {"accept", "exited"}
  /\ UNCHANGED <<clientVars, heard, out, connectVars, userVars>>

(* The old value of netFd is overwritten; its connection stays open. *)
Accepted ==
  /\ pc = "accept"
  /\ \E c \in Backlog : conn' = [conn EXCEPT ![c] = "open"] /\ netFd' = c
  /\ isConnected' = TRUE /\ age' = 0 /\ pc' = "dispatch"
  /\ UNCHANGED <<ready, said, left, heard, out, flag, taken, userVars>>

(* netFd can be read while isConnected is set.  An error of accept is not  *)
(* noticed.  The rest of this branch, with the recv, is dead code: see     *)
(* ReconnectIntact.                                                        *)
CallAcceptNoFd ==
  /\ pc = "dispatch" /\ netFd \in ready /\ isConnected
  /\ ready' = ready \ {netFd} /\ pc' \in {"noFd", "dispatch"}
  /\ UNCHANGED <<clientVars, heard, out, connectVars, userVars>>

ClosedNoFd ==
  /\ pc = "noFd"
  /\ \E c \in Backlog : conn' = [conn EXCEPT ![c] = "closed"]
  /\ pc' = "dispatch"
  /\ UNCHANGED <<ready, said, left, heard, out, connectVars, userVars>>

(* An event of a connection that netFd named before. *)
NoBranch ==
  /\ pc = "dispatch"
  /\ \E c \in ready \ {Listen, Stdin, netFd} : ready' = ready \ {c}
  /\ UNCHANGED <<pc, clientVars, heard, out, connectVars, userVars>>

ReadStdin(n) ==
  /\ pc = "dispatch" /\ Stdin \in ready
  /\ n = Min({BufSize, typed - taken})
  /\ taken' = taken + n

(* Not connected: the text is dropped, and so is the rest of the batch. *)
StdinDropped ==
  /\ ReadStdin(Min({BufSize, typed - taken})) /\ ~isConnected
  /\ ready' = {}
  /\ UNCHANGED <<pc, clientVars, heard, out, netFd, isConnected, flag, age, userVars>>

(* Mutant: the end of the standard input is not noticed. *)
GoesOnAlways(n) == TRUE
(* read returned something. *)
GoesOn(n) == n > 0

(* Connected: the text is sent.  At the end of the input the loop is left  *)
(* after this batch.  A send that waits is one step with its read.         *)
StdinSent ==
  LET n == Min({BufSize, typed - taken})  text == [k \in 1..n |-> Typed(taken + k)] IN
  /\ ReadStdin(n) /\ isConnected
  /\ ready' = ready \ {Stdin}
  /\ flag' = (flag /\ GoesOn(n))
  /\ \/ \E s \in Strings(text) : SendTakes(netFd, s) /\ UNCHANGED pc
     \/ SendRefused(netFd) /\ UNCHANGED pc
     \/ SendRefused(netFd) /\ pc' = "killed"
  /\ UNCHANGED <<conn, said, heard, netFd, isConnected, age, userVars>>

BatchDone ==
  /\ pc = "dispatch" /\ ready = {} /\ pc' = "wait"
  /\ UNCHANGED <<ready, clientVars, heard, out, connectVars, userVars>>

(* The end: everything is closed, with the process what netFd left behind. *)
LoopLeft ==
  /\ pc = "wait" /\ ~flag /\ pc' = "done"
  /\ conn' = [c \in Clients |-> IF conn[c] = "idle" THEN "idle" ELSE "closed"]
  /\ UNCHANGED <<ready, said, left, heard, out, connectVars, userVars>>

ReconnectStep ==
  /\ prog.server = "reconnect" /\ UNCHANGED prog
  /\ \/ ReconnectWait \/ WaitedInVain \/ TooOld \/ TimesOut \/ FarewellKills
     \/ CallAccept \/ Accepted \/ CallAcceptNoFd \/ ClosedNoFd \/ NoBranch \/ StdinDropped \/ StdinSent
     \/ BatchDone \/ LoopLeft

-----------------------------------------------------------------------------
ReconnectTypeOK ==
  /\ ClientsTypeOK
  /\ pc \in {"wait", "farewell", "dispatch", "accept", "noFd", "done", "exited", "killed"}
  /\ netFd \in Clients \cup {NoClient} /\ {isConnected, flag, eof} \subseteq BOOLEAN
  /\ age \in 0..Limit /\ typed \in 0..MaxTyped /\ taken \in 0..typed

(* isConnected says whether netFd is open and registered, also when the    *)
(* connection changes within a batch, so the branch that receives is never *)
(* reached; and what the user types is sent in order and to one client     *)
(* only (lines 53-65, 69-75, 90-95).                                       *)
ReconnectIntact ==
  prog.server = "reconnect" =>
    /\ ReconnectTypeOK
    /\ Running => (isConnected <=> netFd \in Open)
    /\ netFd \in ready => isConnected
    /\ \A c, d \in Clients : \A k \in 1..Len(out[c]), l \in 1..Len(out[d]) :
         LET u == out[c][k]  v == out[d][l] IN
         /\ c # d /\ u = v => u \in {Garbage, TimeOut}
         /\ c = d /\ k < l /\ v # Garbage => u[2] < v[2]

InAccept == pc \in {"accept", "noFd"} /\ Backlog = {}
Ended == pc \in {"done", "exited", "killed"}

(* The server is inside a send to a client that does not read. *)
InSend ==
  \/ pc = "farewell" /\ ~Fits(netFd, <<TimeOut>>)
  \/ /\ pc = "dispatch" /\ Stdin \in ready /\ isConnected
     /\ ~Fits(netFd, [k \in 1..Min({BufSize, typed - taken}) |-> Typed(taken + k)])

(* A connection is given up in the end, unless something goes on becoming  *)
(* ready, which starts the second of epoll_wait anew: a client that comes, *)
(* any connection that can be read, replaced ones too, or a user who goes  *)
(* on typing; or a send to a client that does not read waits.  What was    *)
(* sent to it does not matter (lines 50-65).  So there is no time from     *)
(* which on it is connected and none of this happens.                      *)
IdleTimesOut ==
  []<>(prog.server = "reconnect" /\ isConnected => Ended \/ Ready # {} \/ InSend)

(* Once the user closes the input while somebody is connected, the server  *)
(* ends, unless it waits for a client that does not come, or in a send to  *)
(* one that does not read (lines 85-92).  Not if the input is closed while *)
(* the connection is being given up: then the end is read without one, and *)
(* dropped in every round (lines 82-84).  Nobody times out any more then,  *)
(* so this is a leads-to.                                                  *)
ReconnectEnds ==
  []<>(prog.server = "reconnect" /\ eof /\ isConnected /\ pc # "farewell" =>
         Ended \/ InAccept \/ InSend)

(* A client that connects is accepted or turned away, also when there are  *)
(* more replaced connections to report in every round than readyArr takes, *)
(* unless the input was closed with nobody connected, which drops every    *)
(* batch (lines 82-84), or a send waits: nobody is in the backlog for ever.*)
BacklogAccepted ==
  \A c \in UNION {s.callers : s \in {t \in Setups : t.server = "reconnect"}} :
    []<>(prog.server = "reconnect" /\ conn[c] = "backlog" =>
           Ended \/ (eof /\ ~isConnected) \/ InSend)
=============================================================================

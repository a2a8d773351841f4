----------------------------- MODULE EpollClients ----------------------------
(***************************************************************************)
(* What the two chat servers with several clients share (socket_test/      *)
(* tcp_epoll3/server_room.c and tcp_epoll2/server_reconnect.c): their      *)
(* clients, and a level-triggered epoll that reports, in any order, every  *)
(* descriptor that can be read, again and again while it can.              *)
(***************************************************************************)
EXTENDS Units, FiniteSetsExt, SequencesExt

CONSTANTS
  Clients,    (* each connects once; a reconnection is another client      *)
  Setups,     (* what may be run: a server, the clients that may call it,  *)
              (* how many events its readyArr takes, and whether there is  *)
              (* a user who types                                          *)
  MaxSaid,    (* how much each client says at most                         *)
  BufSize,    (* sizeof(buf) of the servers                                *)
  Stalled,    (* clients that do not read                                  *)
  SockCap,    (* how much the socket of such a client takes                *)
  NoClient    (* a descriptor variable that names no connection            *)

ASSUME EpollClientsAssumption ==
  /\ IsFiniteSet(Clients)
  /\ {NoClient, "listen", "stdin"} \cap Clients = {} /\ NoClient \notin {"listen", "stdin"}
  /\ Setups \subseteq [server : {"room", "reconnect"}, callers : SUBSET Clients,
                       readySize : Nat \ {0}, user : BOOLEAN]
  /\ MaxSaid \in [Clients -> Nat] /\ BufSize \in Nat \ {0}
  /\ Stalled \subseteq Clients /\ SockCap \in Nat

VARIABLES
  prog,     (* what is run: an element of Setups                           *)
  pc,       (* where it is                                                 *)
  ready,    (* the events of readyArr it has not handled yet               *)
  conn,     (* "idle", "backlog", "open" or "closed"                       *)
  said,     (* how much each client has said                               *)
  heard,    (* how much of it the server has received                      *)
  left,     (* "no", "fin" after close, "rst" once the connection is reset *)
  out       (* what the server has sent to each client                     *)

clientVars == <<conn, said, left>>

Listen == "listen"
Stdin == "stdin"
Running == pc \notin {"done", "killed", "exited", "overrun"}
Backlog == {c \in Clients : conn[c] = "backlog"}
Open == {c \in Clients : conn[c] = "open"}
Readable(c) == heard[c] < said[c] \/ left[c] # "no"
ReadySockets == {c \in Open : Readable(c)} \cup {l \in {Listen} : Backlog # {}}

(* What somebody said, or the server itself. *)
Unit == (Clients \cup {NoClient}) \X Nat

ClientsTypeOK ==
  /\ prog \in Setups
  /\ ready \subseteq Clients \cup {Listen, Stdin}
  /\ conn \in [Clients -> {"idle", "backlog", "open", "closed"}]
  /\ said \in [Clients -> Nat] /\ heard \in [Clients -> Nat]
  /\ \A c \in Clients : said[c] <= MaxSaid[c] /\ heard[c] <= said[c]
  /\ left \in [Clients -> {"no", "fin", "rst"}]
  /\ out \in [Clients -> Seq(Unit)]

ClientsInit ==
  /\ prog \in Setups /\ pc = "wait" /\ ready = {}
  /\ conn = [c \in Clients |-> "idle"]
  /\ said = [c \in Clients |-> 0] /\ heard = [c \in Clients |-> 0]
  /\ left = [c \in Clients |-> "no"]
  /\ out = [c \in Clients |-> <<>>]

-----------------------------------------------------------------------------
Connect(c) ==
  /\ conn[c] = "idle" /\ c \in prog.callers /\ conn' = [conn EXCEPT ![c] = "backlog"]
  /\ UNCHANGED <<said, left>>

Say(c) ==
  /\ conn[c] \in {"backlog", "open"} /\ left[c] = "no" /\ said[c] < MaxSaid[c]
  /\ said' = [said EXCEPT ![c] = @ + 1]
  /\ UNCHANGED <<conn, left>>

(* The client closes; with something unread the connection is reset. *)
Leave(c) ==
  /\ conn[c] \in {"backlog", "open"} /\ left[c] = "no"
  /\ \E how \in {"fin", "rst"} : left' = [left EXCEPT ![c] = how]
  /\ UNCHANGED <<conn, said>>

ClientStep ==
  /\ Running
  /\ \E c \in Clients : Connect(c) \/ Say(c) \/ Leave(c)
  /\ UNCHANGED <<prog, pc, ready, heard, out>>

-----------------------------------------------------------------------------
(* strlen of a buffer that was filled to its end also counts what happens  *)
(* to follow.                                                              *)
Garbage == <<NoClient, 0>>
Strings(data) ==
  {data} \cup (IF Len(data) = BufSize THEN {Append(data, Garbage)} ELSE {})

(* Whether send returns: the socket of a client that does not read fills.  *)
Fits(c, data) == c \in Stalled /\ left[c] = "no" => Len(out[c]) + Len(data) <= SockCap

(* send that the connection takes.  The first one to a client that has     *)
(* closed provokes a reset, unless it is empty.                            *)
SendTakes(c, data) ==
  /\ left[c] # "rst" /\ Fits(c, data)
  /\ out' = [out EXCEPT ![c] = @ \o data]
  /\ \E how \in IF left[c] = "fin" /\ data # <<>> THEN {"fin", "rst"} ELSE {left[c]} :
       left' = [left EXCEPT ![c] = how]

(* send to a client that has reset, also of nothing: an error, or SIGPIPE. *)
SendRefused(c) == left[c] = "rst" /\ UNCHANGED <<out, left>>
=============================================================================

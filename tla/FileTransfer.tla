---------------------------- MODULE FileTransfer ----------------------------
(***************************************************************************)
(* The protocol by which both pool servers send "file1" and their clients  *)
(* receive it (socket_pool: transFile.c, client.c, splice.c): frames with  *)
(* a length in front ("trains"), the contents of the file by sendfile, and *)
(* an empty frame at the end.  TCP delivers the bytes in pieces of any     *)
(* size; the server may be killed at any byte.                             *)
(*                                                                         *)
(* A byte on the wire is a cell that says what it is a byte of, so that    *)
(* bytes read at the wrong place can be told apart.                        *)
(***************************************************************************)
EXTENDS Integers, Sequences

CONSTANTS
  IntSize,      (* sizeof(int), in bytes                                   *)
  IntHalf,      (* ints are -IntHalf..IntHalf - 1                          *)
  NameLen,      (* the length of "file1"                                   *)
  FileLens,     (* the values st_size can have                             *)
  MaxSendfile,  (* the most one sendfile call transfers                    *)
  SpliceMax     (* the length given to splice, 4096                        *)

ASSUME FileTransferAssumption ==
  /\ {IntSize, IntHalf, NameLen, MaxSendfile, SpliceMax} \subseteq Nat \ {0}
  /\ IntSize < IntHalf /\ NameLen < IntHalf /\ MaxSendfile < IntHalf
  /\ FileLens \subseteq Nat

VARIABLES
  method,    (* how the client receives the contents: "mmap" or "splice"   *)
  fileLen,   (* statbuf.st_size at the server                              *)
  server,    (* "sending", "closed" after the last frame, or "killed"      *)
  frame,     (* the send call of transFile the server is at                *)
  wire,      (* cells sent and not received yet, in order                  *)
  cpc,       (* where the client is in recvFile                            *)
  want,      (* len of the current recvn                                   *)
  buf,       (* what the current recvn has received                        *)
  fileSize,  (* fileSize of the client                                     *)
  file       (* what the client has written to its file                    *)

serverVars == <<method, fileLen, server, frame>>
vars == <<serverVars, wire, cpc, want, buf, fileSize, file>>

Least(a, b) == IF a < b THEN a ELSE b

(* An int with the width of the machine: the conversion of an off_t.       *)
ToInt(n) ==
  LET m == n % (2 * IntHalf) IN IF m < IntHalf THEN m ELSE m - 2 * IntHalf

IntCells(v) == [i \in 1..IntSize |-> <<"int", v, i>>]
NameCells == [i \in 1..NameLen |-> <<"name", 0, i>>]
DataCells(n) == [i \in 1..n |-> <<"data", 0, i>>]

(* The bytes of an int, read in one piece, are the int that was sent; any  *)
(* other bytes are garbage.                                                *)
Garbage == 0 - IntHalf
Decode(cells) ==
  IF Len(cells) = IntSize /\ cells = IntCells(cells[1][2]) THEN cells[1][2] ELSE Garbage

ClientStates == {"nameLen", "name", "sizeLen", "size", "data", "end", "done", "failed"}

TypeOK ==
  /\ method \in {"mmap", "splice"} /\ fileLen \in FileLens
  /\ server \in {"sending", "closed", "killed"} /\ frame \in 1..5
  /\ cpc \in ClientStates
  /\ want \in Nat /\ Len(buf) < want
  /\ fileSize \in -IntHalf..IntHalf - 1
  /\ Len(file) \in Nat

Init ==
  /\ method \in {"mmap", "splice"}
  /\ fileLen \in FileLens
  /\ server = "sending" /\ frame = 1 /\ wire = <<>>
  /\ cpc = "nameLen" /\ want = IntSize /\ buf = <<>>
  /\ fileSize = 0 /\ file = <<>>

-----------------------------------------------------------------------------
(* The server: transFile.                                                  *)

(* A train: the length, then the bytes. *)
Train(cells) == IntCells(Len(cells)) \o cells

(* sendfile(netFd, fd, NULL, fileSize), its result ignored: a negative     *)
(* count is an error and sends nothing.                                    *)
Sendfile(count) == DataCells(IF count < 0 THEN 0 ELSE Least(count, MaxSendfile))

(* Mutant: the last frame is not sent. *)
FramesNoEnd ==
  << Train(NameCells), Train(IntCells(ToInt(fileLen))), Sendfile(ToInt(fileLen)), <<>> >>
(* What transFile sends, one element per call. *)
Frames ==
  << Train(NameCells), Train(IntCells(ToInt(fileLen))), Sendfile(ToInt(fileLen)),
     Train(<<>>) >>

Send ==
  /\ server = "sending" /\ frame <= 4
  /\ wire' = wire \o Frames[frame]
  /\ frame' = frame + 1
  /\ UNCHANGED <<method, fileLen, server, cpc, want, buf, fileSize, file>>

(* Back in the worker, the connection is closed. *)
CloseConnection ==
  /\ server = "sending" /\ frame = 5
  /\ server' = "closed"
  /\ UNCHANGED <<method, fileLen, frame, wire, cpc, want, buf, fileSize, file>>

(* The server is killed, having sent any part of the frame it was at. *)
Kill ==
  /\ server = "sending" /\ frame <= 4
  /\ server' = "killed"
  /\ \E n \in 0..Len(Frames[frame]) : wire' = wire \o SubSeq(Frames[frame], 1, n)
  /\ UNCHANGED <<method, fileLen, frame, cpc, want, buf, fileSize, file>>

-----------------------------------------------------------------------------
(* The client: recvFile.  Once the stream has ended recv and splice return *)
(* 0 for ever, and both loops spin without a change of state.              *)

Goto(to, len) == cpc' = to /\ want' = len /\ buf' = <<>>

(* What recvFile does once a recvn is complete, with the bytes it read. *)
AfterRecvn(cells) ==
  \/ /\ cpc \in {"nameLen", "sizeLen"}
     /\ Goto(IF cpc = "nameLen" THEN "name" ELSE "size", Decode(cells))
     /\ UNCHANGED fileSize
  \/ cpc = "name" /\ Goto("sizeLen", IntSize) /\ UNCHANGED fileSize
  \/ /\ cpc = "size"
     /\ fileSize' = Decode(cells)
     /\ \/ Decode(cells) > 0 /\ Goto("data", IntSize)
        \/ Decode(cells) <= 0 /\ method = "mmap" /\ Goto("failed", IntSize)
        \/ Decode(cells) <= 0 /\ method = "splice" /\ Goto("end", IntSize)
  \/ cpc = "end" /\ Goto("done", IntSize) /\ UNCHANGED fileSize

(* Mutant: one recv is taken for the whole, as without the loop. *)
CompleteAtOnce(n) == TRUE
(* The loop condition of recvn. *)
Complete(n) == Len(buf) + n >= want

(* One recv of recvn: any part of what has arrived, up to what is missing. *)
Recvn ==
  /\ cpc \in {"nameLen", "name", "sizeLen", "size", "end"}
  /\ \E n \in 1..Least(want - Len(buf), Len(wire)) :
       /\ wire' = SubSeq(wire, n + 1, Len(wire))
       /\ \/ /\ ~Complete(n)
             /\ buf' = buf \o SubSeq(wire, 1, n)
             /\ UNCHANGED <<cpc, want, fileSize>>
          \/ Complete(n) /\ AfterRecvn(buf \o SubSeq(wire, 1, n))
  /\ UNCHANGED <<serverVars, file>>

(* Mutant: the mmap client reads without a bound, too. *)
LimitUnbounded == SpliceMax
(* The most one read of the contents takes: recvn stops at fileSize,       *)
(* splice takes whatever the socket has.                                   *)
Limit == IF method = "mmap" THEN fileSize - Len(file) ELSE SpliceMax

(* One round of the loop that receives the contents. *)
RecvData ==
  /\ cpc = "data"
  /\ \E n \in 1..Least(Limit, Len(wire)) :
       /\ file' = file \o SubSeq(wire, 1, n)
       /\ wire' = SubSeq(wire, n + 1, Len(wire))
  /\ \/ Len(file') < fileSize /\ UNCHANGED <<cpc, want, buf>>
     \/ Len(file') >= fileSize /\ Goto("end", IntSize)
  /\ UNCHANGED <<serverVars, fileSize>>

Next == Send \/ CloseConnection \/ Kill \/ Recvn \/ RecvData

(* Server and client keep running; the server need not be killed. *)
Fairness == WF_vars(Send \/ CloseConnection) /\ WF_vars(Recvn \/ RecvData)

Spec == Init /\ [][Next]_vars
FairSpec == Spec /\ Fairness

-----------------------------------------------------------------------------
(* The variables keep their types, the decoded lengths those of an int,    *)
(* and a client that completes has the file, whole and exact, whatever     *)
(* pieces it arrived in and however the server died, as long as the size   *)
(* fits an int (client.c recvFile, transFile.c).                           *)
CompletionImpliesIntegrity ==
  TypeOK /\ (cpc = "done" /\ fileLen < IntHalf => file = DataCells(fileLen))

(* The client spins at the end of the stream. *)
Hung == wire = <<>> /\ server # "sending" /\ cpc \notin {"done", "failed"}

(* A client is left spinning only by a server that died, by a sendfile     *)
(* that stopped short, or by a splice that took bytes of the last frame    *)
(* for the end of the file, which is corrupt then (splice.c lines 39-44    *)
(* and 51).                                                                *)
HangsExplained ==
  Hung => \/ server = "killed"
          \/ fileLen > MaxSendfile
          \/ method = "splice" /\ Len(file) > fileSize

(* Unless the server dies, the mmap client completes for every size that   *)
(* one sendfile can send, except for the empty file (client.c 40-45).      *)
MmapCompletes ==
  method = "mmap" /\ fileLen \in 1..MaxSendfile
    ~> cpc = "done" \/ server = "killed"
=============================================================================

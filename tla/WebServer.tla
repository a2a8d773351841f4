------------------------------ MODULE WebServer -----------------------------
(***************************************************************************)
(* The web server (web_server/server.c): one thread, a level-triggered     *)
(* listening socket and edge-triggered, non-blocking connections.  At each *)
(* event the server drains the socket into a buffer that lives only for    *)
(* this event, takes the first line for a request and answers it with      *)
(* send calls whose result is mostly ignored.                              *)
(*                                                                         *)
(* A request on the wire is three cells: the first part of its line, the   *)
(* rest of the line with its end, and the header lines.  What the line     *)
(* says is a method and a path, a sequence of character codes.  An answer  *)
(* is a sequence of units <<request, what, number>>.                       *)
(***************************************************************************)
EXTENDS Naturals, FiniteSetsExt, SequencesExt

CONSTANTS
  Clients,     (* the clients, one connection each                         *)
  Patient,     (* clients that send a whole request at once                *)
  Slow,        (* clients whose socket takes SndBuf units at a time        *)
  Scripts,     (* the sequences of requests each client may have           *)
  RecvMax,     (* the most one recv returns, 1024 in the code              *)
  BufSize,     (* sizeof(buf) in recvHttpRequest, 4096 in the code         *)
  SndBuf,      (* what fits in the socket of a slow client                 *)
  FileLen,     (* the length of a file                                     *)
  ChunkSize,   (* sizeof(buf) in sendFile                                  *)
  DirLen,      (* the number of entries of a directory                     *)
  Disk,        (* what is on the disk under each name: an element of Kinds *)
  Urls,        (* paths that decoding is tried on besides those requested  *)
  FdLimits,    (* how many descriptors the process may have for            *)
               (* connections and files: the limit, less those it starts   *)
               (* with                                                     *)
  NoClient     (* curFd when no connection is being handled                *)

(* stat finds what is locked, but it cannot be read; a dangling directory  *)
(* has an entry that stat does not find.                                   *)
Kinds == {"file", "lockedFile", "dir", "dangling", "lockedDir"}
Paths == Seq(1..255) \ {<<>>}
Requests == [method : {"GET", "POST"}, path : Paths]

ASSUME WebServerAssumption ==
  /\ Patient \subseteq Clients /\ Slow \subseteq Clients
  /\ NoClient \notin Clients /\ "listen" \notin Clients
  /\ {RecvMax, BufSize, SndBuf, FileLen, ChunkSize, DirLen} \subseteq Nat \ {0}
  /\ \A c \in Clients : Scripts[c] \subseteq Seq(Requests)
  /\ Urls \subseteq Seq(1..255) /\ FdLimits \subseteq Nat
  /\ \A name \in DOMAIN Disk : name \in Seq(1..255) /\ Disk[name] \in Kinds

VARIABLES
  fdLimit,  (* the limit this process has: an element of FdLimits          *)
  server,   (* "wait", "dispatch", "recv", "reply", "exited" or "killed"   *)
  events,   (* events of eventList not handled yet                         *)
  curFd,    (* the connection being handled                                *)
  buf,      (* buf of recvHttpRequest                                      *)
  total,    (* total of recvHttpRequest                                    *)
  todo,     (* what parseRequestLine has still to do                       *)
  conn,     (* "idle", "backlog", "open" or "closed"                       *)
  edge,     (* whether an open connection is in epoll's ready list         *)
  script,   (* the requests each client makes                              *)
  sent,     (* how many cells each client has sent                         *)
  read,     (* how many of them the server has received                    *)
  left,     (* "no", "fin" after close, "rst" once the connection is reset *)
  room,     (* what the socket of a slow client still takes                *)
  out       (* the units accepted by each client's socket                  *)

localVars == <<curFd, buf, total, todo>>
serverVars == <<fdLimit, server, events, localVars, read>>
clientVars == <<script, sent, left, room>>
vars == <<serverVars, conn, edge, clientVars, out>>

(* The cells of request r of a client are 3r - 2, 3r - 1 and 3r.           *)
Request(cell) == (cell + 2) \div 3
EndsLine(cell) == cell % 3 # 1
LineSent(c, r) == sent[c] >= 3 * r - 1

Listen == "listen"
Running == server \notin {"exited", "killed"}
Readable(c) == read[c] < sent[c] \/ left[c] # "no"
Arrived == \E c \in Clients : conn[c] = "backlog"

(* Whether there is a descriptor left for another connection or a file. *)
CanOpen == Cardinality({c \in Clients : conn[c] = "open"}) < fdLimit

(* A unit of an answer. *)
IsUnit(u) ==
  \/ u[2] = "status" /\ u[3] \in {200, 404}
  \/ u[2] \in {"body", "page"} /\ u[3] \in 1..FileLen
  \/ u[2] = "row" /\ u[3] \in 1..DirLen
  \/ u[2] = "tail"

Ops == {"send", "sendCheck", "exit", "free"}

TypeOK ==
  /\ fdLimit \in FdLimits
  /\ server \in {"wait", "dispatch", "recv", "reply", "exited", "killed"}
  /\ events \subseteq Clients \cup {Listen}
  /\ curFd \in Clients \cup {NoClient}
  /\ buf \in Seq(Nat) /\ total \in Nat
  /\ \A i \in 1..Len(todo) : todo[i].op \in Ops
  /\ conn \in [Clients -> {"idle", "backlog", "open", "closed"}]
  /\ edge \in [Clients -> BOOLEAN]
  /\ \A c \in Clients : script[c] \in Scripts[c]
  /\ sent \in [Clients -> Nat] /\ read \in [Clients -> Nat]
  /\ left \in [Clients -> {"no", "fin", "rst"}]
  /\ room \in [Clients -> 0..SndBuf]
  /\ \A c \in Clients : \A i \in 1..Len(out[c]) : IsUnit(out[c][i])

Init ==
  /\ fdLimit \in FdLimits
  /\ server = "wait" /\ events = {} /\ curFd = NoClient
  /\ buf = <<>> /\ total = 0 /\ todo = <<>>
  /\ conn = [c \in Clients |-> "idle"]
  /\ edge = [c \in Clients |-> FALSE]
  /\ script \in {f \in [Clients -> UNION {Scripts[c] : c \in Clients}] :
                  \A c \in Clients : f[c] \in Scripts[c]}
  /\ sent = [c \in Clients |-> 0]
  /\ read = [c \in Clients |-> 0]
  /\ left = [c \in Clients |-> "no"]
  /\ room = [c \in Clients |-> SndBuf]
  /\ out = [c \in Clients |-> <<>>]

-----------------------------------------------------------------------------
(* The clients.  What reaches an open connection is an edge.               *)

Arrive(c) == edge' = [edge EXCEPT ![c] = (conn[c] = "open")]

Connect(c) ==
  /\ conn[c] = "idle" /\ Running
  /\ conn' = [conn EXCEPT ![c] = "backlog"]
  /\ UNCHANGED <<serverVars, edge, clientVars, out>>

(* A patient client sends a whole request in one segment, the others any   *)
(* number of cells.                                                        *)
Send(c) ==
  /\ Running /\ conn[c] \in {"backlog", "open"} /\ left[c] = "no"
  /\ \E n \in 1..3 * Len(script[c]) - sent[c] :
       /\ c \in Patient => n = 3
       /\ sent' = [sent EXCEPT ![c] = @ + n]
  /\ Arrive(c)
  /\ UNCHANGED <<serverVars, conn, script, left, room, out>>

(* The client closes, or resets the connection. *)
Leave(c) ==
  /\ Running /\ conn[c] \in {"backlog", "open"} /\ left[c] = "no"
  /\ \E how \in {"fin", "rst"} : left' = [left EXCEPT ![c] = how]
  /\ Arrive(c)
  /\ UNCHANGED <<serverVars, conn, script, sent, room, out>>

(* A slow client reads what is in its socket. *)
Read(c) ==
  /\ Running /\ c \in Slow /\ room[c] < SndBuf /\ left[c] = "no"
  /\ room' = [room EXCEPT ![c] = SndBuf]
  /\ UNCHANGED <<serverVars, conn, edge, script, sent, left, out>>

-----------------------------------------------------------------------------
(* epollRun *)

(* epoll_wait reports what is readable, and forgets the edges. *)
EpollWait ==
  LET report == {c \in Clients : conn[c] = "open" /\ edge[c] /\ Readable(c)}
                \cup {l \in {Listen} : Arrived} IN
  /\ server = "wait" /\ report # {}
  /\ events' = report
  /\ edge' = [c \in Clients |-> FALSE]
  /\ server' = "dispatch"
  /\ UNCHANGED <<localVars, read, conn, clientVars, out>>

EndOfBatch ==
  /\ server = "dispatch" /\ events = {}
  /\ server' = "wait"
  /\ UNCHANGED <<events, localVars, read, conn, edge, clientVars, out>>

(* acceptConn.  Adding a descriptor that is already readable is an edge. *)
AcceptConn ==
  /\ server = "dispatch" /\ Listen \in events /\ CanOpen
  /\ events' = events \ {Listen}
  /\ \E c \in Clients :
       /\ conn[c] = "backlog"
       /\ conn' = [conn EXCEPT ![c] = "open"]
       /\ edge' = [edge EXCEPT ![c] = Readable(c)]
  /\ UNCHANGED <<server, localVars, read, clientVars, out>>

(* accept fails, as it must if no descriptor is left, or epoll_ctl does:   *)
(* ERROR_CHECK ends the server (lines 75 and 96).                          *)
AcceptFails ==
  /\ server = "dispatch" /\ Listen \in events
  /\ server' = "exited"
  /\ UNCHANGED <<events, localVars, read, conn, edge, clientVars, out>>

(* The call of recvHttpRequest. *)
RecvHttpRequest(c) ==
  /\ server = "dispatch" /\ c \in events
  /\ events' = events \ {c} /\ curFd' = c
  /\ server' = "recv"
  /\ UNCHANGED <<buf, total, todo, read, conn, edge, clientVars, out>>

(* Mutant: buf and total are static and keep what an event left in them. *)
ReturnStatic ==
  /\ server' = "dispatch" /\ curFd' = NoClient
  /\ UNCHANGED <<buf, total>>
(* Its return: buf and total are gone, the next call begins with none. *)
Return ==
  /\ server' = "dispatch" /\ curFd' = NoClient
  /\ buf' = <<>> /\ total' = 0

-----------------------------------------------------------------------------
(* The name in a request: decodeMsg(path, path) overwrites the buffer it   *)
(* reads.  A buffer ends with a zero; the program sees what is before the  *)
(* first one.                                                              *)

Percent == 37
Root == <<47>>       (* "/"  *)
HereDir == <<46, 47>> (* "./" *)

isxdigit(ch) == ch \in 48..57 \cup 65..70 \cup 97..102

(* Mutant: only the digits 0 to 9 are known. *)
hexitDecimal(ch) == IF ch \in 48..57 THEN ch - 48 ELSE 0
(* The value of a hexadecimal digit. *)
hexit(ch) ==
  CASE ch \in 48..57 -> ch - 48
    [] ch \in 97..102 -> ch - 97 + 10
    [] ch \in 65..70 -> ch - 65 + 10
    [] OTHER -> 0

(* A zero ends the test before the buffer ends. *)
AtEscape(b, from) ==
  b[from] = Percent /\ isxdigit(b[from + 1]) /\ isxdigit(b[from + 2])

(* The buffer, and the places that to and from point at. *)
DecodeState == [buf : Seq(0..255), to : Nat, from : Nat]

(* A turn of the loop, or the zero behind the result (line 406), which is  *)
(* put there again if this turn is tried again.                            *)
DecodeTurn[x \in DecodeState] ==
  LET b == x.buf  from == x.from IN
  IF b[from] = 0 THEN [x EXCEPT !.buf = [b EXCEPT ![x.to] = 0]]
  ELSE IF AtEscape(b, from)
       THEN [buf |-> [b EXCEPT ![x.to] = 16 * hexit(b[from + 1]) + hexit(b[from + 2])],
             to |-> x.to + 1, from |-> from + 3]
       ELSE [buf |-> [b EXCEPT ![x.to] = b[from]], to |-> x.to + 1, from |-> from + 1]

(* The buffer and the pointers before the loop and after each turn.  A     *)
(* turn reads a character or more.                                         *)
DecodeLoop(path) ==
  LET at[i \in 0..Len(path) + 1] ==
        IF i = 0 THEN [buf |-> Append(path, 0), to |-> 1, from |-> 1]
        ELSE DecodeTurn[at[i - 1]]
  IN at

decodeMsg(path) == DecodeLoop(path)[Len(path) + 1].buf

CString(b) == SubSeq(b, 1, Min({i \in 1..Len(b) : b[i] = 0} \cup {Len(b) + 1}) - 1)

(* The name given to stat: "./" for "/", else what follows the slash. *)
FileName(path) ==
  LET b == decodeMsg(path) IN IF CString(b) = Root THEN HereDir ELSE CString(Tail(b))

stat(name) == IF name \in DOMAIN Disk THEN Disk[name] ELSE "missing"

-----------------------------------------------------------------------------
(* parseRequestLine: what a request makes the server do, call by call.     *)

SendOp(cells) == [op |-> "send", cells |-> cells]
SendCheckOp(cells) == [op |-> "sendCheck", cells |-> cells]
ExitOp == [op |-> "exit", cells |-> <<>>]
FreeOp == [op |-> "free", cells |-> <<>>]

SendHeader(r, status) == <<SendOp(<< <<r, "status", status>> >>)>>

(* sendFile, for a file of FileLen units read in chunks; nothing is sent   *)
(* of one that cannot be opened.                                           *)
SendFile(r, what, opens) ==
  [k \in 1..(IF opens THEN (FileLen + ChunkSize - 1) \div ChunkSize ELSE 0) |->
     LET from == (k - 1) * ChunkSize IN
     SendOp([i \in 1..Min({ChunkSize, FileLen - from}) |-> <<r, what, from + i>>])]

Rows(r, n) == [i \in 1..n |-> SendCheckOp(<< <<r, "row", i>> >>)]
Tail1(r) == <<SendCheckOp(<< <<r, "tail", 0>> >>)>>

(* sendDir; stat fails for the last entry of a dangling directory.  If     *)
(* scandir fails there are no rows, and nameList is uninitialized.         *)
SendDir(r, kind, opens) ==
  CASE kind = "lockedDir" \/ ~opens -> Tail1(r) \o <<FreeOp>>
    [] kind = "dir" /\ opens -> Rows(r, DirLen) \o Tail1(r)
    [] OTHER -> Rows(r, DirLen - 1) \o <<ExitOp>>

(* After the 404 page the code goes on with an uninitialized st: as for a  *)
(* directory, whose scandir fails, or a file, which cannot be opened.      *)
SendMissing(r, opens) ==
  {SendHeader(r, 404) \o SendFile(r, "page", opens) \o SendHeader(r, 200) \o rest :
     rest \in {SendFile(r, "body", FALSE), SendDir(r, "missing", FALSE)}}

(* What is done for request q, the client's r-th, if a descriptor is left  *)
(* for what it names, or none is.                                          *)
Plans(r, q, opens) ==
  LET kind == stat(FileName(q.path)) IN
  CASE q.method # "GET" -> {<<>>}
    [] q.method = "GET" /\ kind = "missing" -> SendMissing(r, opens)
    [] q.method = "GET" /\ kind \in {"file", "lockedFile"} ->
         {SendHeader(r, 200) \o SendFile(r, "body", opens /\ kind = "file")}
    [] OTHER -> {SendHeader(r, 200) \o SendDir(r, kind, opens)}

(* The line of buf before the first line end. *)
FirstLine(b) ==
  LET ends == {i \in 1..Len(b) : EndsLine(b[i])} IN
  IF ends = {} THEN <<>> ELSE SubSeq(b, 1, Min(ends))

(* Only a line that is whole is a GET. *)
IsRequest(line) == Len(line) = 2 /\ line[1] % 3 = 1 /\ line[2] = line[1] + 1

ParseRequestLine(c, line) ==
  \/ /\ IsRequest(line)
     /\ LET r == Request(line[1]) IN todo' \in Plans(r, script[c][r], CanOpen)
  \/ ~IsRequest(line) /\ todo' = <<>>

-----------------------------------------------------------------------------
(* recvHttpRequest: one action per recv. *)

(* Mutant: the test takes the size of temp. *)
FitsTemp(n) == total + n < RecvMax
(* Whether a piece is copied to buf. *)
Fits(n) == total + n < BufSize

(* Mutant: one recv for each event. *)
ReceivedOnce ==
  LET c == curFd  n == Min({RecvMax, sent[curFd] - read[curFd]}) IN
  /\ server = "recv" /\ read[c] < sent[c]
  /\ read' = [read EXCEPT ![c] = @ + n]
  /\ ParseRequestLine(c, FirstLine([i \in 1..n |-> read[c] + i]))
  /\ server' = "reply"
  /\ UNCHANGED <<events, curFd, buf, total, conn, edge, clientVars, out>>
(* A recv that returns data. *)
Received ==
  LET c == curFd  n == Min({RecvMax, sent[curFd] - read[curFd]}) IN
  /\ server = "recv" /\ read[c] < sent[c]
  /\ read' = [read EXCEPT ![c] = @ + n]
  /\ buf' = IF Fits(n) THEN buf \o [i \in 1..n |-> read[c] + i] ELSE buf
  /\ total' = total + n
  /\ UNCHANGED <<server, events, curFd, todo, conn, edge, clientVars, out>>

(* EAGAIN: the socket is drained; the first line is the request. *)
Drained ==
  /\ server = "recv" /\ read[curFd] = sent[curFd] /\ left[curFd] = "no"
  /\ ParseRequestLine(curFd, FirstLine(buf))
  /\ server' = "reply"
  /\ UNCHANGED <<events, curFd, buf, total, read, conn, edge, clientVars, out>>

(* Mutant: only the end of the stream closes the connection. *)
DisconnectFin ==
  /\ server = "recv" /\ read[curFd] = sent[curFd] /\ left[curFd] # "no"
  /\ conn' = [conn EXCEPT ![curFd] = IF left[curFd] = "fin" THEN "closed" ELSE @]
  /\ Return
  /\ UNCHANGED <<events, todo, read, edge, clientVars, out>>
(* The end of the stream, or an error: whatever was received is dropped. *)
Disconnect ==
  /\ server = "recv" /\ read[curFd] = sent[curFd] /\ left[curFd] # "no"
  /\ conn' = [conn EXCEPT ![curFd] = "closed"]
  /\ Return
  /\ UNCHANGED <<events, todo, read, edge, clientVars, out>>

-----------------------------------------------------------------------------
(* The answer: one action per send.                                        *)

NextOp == todo' = Tail(todo) /\ UNCHANGED server

(* Mutant: sendFile checks the result of send, too. *)
ChecksAll(op) == TRUE
(* Whether ERROR_CHECK follows the call. *)
Checks(op) == op = "sendCheck"

(* The socket takes what fits.  It takes everything once the client has    *)
(* closed; the answer to that is a reset.                                  *)
SendTakes ==
  LET c == curFd  cells == todo[1].cells
      n == IF c \in Slow /\ left[c] = "no" THEN Min({Len(cells), room[c]}) ELSE Len(cells) IN
  /\ server = "reply" /\ todo # <<>> /\ todo[1].op \in {"send", "sendCheck"}
  /\ left[c] # "rst" /\ n > 0
  /\ out' = [out EXCEPT ![c] = @ \o SubSeq(cells, 1, n)]
  /\ room' = [room EXCEPT ![c] = IF c \in Slow /\ left[c] = "no" THEN @ - n ELSE @]
  /\ \E how \in {"fin", "rst"} :
       left' = [left EXCEPT ![c] = IF @ = "fin" THEN how ELSE @]
  /\ NextOp
  /\ UNCHANGED <<events, curFd, buf, total, read, conn, edge, script, sent>>

(* send returns -1: the socket is full, or the connection was reset.  The  *)
(* latter may also raise SIGPIPE.                                          *)
SendFails ==
  LET c == curFd  full == c \in Slow /\ left[c] = "no" /\ room[c] = 0 IN
  /\ server = "reply" /\ todo # <<>> /\ todo[1].op \in {"send", "sendCheck"}
  /\ \/ (full \/ left[c] = "rst") /\ ~Checks(todo[1].op) /\ NextOp
     \/ (full \/ left[c] = "rst") /\ Checks(todo[1].op)
        /\ server' = "exited" /\ UNCHANGED todo
     \/ left[c] = "rst" /\ server' = "killed" /\ UNCHANGED todo
  /\ UNCHANGED <<events, curFd, buf, total, read, conn, edge, clientVars, out>>

(* A failed stat ends the server; free of an uninitialized pointer may. *)
OtherOp ==
  /\ server = "reply" /\ todo # <<>> /\ todo[1].op \in {"exit", "free"}
  /\ \/ todo[1].op = "exit" /\ server' = "exited" /\ UNCHANGED todo
     \/ todo[1].op = "free" /\ server' = "killed" /\ UNCHANGED todo
     \/ todo[1].op = "free" /\ NextOp
  /\ UNCHANGED <<events, curFd, buf, total, read, conn, edge, clientVars, out>>

(* parseRequestLine and recvHttpRequest return; the connection stays. *)
ReplyDone ==
  /\ server = "reply" /\ todo = <<>>
  /\ Return
  /\ UNCHANGED <<events, todo, read, conn, edge, clientVars, out>>

ServerStep ==
  /\ UNCHANGED fdLimit
  /\ \/ EpollWait \/ EndOfBatch \/ AcceptConn \/ AcceptFails \/ Received \/ Drained
     \/ Disconnect \/ SendTakes \/ SendFails \/ OtherOp \/ ReplyDone
     \/ \E c \in Clients : RecvHttpRequest(c)

ClientStep == \E c \in Clients : Connect(c) \/ Send(c) \/ Leave(c) \/ Read(c)

Next == ServerStep \/ ClientStep

(* The server keeps running.  Nothing is assumed of the clients. *)
Fairness == WF_vars(ServerStep)

Spec == Init /\ [][Next]_vars
FairSpec == Spec /\ Fairness
-----------------------------------------------------------------------------
(* Whatever an open connection has to tell is still in epoll's list, in    *)
(* the batch, or being drained.                                            *)
EdgeNotLost ==
  \A c \in Clients : conn[c] = "open" /\ Readable(c) /\ Running =>
    edge[c] \/ c \in events \/ (server = "recv" /\ curFd = c)

BufIsPrefix ==
  /\ Len(buf) < BufSize
  /\ server = "recv" => \A i \in 1..Len(buf) : buf[i] = read[curFd] - total + i

(* However much arrives, and whenever: the variables keep their types, buf *)
(* keeps its terminating zero and holds what came first in this event      *)
(* without a gap, and no edge is lost (recvHttpRequest lines 107-135, with *)
(* EPOLLET at line 93).                                                    *)
ReceivesAll == TypeOK /\ BufIsPrefix /\ EdgeNotLost

(* Every piece of a file follows the one before it. *)
WithoutGap(c) ==
  \A i \in 1..Len(out[c]) : left[c] = "no" /\ out[c][i][2] = "body" /\ out[c][i][3] > 1 =>
    i > 1 /\ out[c][i - 1] = <<out[c][i][1], "body", out[c][i][3] - 1>>

(* A unit is sent to a client at most once, in the order of its requests,  *)
(* and only for a request whose whole line the client has sent, wherever   *)
(* the events cut the stream; a client that reads as fast as it is sent to *)
(* gets a file without a gap, although send's result is not looked at      *)
(* (recvHttpRequest, parseRequestLine, sendFile line 261).                 *)
AnswersRequested ==
  \A c \in Clients :
    /\ \A i, j \in 1..Len(out[c]) :
         /\ LineSent(c, out[c][i][1])
         /\ i < j => out[c][i] # out[c][j] /\ out[c][i][1] <= out[c][j][1]
    /\ c \notin Slow => WithoutGap(c)

(* What a path means: escapes cannot overlap, so every character that is   *)
(* not inside one stands for a byte.                                       *)
IsEscape(s, k) ==
  k \in 1..Len(s) - 2 /\ s[k] = Percent /\ isxdigit(s[k + 1]) /\ isxdigit(s[k + 2])
DigitValue(ch) ==
  CHOOSE d \in 0..15 : ch \in IF d < 10 THEN {48 + d} ELSE {55 + d, 87 + d}
Outside(s) == {k \in 1..Len(s) : ~IsEscape(s, k - 1) /\ ~IsEscape(s, k - 2)}
OutsideBefore(s, k) == {j \in Outside(s) : j < k}
NthOutside(s, n) == CHOOSE k \in Outside(s) : Cardinality(OutsideBefore(s, k)) = n - 1
ByteAt(s, k) ==
  IF IsEscape(s, k) THEN 16 * DigitValue(s[k + 1]) + DigitValue(s[k + 2]) ELSE s[k]
Meaning(s) == [n \in 1..Cardinality(Outside(s)) |-> ByteAt(s, NthOutside(s, n))]
DecodesUrls == \A s \in Urls : CString(decodeMsg(s)) = CString(Meaning(s))

(* The name a path stands for: the slash in front is no part of it. *)
Requested == {q.path : q \in UNION {Range(s) : s \in UNION {Scripts[c] : c \in Clients}}}
NameMeant == [path \in Requested |->
  LET m == Meaning(path) IN IF CString(m) = Root THEN HereDir ELSE CString(Tail(m))]
Meant(q) == stat(NameMeant[q.path])

(* Decoding a path in place gives what its escapes mean, each once, with   *)
(* broken ones left as they are, and what is sent to a client is what the  *)
(* path of its request names: contents of a file, entries of a directory,  *)
(* the 404 page for nothing, no answer to another method (decodeMsg,       *)
(* parseRequestLine lines 191-235).                                        *)
AnswersMeant ==
  /\ DecodesUrls
  /\ \A c \in Clients : \A i \in 1..Len(out[c]) :
       LET what == out[c][i][2]  q == script[c][out[c][i][1]] IN
       /\ q.method = "GET"
       /\ what = "body" => Meant(q) = "file"
       /\ what = "row" => Meant(q) \in {"dir", "dangling"}
       /\ what = "page" \/ (what = "status" /\ out[c][i][3] = 404) => Meant(q) = "missing"

(* The client being answered has asked for something of this kind. *)
Asked(kind) == \E r \in 1..Len(script[curFd]) :
                 LET q == script[curFd][r] IN
                 q.method = "GET" /\ Meant(q) = kind /\ LineSent(curFd, r)

(* One thread serves everybody, so what ends it ends the service.  While   *)
(* nobody is being answered that is only a client that arrives and cannot  *)
(* be accepted or registered.  While somebody is, it is a listing with an  *)
(* entry that stat cannot read, of a directory that cannot be read or for  *)
(* which no descriptor is left, or for a client that does not read, a      *)
(* missing page, or a client that leaves during its answer; requests for   *)
(* files never end the server, locked ones included (lines 75, 96, 222,    *)
(* 279, 287, 297, 304 and 306).  Not modelled: signals sent to the server, *)
(* a lack of memory, and names longer than the buffers they are put in.    *)
ExitExplained ==
  ~Running =>
    IF curFd = NoClient THEN Arrived
    ELSE \/ \E kind \in {"dangling", "lockedDir", "missing"} : Asked(kind)
         \/ Asked("dir") /\ ~CanOpen
         \/ left[curFd] = "rst"
         \/ curFd \in Slow /\ Asked("dir") /\ room[curFd] = 0

Answered(c, unit) == \E i \in 1..Len(out[c]) : out[c][i] = unit

Wants(c) == /\ Len(script[c]) = 1 /\ LineSent(c, 1)
            /\ script[c][1].method = "GET" /\ Meant(script[c][1]) \in {"file", "dir"}
Served(c) == Answered(c, <<1, "body", FileLen>>) \/ Answered(c, <<1, "tail", 0>>)
(* A client that sends a whole request at once, on a connection where      *)
(* nothing else is under way, and reads its answers gets the last unit of  *)
(* what it asked for, unless it leaves, the server is gone or there are so *)
(* many connections that no descriptor is left for a file (epollRun).      *)
(* What it wants it goes on wanting, so this is a leads-to.                *)
PatientServed ==
  \A c \in Patient \ Slow :
    []<>(Wants(c) => Served(c) \/ left[c] # "no" \/ ~Running \/ ~CanOpen)

(* The client has left, the server still has its connection.               *)
Abandoned(c) == conn[c] \in {"backlog", "open"} /\ left[c] # "no"
(* However many clients leave, and whenever: there comes a time when all   *)
(* their connections are closed (disconnect, lines 127-136).  What is      *)
(* closed stays closed, so none is left behind for ever.                   *)
LeaversClosed == []<>(~Running \/ \A c \in Clients : ~Abandoned(c))

(* A comment says that a missing file is answered by the 404 page (line    *)
(* 217): no other status follows for the same request.                     *)
MissingGets404 ==
  \A c \in Clients : \A i \in 1..Len(out[c]) :
    left[c] = "no" /\ out[c][i][2] = "status" /\ Meant(script[c][out[c][i][1]]) = "missing" =>
      out[c][i][3] = 404
=============================================================================

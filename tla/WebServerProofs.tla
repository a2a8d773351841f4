--------------------------- MODULE WebServerProofs ---------------------------
(***************************************************************************)
(* Proofs about the web server, for any clients, requests, disk, buffers,  *)
(* files and directories.  The inductive invariant says what the server    *)
(* keeps of a connection between two events, and how the calls still to be *)
(* made continue what a client was sent.                                   *)
(***************************************************************************)
EXTENDS WebServer, SequenceTheorems, FiniteSetTheorems, WellFoundedInduction, TLAPS

(* What an answer is made of. *)
Parts == {"status", "body", "page", "row", "tail"}
Unit == {u \in Nat \X Parts \X Nat : IsUnit(u)}
Op == [op : Ops, cells : Seq(Unit)]

(* The place of a unit in its answer.  An answer never has both of the     *)
(* parts that share a place.                                               *)
Rank(u) ==
  CASE u[2] = "status" /\ u[3] = 404 -> 0
    [] u[2] = "page" -> u[3]
    [] u[2] = "status" /\ u[3] # 404 -> FileLen + 1
    [] u[2] = "tail" -> FileLen + DirLen + 2
    [] OTHER -> FileLen + 1 + u[3]

Follows(u, v) == u[1] < v[1] \/ (u[1] = v[1] /\ Rank(u) < Rank(v))
InOrder(s) == \A i, j \in 1..Len(s) : i < j => Follows(s[i], s[j])

(* u may come first, or after something else: it is not the rest of a file.*)
Starts(u) == ~(u[2] = "body" /\ u[3] > 1)
Continues(u, v) == u = <<v[1], "body", v[3] - 1>>
GapFree(s) ==
  \A i \in 1..Len(s) : Starts(s[i]) \/ (i > 1 /\ Continues(s[i - 1], s[i]))
(* t may be sent behind s. *)
Joins(s, t) ==
  t # <<>> => Starts(t[1]) \/ (s # <<>> /\ Continues(s[Len(s)], t[1]))

(* What unit u of an answer, and the call a, say of what was found.        *)
CellFits(u, kind) ==
  /\ u[2] = "body" => kind = "file"
  /\ u[2] = "row" => kind \notin {"file", "lockedFile", "missing", "lockedDir"}
  /\ u[2] = "page" \/ (u[2] = "status" /\ u[3] = 404) => kind = "missing"
OpFits(a, kind) ==
  /\ a.op = "sendCheck" => kind \notin {"file", "lockedFile"}
  /\ a.op = "exit" => kind \notin {"file", "lockedFile", "dir", "lockedDir", "missing"}
  /\ a.op = "free" => kind \in {"missing", "lockedDir"}
  /\ a.op \in {"exit", "free"} => a.cells = <<>>

(* The calls t may be made in this order, as part of an answer to request  *)
(* r that found a kind.                                                    *)
Cells(a) == {a.cells[j] : j \in 1..Len(a.cells)}
Chained(s) == \A j \in 2..Len(s) : Starts(s[j]) \/ Continues(s[j - 1], s[j])
CallFits(a, r, kind) ==
  /\ OpFits(a, kind)
  /\ \A u \in Cells(a) : u[1] = r /\ CellFits(u, kind)
  /\ InOrder(a.cells) /\ Chained(a.cells)
Precedes(a, b) == \A u \in Cells(a), v \in Cells(b) : Follows(u, v)
Answer(t, r, kind) ==
  /\ t \in Seq(Op)
  /\ \A i \in 1..Len(t) : CallFits(t[i], r, kind)
  /\ \A i, k \in 1..Len(t) : i < k => Precedes(t[i], t[k])
  /\ \A i \in 2..Len(t) : Joins(t[i - 1].cells, t[i].cells)

-----------------------------------------------------------------------------
(* The inductive invariant. *)

Types ==
  /\ fdLimit \in FdLimits
  /\ server \in {"wait", "dispatch", "recv", "reply", "exited", "killed"}
  /\ events \subseteq Clients \cup {Listen}
  /\ curFd \in Clients \cup {NoClient}
  /\ buf \in Seq(Nat) /\ total \in Nat
  /\ todo \in Seq(Op)
  /\ conn \in [Clients -> {"idle", "backlog", "open", "closed"}]
  /\ edge \in [Clients -> BOOLEAN]
  /\ \A c \in Clients : script[c] \in Scripts[c]
  /\ sent \in [Clients -> Nat] /\ read \in [Clients -> Nat]
  /\ left \in [Clients -> {"no", "fin", "rst"}]
  /\ room \in [Clients -> 0..SndBuf]
  /\ out \in [Clients -> Seq(Unit)]

Phases ==
  /\ server \in {"wait", "dispatch"} => curFd = NoClient /\ buf = <<>> /\ total = 0
  /\ server \in {"recv", "reply"} => curFd \in Clients
  /\ server = "wait" => events = {}
  /\ server \in {"wait", "dispatch", "recv"} => todo = <<>>

Counts == \A c \in Clients : read[c] <= sent[c] /\ sent[c] <= 3 * Len(script[c])

(* buf holds what came first; nothing more is taken once a piece was not.  *)
BufInv ==
  /\ Len(buf) < BufSize
  /\ Len(buf) <= total /\ (total < BufSize => Len(buf) = total)
  /\ server = "recv" => /\ total <= read[curFd]
                        /\ \A i \in 1..Len(buf) : buf[i] = read[curFd] - total + i

(* What is handled was accepted, and the listener is reported for somebody.*)
Handled ==
  /\ \A c \in Clients : c \in events \/ c = curFd => conn[c] \in {"open", "closed"}
  /\ Listen \in events => Arrived

(* What was received before the event that is being handled. *)
Before(c) == IF server = "recv" /\ curFd = c THEN read[c] - total ELSE read[c]

RequestKind(q) == stat(FileName(q.path))
Kind(c, r) == RequestKind(script[c][r])

(* What a thing on the disk is like if a descriptor is left, or none is.   *)
Seen(kind, opens) ==
  CASE opens \/ kind \in {"missing", "lockedFile", "lockedDir"} -> kind
    [] kind = "file" /\ ~opens -> "lockedFile"
    [] OTHER -> "lockedDir"
SeenKind(c, r) == Seen(Kind(c, r), CanOpen)

(* What was sent to a client answers requests that came before the event,  *)
(* in their order, and says what they found.                               *)
Past ==
  \A c \in Clients :
    /\ InOrder(out[c])
    /\ \A i \in 1..Len(out[c]) :
         LET u == out[c][i] IN
         /\ u[1] \in 1..Len(script[c]) /\ 3 * u[1] - 1 <= Before(c)
         /\ script[c][u[1]].method = "GET" /\ CellFits(u, Kind(c, u[1]))

NoGaps == \A c \in Clients : c \notin Slow /\ left[c] = "no" => GapFree(out[c])

(* What is still to be done answers one request, and continues what its    *)
(* client was sent.                                                        *)
Replying(r) ==
  /\ 3 * r - 1 <= read[curFd]
  /\ script[curFd][r].method = "GET"
  /\ Answer(todo, r, SeenKind(curFd, r))
  /\ \A i \in 1..Len(out[curFd]) : \A k \in 1..Len(todo) : \A v \in Cells(todo[k]) :
       Follows(out[curFd][i], v)
  /\ curFd \notin Slow /\ left[curFd] = "no" => Joins(out[curFd], todo[1].cells)
Reply == server = "reply" /\ todo # <<>> => \E r \in 1..Len(script[curFd]) : Replying(r)

(* What ended the server. *)
Found(kinds) ==
  \E r \in 1..Len(script[curFd]) :
    script[curFd][r].method = "GET" /\ Kind(curFd, r) \in kinds /\ LineSent(curFd, r)
Ended ==
  ~Running =>
    IF curFd = NoClient THEN Arrived
    ELSE \/ Found({"dangling", "lockedDir", "missing"}) \/ left[curFd] = "rst"
         \/ Found({"dir"}) /\ ~CanOpen
         \/ curFd \in Slow /\ room[curFd] = 0 /\ Found({"dir"})

Serving == Types /\ Phases /\ Handled /\ Counts /\ BufInv /\ EdgeNotLost
IInv == Serving /\ Past /\ NoGaps /\ Reply /\ Ended

-----------------------------------------------------------------------------
(* The calls of an answer are made of pieces, which take places from a to  *)
(* b and may be sent behind anything.                                      *)

Fresh(t) == t # <<>> => Joins(<<>>, t[1].cells)
Within(t, a, b) ==
  \A i \in 1..Len(t) : \A u \in Cells(t[i]) : a <= Rank(u) /\ Rank(u) <= b
Piece(t, r, kind, a, b) == Answer(t, r, kind) /\ Fresh(t) /\ Within(t, a, b)

LEMMA Sizes ==
  /\ FileLen \in Nat /\ FileLen > 0 /\ ChunkSize \in Nat /\ ChunkSize > 0
  /\ DirLen \in Nat /\ DirLen > 0 /\ RecvMax \in Nat /\ RecvMax > 0
  /\ BufSize \in Nat /\ BufSize > 0 /\ SndBuf \in Nat /\ SndBuf > 0
BY WebServerAssumption

LEMMA RankType == ASSUME NEW u \in Unit PROVE Rank(u) \in Nat
<1>1. u[3] \in Nat
  BY DEF Unit
<1> QED
  BY <1>1, Sizes DEF Rank

LEMMA CellsAreUnits == ASSUME NEW a \in Op PROVE Cells(a) \subseteq Unit
<1>1. a.cells \in Seq(Unit)
  BY DEF Op
<1> QED
  BY <1>1 DEF Cells

LEMMA TwoParts ==
  ASSUME NEW S, NEW s \in Seq(S), NEW t \in Seq(S), NEW m \in Nat, NEW n \in Nat,
         m = Len(s), n = Len(t), NEW w, w = s \o t
  PROVE  /\ w \in Seq(S) /\ Len(w) = m + n
         /\ \A i \in 1..m : w[i] = s[i]
         /\ \A i \in m + 1..m + n : i - m \in 1..n /\ w[i] = t[i - m]
BY ConcatProperties

(* Two pieces make a piece, if the second one takes later places.          *)
LEMMA Concatenation ==
  ASSUME NEW s, NEW t, NEW r \in Nat, NEW kind,
         NEW a \in Nat, NEW b \in Nat, NEW c \in Nat, NEW d \in Nat,
         Piece(s, r, kind, a, b), Piece(t, r, kind, c, d), a <= b, b < c, c <= d
  PROVE  Piece(s \o t, r, kind, a, d)
<1>1. s \in Seq(Op) /\ t \in Seq(Op)
  BY DEF Piece, Answer
<1>m. PICK m \in Nat : m = Len(s)
  BY <1>1
<1>n. PICK n \in Nat : n = Len(t)
  BY <1>1
<1>w. PICK w \in Seq(Op) : w = s \o t
  BY <1>1, ConcatProperties
<1>2. /\ m = Len(s) /\ n = Len(t) /\ w = s \o t /\ Len(w) = m + n
      /\ \A i \in 1..m : w[i] = s[i]
      /\ \A i \in m + 1..m + n : i - m \in 1..n /\ w[i] = t[i - m]
  BY <1>1, <1>m, <1>n, <1>w
<1>3. \A i \in 1..m : /\ s[i] \in Op /\ CallFits(s[i], r, kind)
                      /\ \A u \in Cells(s[i]) : a <= Rank(u) /\ Rank(u) <= b
  BY <1>1, <1>2 DEF Piece, Answer, Within
<1>4. \A i \in 1..n : /\ t[i] \in Op /\ CallFits(t[i], r, kind)
                      /\ \A u \in Cells(t[i]) : c <= Rank(u) /\ Rank(u) <= d
  BY <1>1, <1>2 DEF Piece, Answer, Within
<1>5. \A i \in 1..m + n : CallFits(w[i], r, kind)
  BY <1>2, <1>3, <1>4
<1>6. ASSUME NEW i \in 1..m, NEW k \in 1..n PROVE Precedes(s[i], t[k])
  <2>1. ASSUME NEW u \in Cells(s[i]), NEW v \in Cells(t[k]) PROVE Follows(u, v)
    <3>1. u \in Unit /\ v \in Unit
      BY <1>3, <1>4, CellsAreUnits
    <3>2. Rank(u) \in Nat /\ Rank(v) \in Nat
      BY <3>1, RankType
    <3>3. Rank(u) <= b /\ c <= Rank(v) /\ u[1] = r /\ v[1] = r
      BY <1>3, <1>4 DEF CallFits
    <3> QED
      BY <3>2, <3>3 DEF Follows
  <2> QED
    BY <2>1 DEF Precedes
<1>7. ASSUME NEW i \in 1..m + n, NEW k \in 1..m + n, i < k PROVE Precedes(w[i], w[k])
  <2>1. CASE k <= m
    BY <1>2, <1>7, <2>1 DEF Piece, Answer
  <2>2. CASE i > m
    <3>1. i - m \in 1..n /\ k - m \in 1..n /\ i - m < k - m /\ w[i] = t[i - m] /\ w[k] = t[k - m]
      BY <1>2, <1>7, <2>2
    <3>2. \A x, y \in 1..n : x < y => Precedes(t[x], t[y])
      BY <1>2 DEF Piece, Answer
    <3> QED
      BY <3>1, <3>2
  <2>3. CASE i <= m /\ k > m
    <3>1. i \in 1..m /\ k - m \in 1..n /\ w[i] = s[i] /\ w[k] = t[k - m]
      BY <1>2, <2>3
    <3> QED
      BY <1>6, <3>1
  <2> QED
    BY <2>1, <2>2, <2>3
<1>8. ASSUME NEW i \in 2..m + n PROVE Joins(w[i - 1].cells, w[i].cells)
  <2>1. CASE i <= m
    BY <1>2, <2>1 DEF Piece, Answer
  <2>2. CASE i > m + 1
    <3>1. /\ i - m \in 2..n /\ (i - 1) - m = (i - m) - 1
          /\ w[i] = t[i - m] /\ w[i - 1] = t[(i - m) - 1]
      BY <1>2, <2>2
    <3>2. \A x \in 2..n : Joins(t[x - 1].cells, t[x].cells)
      BY <1>2 DEF Piece, Answer
    <3> QED
      BY <3>1, <3>2
  <2>3. CASE i = m + 1
    <3>1. w[i] = t[1] /\ t # <<>>
      BY <1>2, <2>3
    <3>2. Joins(<<>>, t[1].cells)
      BY <3>1 DEF Piece, Fresh
    <3> QED
      BY <3>1, <3>2 DEF Joins
  <2> QED
    BY <2>1, <2>2, <2>3
<1>9. Answer(w, r, kind)
  BY <1>2, <1>5, <1>7, <1>8 DEF Answer
<1>10. Fresh(w)
  <2>1. CASE m > 0
    <3>1. w[1] = s[1] /\ s # <<>>
      BY <1>2, <2>1
    <3> QED
      BY <3>1 DEF Piece, Fresh
  <2>2. CASE m = 0
    <3>1. n > 0 => w[1] = t[1] /\ t # <<>>
      BY <1>2, <2>2
    <3>2. w # <<>> => n > 0
      BY <1>2, <2>2
    <3> QED
      BY <3>1, <3>2 DEF Piece, Fresh
  <2> QED
    BY <2>1, <2>2
<1>11. Within(w, a, d)
  <2>1. ASSUME NEW i \in 1..m + n, NEW u \in Cells(w[i]) PROVE a <= Rank(u) /\ Rank(u) <= d
    <3>1. CASE i <= m
      <4>0. i \in 1..m /\ w[i] = s[i]
        BY <1>2, <3>1
      <4>1. s[i] \in Op /\ u \in Cells(s[i]) /\ a <= Rank(u) /\ Rank(u) <= b
        BY <1>3, <4>0
      <4>2. Rank(u) \in Nat
        BY <4>1, CellsAreUnits, RankType
      <4> QED
        BY <4>1, <4>2
    <3>2. CASE i > m
      <4>0. i - m \in 1..n /\ w[i] = t[i - m]
        BY <1>2, <3>2
      <4>1. t[i - m] \in Op /\ u \in Cells(t[i - m]) /\ c <= Rank(u) /\ Rank(u) <= d
        BY <1>4, <4>0
      <4>2. Rank(u) \in Nat
        BY <4>1, CellsAreUnits, RankType
      <4> QED
        BY <4>1, <4>2
    <3> QED
      BY <3>1, <3>2
  <2> QED
    BY <1>2, <2>1 DEF Within
<1> QED
  BY <1>2, <1>9, <1>10, <1>11 DEF Piece

LEMMA NoCall ==
  ASSUME NEW r, NEW kind, NEW a, NEW b PROVE Piece(<<>>, r, kind, a, b)
<1>1. PICK e \in Seq(Op) : e = <<>>
  BY EmptySeq
<1> QED
  BY <1>1 DEF Piece, Answer, Fresh, Within

LEMMA Singleton == ASSUME NEW S, NEW e \in S PROVE <<e>> \in Seq(S)
OBVIOUS

LEMMA OneCall ==
  ASSUME NEW x \in Op, NEW r, NEW kind, NEW a, NEW b,
         CallFits(x, r, kind), Joins(<<>>, x.cells),
         \A u \in Cells(x) : a <= Rank(u) /\ Rank(u) <= b
  PROVE  Piece(<<x>>, r, kind, a, b)
<1>1. PICK t \in Seq(Op) : t = <<x>>
  BY Singleton
<1>2. Len(t) = 1 /\ t[1] = x
  BY <1>1
<1>3. Answer(t, r, kind)
  BY <1>2 DEF Answer
<1>4. Fresh(t) /\ Within(t, a, b)
  BY <1>2 DEF Fresh, Within
<1> QED
  BY <1>1, <1>3, <1>4 DEF Piece

(* A call that sends one unit. *)
LEMMA OneCell ==
  ASSUME NEW u \in Unit, NEW o \in {"send", "sendCheck"}, NEW x, x = [op |-> o, cells |-> <<u>>],
         NEW kind, CellFits(u, kind), Starts(u),
         o = "sendCheck" => kind \notin {"file", "lockedFile"}
  PROVE  Piece(<<x>>, u[1], kind, Rank(u), Rank(u))
<1>1. PICK s \in Seq(Unit) : s = <<u>>
  BY Singleton
<1>2. Len(s) = 1 /\ s[1] = u /\ s # <<>>
  BY <1>1
<1>3. x.op = o /\ x.cells = s
  BY <1>1
<1>4. x \in Op
  BY <1>1 DEF Op, Ops
<1>5. Cells(x) = {u}
  BY <1>2, <1>3 DEF Cells
<1>6. InOrder(s) /\ Chained(s)
  BY <1>2 DEF InOrder, Chained
<1>7. OpFits(x, kind)
  BY <1>3 DEF OpFits
<1>8. CallFits(x, u[1], kind)
  BY <1>3, <1>5, <1>6, <1>7 DEF CallFits
<1>9. Joins(<<>>, x.cells)
  BY <1>2, <1>3 DEF Joins
<1>10. Rank(u) \in Nat
  BY RankType
<1> QED
  BY <1>4, <1>5, <1>8, <1>9, <1>10, OneCall

LEMMA HeaderPiece ==
  ASSUME NEW r \in Nat, NEW kind, NEW status \in {200, 404}, status = 404 => kind = "missing",
         NEW place, place = IF status = 404 THEN 0 ELSE FileLen + 1
  PROVE  Piece(SendHeader(r, status), r, kind, place, place)
<1>s. status \in Nat /\ "status" \in Parts
  BY DEF Parts
<1>0. PICK v \in Nat \X Parts \X Nat : v = <<r, "status", status>>
  BY <1>s
<1>1. PICK u \in Unit : u = <<r, "status", status>>
  BY <1>0 DEF Unit, IsUnit
<1>2. u[1] = r /\ u[2] = "status" /\ u[3] = status
  BY <1>1
<1>3. CellFits(u, kind) /\ Starts(u)
  BY <1>2 DEF CellFits, Starts
<1>4. Rank(u) = place
  BY <1>2 DEF Rank
<1> QED
  BY <1>1, <1>2, <1>3, <1>4, OneCell DEF SendHeader, SendOp

LEMMA TailPiece ==
  ASSUME NEW r \in Nat, NEW kind, kind \notin {"file", "lockedFile"}
  PROVE  Piece(Tail1(r), r, kind, FileLen + DirLen + 2, FileLen + DirLen + 2)
<1>1. PICK u \in Unit : u = <<r, "tail", 0>>
  BY DEF Unit, Parts, IsUnit
<1>2. u[1] = r /\ u[2] = "tail" /\ u[3] = 0
  BY <1>1
<1>3. CellFits(u, kind) /\ Starts(u)
  BY <1>2 DEF CellFits, Starts
<1>4. Rank(u) = FileLen + DirLen + 2
  BY <1>2 DEF Rank
<1> QED
  BY <1>1, <1>2, <1>3, <1>4, OneCell DEF Tail1, SendCheckOp

(* A call that sends nothing. *)
LEMMA LastPiece ==
  ASSUME NEW r, NEW kind, NEW a, NEW b, NEW x \in {ExitOp, FreeOp}, OpFits(x, kind)
  PROVE  Piece(<<x>>, r, kind, a, b)
<1>1. PICK e \in Seq(Unit) : e = <<>>
  BY EmptySeq
<1>2. x.cells = e /\ Len(e) = 0
  BY <1>1 DEF ExitOp, FreeOp
<1>o. PICK o \in Ops : x = [op |-> o, cells |-> e]
  BY <1>1 DEF ExitOp, FreeOp, Ops
<1>x. x \in Op
  BY <1>o DEF Op
<1>3. Cells(x) = {} /\ InOrder(e) /\ Chained(e)
  BY <1>2 DEF Cells, InOrder, Chained
<1>4. CallFits(x, r, kind) /\ Joins(<<>>, x.cells)
  BY <1>1, <1>2, <1>3 DEF CallFits, Joins
<1> QED
  BY <1>x, <1>3, <1>4, OneCall

LEMMA CellsOfOne ==
  ASSUME NEW x, NEW u, NEW s \in Seq(Unit), x.cells = s, Len(s) = 1, s[1] = u
  PROVE  Cells(x) = {u}
<1>1. {s[j] : j \in 1..Len(s)} = {u}
  OBVIOUS
<1> QED
  BY <1>1 DEF Cells

(* The rows of a directory. *)
LEMMA RowsPiece ==
  ASSUME NEW r \in Nat, NEW n \in 0..DirLen,
         NEW kind, kind \notin {"file", "lockedFile", "missing", "lockedDir"}
  PROVE  Piece(Rows(r, n), r, kind, FileLen + 2, FileLen + 1 + DirLen)
<1> DEFINE Row(i) == <<r, "row", i>>
           Call(i) == SendCheckOp(<<Row(i)>>)
<1>1. ASSUME NEW i \in 1..n
      PROVE  /\ Call(i) \in Op /\ CallFits(Call(i), r, kind) /\ Joins(<<>>, Call(i).cells)
             /\ Cells(Call(i)) = {Row(i)} /\ Row(i)[1] = r /\ Rank(Row(i)) = FileLen + 1 + i
  <2>i. i \in Nat /\ "row" \in Parts
    BY Sizes DEF Parts
  <2>0. PICK v \in Nat \X Parts \X Nat : v = Row(i)
    BY <2>i
  <2>1. PICK u \in Unit : u = Row(i)
    BY <2>0, Sizes DEF Unit, IsUnit
  <2>2. u[1] = r /\ u[2] = "row" /\ u[3] = i
    BY <2>1
  <2>3. CellFits(u, kind) /\ Starts(u)
    BY <2>2 DEF CellFits, Starts
  <2>4. PICK s \in Seq(Unit) : s = <<u>>
    BY Singleton
  <2>5. Len(s) = 1 /\ s[1] = u
    BY <2>4
  <2>6. Call(i) = [op |-> "sendCheck", cells |-> s]
    BY <2>1, <2>4 DEF SendCheckOp
  <2>7. Call(i) \in Op
    BY <2>6 DEF Op, Ops
  <2>o. InOrder(s) /\ Chained(s)
    BY <2>5 DEF InOrder, Chained
  <2>p. Call(i).op = "sendCheck" /\ Call(i).cells = s
    BY <2>6
  <2> HIDE DEF Call
  <2>8. Cells(Call(i)) = {u}
    BY <2>5, <2>p, CellsOfOne
  <2>q. OpFits(Call(i), kind)
    BY <2>p DEF OpFits
  <2>9. CallFits(Call(i), r, kind)
    BY <2>2, <2>3, <2>8, <2>o, <2>p, <2>q DEF CallFits
  <2>10. Joins(<<>>, Call(i).cells)
    BY <2>3, <2>5, <2>6 DEF Joins
  <2>11. Rank(u) = FileLen + 1 + i
    BY <2>2 DEF Rank
  <2> QED
    BY <2>1, <2>2, <2>7, <2>8, <2>9, <2>10, <2>11
<1>2. PICK t \in Seq(Op) : t = Rows(r, n)
  <2>1. n \in Nat /\ \A i \in 1..n : Call(i) \in Op
    BY <1>1, Sizes
  <2>2. [i \in 1..n |-> Call(i)] \in Seq(Op)
    BY <2>1
  <2> QED
    BY <2>2 DEF Rows
<1>3. Len(t) = n /\ \A i \in 1..n : t[i] = Call(i)
  BY <1>2, Sizes DEF Rows
<1>4. ASSUME NEW i \in 1..n, NEW k \in 1..n, i < k PROVE Precedes(t[i], t[k])
  <2>0. Rank(Row(i)) = FileLen + 1 + i /\ Rank(Row(k)) = FileLen + 1 + k
    BY <1>1
  <2>1. Rank(Row(i)) < Rank(Row(k))
    BY <1>4, <2>0, Sizes
  <2>2. Row(i)[1] = Row(k)[1]
    BY <1>1
  <2>3. Cells(t[i]) = {Row(i)} /\ Cells(t[k]) = {Row(k)}
    BY <1>1, <1>3
  <2> QED
    BY <2>1, <2>2, <2>3 DEF Precedes, Follows
<1>5. ASSUME NEW i \in 1..n PROVE Joins(<<>>, t[i].cells) /\ CallFits(t[i], r, kind)
  BY <1>1, <1>3
<1>6. ASSUME NEW i \in 2..n PROVE Joins(t[i - 1].cells, t[i].cells)
  <2>1. i \in 1..n
    BY <1>6, Sizes
  <2> QED
    BY <1>5, <2>1 DEF Joins
<1>7. Answer(t, r, kind)
  BY <1>2, <1>3, <1>4, <1>5, <1>6 DEF Answer
<1>8. Fresh(t)
  <2>1. t # <<>> => 1 \in 1..n
    BY <1>3, Sizes
  <2> QED
    BY <1>5, <2>1 DEF Fresh
<1>9. ASSUME NEW i \in 1..n, NEW u \in Cells(t[i])
      PROVE  FileLen + 2 <= Rank(u) /\ Rank(u) <= FileLen + 1 + DirLen
  <2>1. Cells(t[i]) = {Row(i)} /\ Rank(Row(i)) = FileLen + 1 + i
    BY <1>1, <1>3
  <2>2. Rank(u) = FileLen + 1 + i
    BY <1>9, <2>1
  <2> QED
    BY <2>2, Sizes
<1>10. Within(t, FileLen + 2, FileLen + 1 + DirLen)
  BY <1>3, <1>9 DEF Within
<1> QED
  BY <1>2, <1>7, <1>8, <1>10 DEF Piece

-----------------------------------------------------------------------------
(* A file, in chunks. *)

LEMMA LeastOfTwo ==
  ASSUME NEW a \in Int, NEW b \in Int
  PROVE  Min({a, b}) = IF a <= b THEN a ELSE b
<1>1. \E x \in {a, b} : \A y \in {a, b} : x <= y
  OBVIOUS
<1>2. Min({a, b}) \in {a, b} /\ \A y \in {a, b} : Min({a, b}) <= y
  BY <1>1 DEF Min
<1> QED
  BY <1>2

Base(k) == (k - 1) * ChunkSize
Length(k) == Min({ChunkSize, FileLen - Base(k)})
Chunks == (FileLen + ChunkSize - 1) \div ChunkSize

LEMMA Product ==
  ASSUME NEW a \in Nat, NEW b \in Nat, NEW c \in Nat, a <= b
  PROVE  a * c \in Nat /\ a * c <= b * c
<1>1. PICK d \in Nat : b = a + d
  <2>1. b - a \in Nat /\ b = a + (b - a)
    OBVIOUS
  <2> QED
    BY <2>1
<1>2. (a + d) * c = a * c + d * c /\ a * c \in Nat /\ d * c \in Nat
  OBVIOUS
<1> QED
  BY <1>1, <1>2

(* A chunk has some of the file, and all but the last one have a full      *)
(* buffer.                                                                 *)
LEMMA ChunkBounds ==
  /\ Chunks \in Nat
  /\ \A k \in 1..Chunks :
       /\ Base(k) \in Nat /\ Length(k) \in Nat /\ Length(k) > 0 /\ Length(k) <= ChunkSize
       /\ Base(k) + Length(k) <= FileLen
       /\ k < Chunks => Length(k) = ChunkSize
       /\ Base(k + 1) = Base(k) + ChunkSize
       /\ \A l \in 1..Chunks : k < l => Base(k) + ChunkSize <= Base(l)
<1> DEFINE F == FileLen
           C == ChunkSize
<1>s. F \in Nat /\ C \in Nat /\ C > 0 /\ F > 0
  BY Sizes
<1> HIDE DEF F, C
<1>1. PICK n \in Nat : n = (F + C - 1) \div C /\ n * C <= F + C - 1
  BY <1>s
<1>2. Chunks = n
  BY <1>1 DEF Chunks, F, C
<1>3. ASSUME NEW k \in 1..n
      PROVE  /\ Base(k) \in Nat /\ Base(k) < F /\ Base(k + 1) = Base(k) + C
             /\ (k < n => Base(k) + C < F)
             /\ \A l \in 1..n : k < l => Base(k) + C <= Base(l)
  <2>1. PICK j \in Nat : j = k - 1
    BY <1>3
  <2>2. Base(k) = j * C /\ (j + 1) * C = j * C + C /\ Base(k + 1) = (j + 1) * C
    BY <2>1, <1>s DEF Base, C
  <2>3. j * C \in Nat
    BY <1>s, Product
  <2>4. (j + 1) * C <= n * C /\ n * C \in Nat
    BY <1>3, <2>1, <1>s, Product
  <2>5. Base(k) < F
    BY <1>1, <1>s, <2>2, <2>3, <2>4
  <2>6. ASSUME k < n PROVE Base(k) + C < F
    <3>1. (j + 1 + 1) * C <= n * C
      BY <1>3, <2>1, <2>6, <1>s, Product
    <3>2. (j + 1 + 1) * C = j * C + C + C
      BY <1>s
    <3> QED
      BY <1>1, <1>s, <2>2, <2>3, <2>4, <3>1, <3>2
  <2>7. ASSUME NEW l \in 1..n, k < l PROVE Base(k) + C <= Base(l)
    <3>1. PICK i \in Nat : i = l - 1
      BY <2>7
    <3>2. Base(l) = i * C
      BY <3>1 DEF Base, C
    <3>3. j + 1 \in Nat /\ j + 1 <= i
      BY <2>1, <2>7, <3>1
    <3>4. (j + 1) * C <= i * C
      BY <3>3, <1>s, Product
    <3> QED
      BY <2>2, <3>2, <3>4
  <2> QED
    BY <2>2, <2>3, <2>5, <2>6, <2>7
<1>4. ASSUME NEW k \in 1..n
      PROVE  Length(k) = IF C <= F - Base(k) THEN C ELSE F - Base(k)
  BY <1>3, <1>s, LeastOfTwo DEF Length, F, C
<1>5. ASSUME NEW k \in 1..n
      PROVE  /\ Length(k) \in Nat /\ Length(k) > 0 /\ Length(k) <= C
             /\ Base(k) + Length(k) <= F /\ (k < n => Length(k) = C)
  BY <1>3, <1>4, <1>s
<1> QED
  BY <1>2, <1>3, <1>5 DEF F, C

(* What sendFile sends is the whole file, without a gap.                   *)
LEMMA FilePiece ==
  ASSUME NEW r \in Nat, NEW kind, NEW what \in {"body", "page"},
         what = "body" => kind = "file", what = "page" => kind = "missing",
         NEW place, place = IF what = "page" THEN 0 ELSE FileLen + 1
  PROVE  Piece(SendFile(r, what, TRUE), r, kind, place + 1, place + FileLen)
<1> DEFINE Cell(x) == <<r, what, x>>
           Data(k) == [i \in 1..Length(k) |-> Cell(Base(k) + i)]
           Call(k) == SendOp(Data(k))
<1>s. FileLen \in Nat /\ ChunkSize \in Nat /\ place \in Nat /\ what \in Parts
  BY Sizes DEF Parts
<1>1. ASSUME NEW x \in 1..FileLen
      PROVE  /\ Cell(x) \in Unit /\ Cell(x)[1] = r /\ CellFits(Cell(x), kind)
             /\ Rank(Cell(x)) = place + x
             /\ Starts(Cell(x)) \/ (x > 1 /\ Continues(Cell(x - 1), Cell(x)))
             /\ x = 1 => Starts(Cell(x))
  <2>i. x \in Nat
    BY <1>s
  <2>0. PICK v \in Nat \X Parts \X Nat : v = Cell(x)
    BY <1>s, <2>i
  <2>1. PICK u \in Unit : u = Cell(x)
    BY <2>0, <1>s DEF Unit, IsUnit
  <2>2. u[1] = r /\ u[2] = what /\ u[3] = x
    BY <2>1
  <2>3. CellFits(u, kind)
    BY <2>2 DEF CellFits
  <2>4. Rank(u) = place + x
    BY <2>2, <1>s DEF Rank
  <2>5. x = 1 => Starts(u)
    BY <2>2 DEF Starts
  <2>6. what = "page" => Starts(u)
    BY <2>2 DEF Starts
  <2>7. what = "body" => Continues(Cell(x - 1), u)
    BY <2>2 DEF Continues
  <2>8. x = 1 \/ x > 1
    BY <2>i
  <2> QED
    BY <2>1, <2>2, <2>3, <2>4, <2>5, <2>6, <2>7, <2>8
<1> HIDE DEF Cell
<1>2. ASSUME NEW k \in 1..Chunks, NEW i \in 1..Length(k) PROVE Base(k) + i \in 1..FileLen
  BY <1>s, ChunkBounds
<1>3. ASSUME NEW k \in 1..Chunks
      PROVE  /\ Data(k) \in Seq(Unit) /\ Len(Data(k)) = Length(k)
             /\ \A i \in 1..Length(k) : Data(k)[i] = Cell(Base(k) + i)
  <2>1. Length(k) \in Nat /\ \A i \in 1..Length(k) : Cell(Base(k) + i) \in Unit
    BY <1>1, <1>2, ChunkBounds
  <2> QED
    BY <2>1
<1> HIDE DEF Data
<1>4. ASSUME NEW k \in 1..Chunks
      PROVE  Call(k) \in Op /\ Call(k).op = "send" /\ Call(k).cells = Data(k)
  BY <1>3 DEF SendOp, Op, Ops
<1> HIDE DEF Call
<1>5. ASSUME NEW k \in 1..Chunks, NEW u \in Cells(Call(k))
      PROVE  \E i \in 1..Length(k) : u = Cell(Base(k) + i)
  BY <1>3, <1>4, <1>5 DEF Cells
<1>6. ASSUME NEW k \in 1..Chunks PROVE CallFits(Call(k), r, kind)
  <2>1. OpFits(Call(k), kind)
    BY <1>4 DEF OpFits
  <2>2. \A u \in Cells(Call(k)) : u[1] = r /\ CellFits(u, kind)
    BY <1>1, <1>2, <1>5
  <2>p. PICK n \in Nat : n = Length(k) /\ Len(Data(k)) = n
    BY <1>3, ChunkBounds
  <2>3. ASSUME NEW i \in 1..n, NEW j \in 1..n, i < j PROVE Follows(Data(k)[i], Data(k)[j])
    <3>1. PICK x \in 1..FileLen : x = Base(k) + i
      BY <1>2, <2>p
    <3>2. PICK y \in 1..FileLen : y = Base(k) + j
      BY <1>2, <2>p
    <3>3. Data(k)[i] = Cell(x) /\ Data(k)[j] = Cell(y)
      BY <1>3, <2>p, <3>1, <3>2
    <3>4. x < y
      BY <2>3, <3>1, <3>2, ChunkBounds
    <3>5. /\ Cell(x)[1] = r /\ Rank(Cell(x)) = place + x
          /\ Cell(y)[1] = r /\ Rank(Cell(y)) = place + y
      BY <1>1
    <3>6. Rank(Cell(x)) < Rank(Cell(y))
      BY <1>s, <3>4, <3>5
    <3> QED
      BY <3>3, <3>5, <3>6 DEF Follows
  <2>4. InOrder(Data(k))
    BY <2>p, <2>3 DEF InOrder
  <2>5. ASSUME NEW i \in 2..n PROVE Starts(Data(k)[i]) \/ Continues(Data(k)[i - 1], Data(k)[i])
    <3>1. i \in 1..n /\ i - 1 \in 1..n
      BY <2>5
    <3>2. PICK x \in 1..FileLen : x = Base(k) + i
      BY <1>2, <2>p, <3>1
    <3>3. x - 1 = Base(k) + (i - 1)
      BY <3>2, ChunkBounds
    <3>4. Data(k)[i] = Cell(x) /\ Data(k)[i - 1] = Cell(x - 1)
      BY <1>3, <2>p, <3>1, <3>2, <3>3
    <3> QED
      BY <1>1, <3>4
  <2>6. Chained(Data(k))
    BY <2>p, <2>5 DEF Chained
  <2> QED
    BY <1>4, <2>1, <2>2, <2>4, <2>6 DEF CallFits
<1>7. ASSUME NEW k \in 1..Chunks, NEW l \in 1..Chunks, k < l PROVE Precedes(Call(k), Call(l))
  <2>1. ASSUME NEW u \in Cells(Call(k)), NEW v \in Cells(Call(l)) PROVE Follows(u, v)
    <3>1. PICK i \in 1..Length(k) : u = Cell(Base(k) + i)
      BY <1>5
    <3>2. PICK j \in 1..Length(l) : v = Cell(Base(l) + j)
      BY <1>5
    <3>3. PICK x \in 1..FileLen : x = Base(k) + i
      BY <1>2
    <3>4. PICK y \in 1..FileLen : y = Base(l) + j
      BY <1>2
    <3>5. /\ Base(k) \in Nat /\ Base(l) \in Nat /\ Base(k) + ChunkSize <= Base(l)
          /\ Length(k) \in Nat /\ Length(l) \in Nat /\ Length(k) <= ChunkSize
      BY <1>7, ChunkBounds
    <3>6. x < y
      BY <1>s, <3>3, <3>4, <3>5
    <3>7. /\ Cell(x)[1] = r /\ Rank(Cell(x)) = place + x
          /\ Cell(y)[1] = r /\ Rank(Cell(y)) = place + y
      BY <1>1
    <3>8. Rank(Cell(x)) < Rank(Cell(y))
      BY <1>s, <3>6, <3>7
    <3> QED
      BY <3>1, <3>2, <3>3, <3>4, <3>7, <3>8 DEF Follows
  <2> QED
    BY <2>1 DEF Precedes
<1>8. ASSUME NEW k \in 2..Chunks PROVE Joins(Call(k - 1).cells, Call(k).cells)
  <2>1. PICK j \in 1..Chunks : j = k - 1 /\ k \in 1..Chunks /\ k = j + 1 /\ j < Chunks
    <3>1. k - 1 \in 1..Chunks /\ k \in 1..Chunks /\ k = (k - 1) + 1 /\ k - 1 < Chunks
      BY <1>8, ChunkBounds
    <3> QED
      BY <3>1
  <2>2. /\ Length(j) = ChunkSize /\ Length(j) > 0 /\ Base(k) = Base(j) + ChunkSize
        /\ Length(k) \in Nat /\ Length(k) > 0 /\ Base(j) \in Nat
    BY <2>1, ChunkBounds
  <2>3. 1 \in 1..Length(k) /\ Length(j) \in 1..Length(j)
    BY <1>s, <2>2
  <2>4. PICK x \in 1..FileLen : x = Base(k) + 1
    BY <1>2, <2>1, <2>3
  <2>5. x - 1 = Base(j) + Length(j)
    BY <1>s, <2>2, <2>4
  <2>6. Data(k)[1] = Cell(x)
    BY <1>3, <2>1, <2>3, <2>4
  <2>7. Data(j)[Length(j)] = Cell(x - 1) /\ Len(Data(j)) = Length(j) /\ Data(j) # <<>>
    BY <1>3, <2>1, <2>2, <2>3, <2>5
  <2>8. Starts(Cell(x)) \/ Continues(Cell(x - 1), Cell(x))
    BY <1>1
  <2>9. Call(k - 1).cells = Data(j) /\ Call(k).cells = Data(k)
    BY <1>4, <2>1
  <2> QED
    BY <2>6, <2>7, <2>8, <2>9 DEF Joins
<1>t. PICK t \in Seq(Op) : t = [k \in 1..Chunks |-> Call(k)]
  <2>1. Chunks \in Nat /\ \A k \in 1..Chunks : Call(k) \in Op
    BY <1>4, ChunkBounds
  <2>2. [k \in 1..Chunks |-> Call(k)] \in Seq(Op)
    BY <2>1
  <2> QED
    BY <2>2
<1>u. t = SendFile(r, what, TRUE)
  BY <1>t DEF SendFile, Call, Data, Cell, Chunks, Length, Base
<1>9. Len(t) = Chunks /\ \A k \in 1..Chunks : t[k] = Call(k)
  <2>1. PICK n \in Nat : n = Chunks
    BY ChunkBounds
  <2>2. t = [k \in 1..n |-> Call(k)]
    BY <1>t, <2>1
  <2>3. Len(t) = n /\ \A k \in 1..n : t[k] = Call(k)
    BY <2>2
  <2> QED
    BY <2>1, <2>3
<1>10. Answer(t, r, kind)
  <2>1. PICK n \in Nat : n = Chunks
    BY ChunkBounds
  <2>2. Len(t) = n /\ \A k \in 1..n : t[k] = Call(k)
    BY <1>9, <2>1
  <2>3. \A i \in 1..n : CallFits(t[i], r, kind)
    BY <1>6, <2>1, <2>2
  <2>4. \A i, k \in 1..n : i < k => Precedes(t[i], t[k])
    BY <1>7, <2>1, <2>2
  <2>5. ASSUME NEW i \in 2..n PROVE Joins(t[i - 1].cells, t[i].cells)
    <3>1. i \in 1..n /\ i - 1 \in 1..n
      BY <2>5
    <3>2. t[i] = Call(i) /\ t[i - 1] = Call(i - 1)
      BY <2>2, <3>1
    <3> QED
      BY <1>8, <2>1, <3>2
  <2> QED
    BY <2>2, <2>3, <2>4, <2>5 DEF Answer
<1>11. Fresh(t)
  <2>1. SUFFICES ASSUME t # <<>> PROVE Joins(<<>>, t[1].cells)
    BY DEF Fresh
  <2>2. 1 \in 1..Chunks
    BY <1>9, <2>1, ChunkBounds
  <2>3. Base(1) = 0
    BY <1>s DEF Base
  <2>4. 1 \in 1..Length(1) /\ 0 + 1 = 1
    BY <2>2, ChunkBounds
  <2>5. 1 \in 1..FileLen
    BY <1>2, <2>2, <2>3, <2>4
  <2>6. Data(1)[1] = Cell(1) /\ t[1].cells = Data(1)
    BY <1>3, <1>4, <1>9, <2>2, <2>3, <2>4
  <2> QED
    BY <1>1, <2>5, <2>6 DEF Joins
<1>12. ASSUME NEW k \in 1..Chunks, NEW u \in Cells(t[k])
       PROVE  place + 1 <= Rank(u) /\ Rank(u) <= place + FileLen
  <2>1. PICK i \in 1..Length(k) : u = Cell(Base(k) + i)
    BY <1>5, <1>9, <1>12
  <2>2. PICK x \in 1..FileLen : x = Base(k) + i
    BY <1>2
  <2> QED
    BY <1>1, <1>s, <2>1, <2>2
<1>13. Within(t, place + 1, place + FileLen)
  BY <1>9, <1>12 DEF Within
<1> QED
  BY <1>u, <1>10, <1>11, <1>13 DEF Piece

-----------------------------------------------------------------------------
(* parseRequestLine *)

(* Nothing is sent of a file that cannot be opened. *)
LEMMA NoFile == ASSUME NEW r, NEW what PROVE SendFile(r, what, FALSE) = <<>>
BY DEF SendFile

LEMMA FileOrNone ==
  ASSUME NEW r \in Nat, NEW kind, NEW what \in {"body", "page"}, NEW opens \in BOOLEAN,
         what = "body" /\ opens => kind = "file", what = "page" => kind = "missing",
         NEW place, place = IF what = "page" THEN 0 ELSE FileLen + 1
  PROVE  Piece(SendFile(r, what, opens), r, kind, place + 1, place + FileLen)
<1>1. CASE opens
  <2>1. Piece(SendFile(r, what, TRUE), r, kind, place + 1, place + FileLen)
    BY <1>1, FilePiece
  <2>2. opens = TRUE
    BY <1>1
  <2> QED
    BY <2>1, <2>2
<1>2. CASE ~opens
  <2>1. Piece(<<>>, r, kind, place + 1, place + FileLen)
    BY NoCall
  <2>2. opens = FALSE
    BY <1>2
  <2> QED
    BY <2>1, <2>2, NoFile
<1> QED
  BY <1>1, <1>2

(* A directory that cannot be read. *)
LEMMA ListingFails ==
  ASSUME NEW r \in Nat, NEW kind \in {"missing", "lockedDir"}
  PROVE  \E h \in Nat, l \in Nat :
           /\ h = FileLen + DirLen + 2 /\ h <= l
           /\ Piece(Tail1(r) \o <<FreeOp>>, r, kind, h, l)
<1>1. PICK h \in Nat : h = FileLen + DirLen + 2
  BY Sizes
<1>2. PICK e : e = Tail1(r)
  OBVIOUS
<1>3. PICK f : f = <<FreeOp>>
  OBVIOUS
<1>4. Piece(e, r, kind, h, h)
  BY <1>1, <1>2, TailPiece
<1>5. OpFits(FreeOp, kind)
  BY DEF OpFits, FreeOp
<1>6. Piece(f, r, kind, h + 1, h + 1)
  BY <1>3, <1>5, LastPiece
<1>7. h + 1 \in Nat /\ h < h + 1 /\ h <= h
  OBVIOUS
<1>8. Piece(e \o f, r, kind, h, h + 1)
  BY <1>4, <1>6, <1>7, Concatenation
<1> QED
  BY <1>1, <1>2, <1>3, <1>7, <1>8

LEMMA MissingPiece ==
  ASSUME NEW r \in Nat, NEW opens \in BOOLEAN, NEW t \in SendMissing(r, opens)
  PROVE  \E b \in Nat : Piece(t, r, "missing", 0, b)
<1> DEFINE kind == "missing"
<1>s. FileLen \in Nat /\ FileLen > 0 /\ DirLen \in Nat
  BY Sizes
<1>a. PICK a : a = SendHeader(r, 404)
  OBVIOUS
<1>b. PICK b : b = SendFile(r, "page", opens)
  OBVIOUS
<1>c. PICK c : c = SendHeader(r, 200)
  OBVIOUS
<1>d. PICK d : d \in {<<>>, Tail1(r) \o <<FreeOp>>} /\ t = ((a \o b) \o c) \o d
  <2>1. PICK e : e = SendFile(r, "body", FALSE)
    OBVIOUS
  <2>2. PICK f : f = SendDir(r, "missing", FALSE)
    OBVIOUS
  <2>3. PICK d \in {e, f} : t = ((a \o b) \o c) \o d
    BY <1>a, <1>b, <1>c, <2>1, <2>2, ZenonT(60) DEF SendMissing
  <2>4. e = <<>>
    BY <2>1, NoFile
  <2>5. f = Tail1(r) \o <<FreeOp>>
    BY <2>2 DEF SendDir
  <2> QED
    BY <2>3, <2>4, <2>5
<1>1. Piece(a, r, kind, 0, 0)
  BY <1>a, HeaderPiece
<1>2. PICK z \in Nat : z = 0
  OBVIOUS
<1>3. Piece(b, r, kind, z + 1, z + FileLen)
  BY <1>b, <1>2, FileOrNone
<1>4. PICK ab : ab = a \o b
  OBVIOUS
<1>5. Piece(ab, r, kind, 0, z + FileLen)
  <2>1. z + 1 \in Nat /\ z + FileLen \in Nat /\ 0 < z + 1 /\ z + 1 <= z + FileLen
    BY <1>s
  <2> QED
    BY <1>1, <1>2, <1>3, <1>4, <2>1, Concatenation
<1>6. Piece(c, r, kind, FileLen + 1, FileLen + 1)
  BY <1>c, HeaderPiece
<1>7. PICK abc : abc = ab \o c
  OBVIOUS
<1>8. Piece(abc, r, kind, 0, FileLen + 1)
  <2>1. z + FileLen \in Nat /\ FileLen + 1 \in Nat /\ z + FileLen < FileLen + 1 /\ 0 <= z + FileLen
    BY <1>s, <1>2
  <2> QED
    BY <1>2, <1>5, <1>6, <1>7, <2>1, Concatenation
<1>9. PICK h \in Nat, l \in Nat : h > FileLen + 1 /\ h <= l /\ Piece(d, r, kind, h, l)
  <2>1. CASE d = <<>>
    <3>1. FileLen + 2 \in Nat /\ FileLen + 2 > FileLen + 1
      BY <1>s
    <3> QED
      BY <2>1, <3>1, NoCall
  <2>2. CASE d = Tail1(r) \o <<FreeOp>>
    <3>1. PICK h \in Nat, l \in Nat :
            h = FileLen + DirLen + 2 /\ h <= l /\ Piece(d, r, kind, h, l)
      BY <2>2, ListingFails
    <3>2. h > FileLen + 1
      BY <1>s, <3>1
    <3> QED
      BY <3>1, <3>2
  <2> QED
    BY <1>d, <2>1, <2>2
<1>10. Piece(abc \o d, r, kind, 0, l)
  <2>1. FileLen + 1 \in Nat /\ 0 <= FileLen + 1 /\ FileLen + 1 < h
    BY <1>s, <1>9
  <2> QED
    BY <1>2, <1>8, <1>9, <2>1, Concatenation
<1> QED
  BY <1>d, <1>4, <1>7, <1>9, <1>10

(* What follows the header of a file or of a directory. *)
LEMMA FoundPiece ==
  ASSUME NEW r \in Nat, NEW kind, kind # "missing", NEW opens \in BOOLEAN,
         NEW t, t = IF kind \in {"file", "lockedFile"}
                    THEN SendFile(r, "body", opens /\ kind = "file") ELSE SendDir(r, kind, opens)
  PROVE  \E b \in Nat : FileLen + 2 <= b /\ Piece(t, r, Seen(kind, opens), FileLen + 2, b)
<1>s. FileLen \in Nat /\ FileLen > 0 /\ DirLen \in Nat /\ DirLen > 0
  BY Sizes
<1>1. CASE kind \in {"file", "lockedFile"}
  <2>1. PICK z \in Nat : z = FileLen + 1
    BY <1>s
  <2>2. PICK o \in BOOLEAN : o = (opens /\ kind = "file")
    OBVIOUS
  <2>3. o => Seen(kind, opens) = "file"
    BY <2>2 DEF Seen
  <2>4. Piece(SendFile(r, "body", o), r, Seen(kind, opens), z + 1, z + FileLen)
    BY <2>1, <2>3, FileOrNone
  <2>5. t = SendFile(r, "body", o)
    BY <1>1, <2>2
  <2>6. z + 1 = FileLen + 2 /\ z + FileLen \in Nat /\ FileLen + 2 <= z + FileLen
    BY <1>s, <2>1
  <2> QED
    BY <2>4, <2>5, <2>6
<1>2. CASE kind \notin {"file", "lockedFile"} /\ (kind = "lockedDir" \/ ~opens)
  <2>1. Seen(kind, opens) = "lockedDir"
    BY <1>2 DEF Seen
  <2>2. t = Tail1(r) \o <<FreeOp>>
    BY <1>2 DEF SendDir
  <2>3. PICK h \in Nat, l \in Nat : h = FileLen + DirLen + 2 /\ h <= l
                                  /\ Piece(t, r, "lockedDir", h, l)
    BY <2>2, ListingFails
  <2>4. FileLen + 2 \in Nat /\ FileLen + 2 < h /\ FileLen + 2 <= FileLen + 2
    BY <1>s, <2>3
  <2>5. Piece(<<>> \o t, r, "lockedDir", FileLen + 2, l)
    <3>1. PICK e : e = <<>>
      OBVIOUS
    <3>2. Piece(e, r, "lockedDir", FileLen + 2, FileLen + 2)
      BY <3>1, NoCall
    <3> QED
      BY <2>3, <2>4, <3>1, <3>2, Concatenation
  <2>6. <<>> \o t = t
    BY <2>3, ConcatEmptySeq DEF Piece, Answer
  <2> QED
    BY <2>1, <2>3, <2>4, <2>5, <2>6
<1>3. CASE kind \notin {"file", "lockedFile", "lockedDir"} /\ opens
  <2>0. Seen(kind, opens) = kind
    BY <1>3 DEF Seen
  <2>1. PICK lo \in Nat : lo = FileLen + 2
    BY <1>s
  <2>2. PICK hi \in Nat : hi = FileLen + 1 + DirLen
    BY <1>s
  <2>3. PICK top \in Nat : top = FileLen + DirLen + 2
    BY <1>s
  <2>4. PICK n \in 0..DirLen : n = IF kind = "dir" THEN DirLen ELSE DirLen - 1
    BY <1>s
  <2>5. PICK e : e = Rows(r, n)
    OBVIOUS
  <2>6. Piece(e, r, kind, lo, hi)
    BY <1>3, <2>1, <2>2, <2>5, RowsPiece
  <2>7. PICK f : f = IF kind = "dir" THEN Tail1(r) ELSE <<ExitOp>>
    OBVIOUS
  <2>8. Piece(f, r, kind, top, top)
    <3>1. CASE kind = "dir"
      BY <1>3, <2>3, <2>7, <3>1, TailPiece
    <3>2. CASE kind # "dir"
      <4>1. OpFits(ExitOp, kind)
        BY <1>3, <3>2 DEF OpFits, ExitOp
      <4> QED
        BY <2>7, <3>2, <4>1, LastPiece
    <3> QED
      BY <3>1, <3>2
  <2>9. lo <= hi /\ hi < top /\ top <= top
    BY <1>s, <2>1, <2>2, <2>3
  <2>10. Piece(e \o f, r, kind, lo, top)
    BY <2>6, <2>8, <2>9, Concatenation
  <2>11. t = e \o f
    BY <1>3, <2>4, <2>5, <2>7 DEF SendDir
  <2>12. FileLen + 2 <= top
    BY <1>s, <2>3
  <2>13. Piece(t, r, kind, FileLen + 2, top)
    BY <2>1, <2>10, <2>11
  <2> QED
    BY <2>0, <2>12, <2>13
<1> QED
  BY <1>1, <1>2, <1>3

(* What a request makes the server do is an answer to it.                  *)
LEMMA PlansAreAnswers ==
  ASSUME NEW r \in Nat, NEW q, NEW opens \in BOOLEAN, NEW t \in Plans(r, q, opens),
         NEW kind, kind = stat(FileName(q.path)), t # <<>>
  PROVE  q.method = "GET" /\ Answer(t, r, Seen(kind, opens)) /\ Fresh(t)
<1>1. q.method = "GET"
  BY DEF Plans
<1>2. CASE kind = "missing"
  <2>1. t \in SendMissing(r, opens)
    BY <1>1, <1>2 DEF Plans
  <2>2. Seen(kind, opens) = "missing"
    BY <1>2 DEF Seen
  <2> QED
    BY <1>1, <2>1, <2>2, MissingPiece DEF Piece
<1>3. CASE kind # "missing"
  <2>s. FileLen + 1 \in Nat /\ FileLen + 2 \in Nat /\ FileLen + 1 < FileLen + 2
    BY Sizes
  <2>1. PICK d : d = IF kind \in {"file", "lockedFile"}
                     THEN SendFile(r, "body", opens /\ kind = "file")
                     ELSE SendDir(r, kind, opens)
    OBVIOUS
  <2>2. PICK h : h = SendHeader(r, 200)
    OBVIOUS
  <2>3. t = h \o d
    BY <1>1, <1>3, <2>1, <2>2 DEF Plans
  <2>4. PICK b \in Nat : FileLen + 2 <= b /\ Piece(d, r, Seen(kind, opens), FileLen + 2, b)
    BY <1>3, <2>1, FoundPiece
  <2>5. Piece(h, r, Seen(kind, opens), FileLen + 1, FileLen + 1)
    BY <2>2, HeaderPiece
  <2>6. Piece(h \o d, r, Seen(kind, opens), FileLen + 1, b)
    BY <2>s, <2>4, <2>5, Concatenation
  <2> QED
    BY <1>1, <2>3, <2>6 DEF Piece
<1> QED
  BY <1>2, <1>3

(* A set of numbers that is not empty has a least element. *)
LEMMA LeastOf ==
  ASSUME NEW S \in SUBSET Nat, S # {}
  PROVE  \E x \in S : \A y \in S : x <= y
<1>1. PICK x \in S : \A y \in S : ~(<<y, x>> \in OpToRel(<, Nat))
  BY NatLessThanWellFounded, WFMin
<1>2. OpToRel(<, Nat) = {p \in Nat \X Nat : p[1] < p[2]}
  BY DEF OpToRel
<1>3. ASSUME NEW y \in S PROVE x <= y
  <2>1. ~(y < x)
    BY <1>1, <1>2
  <2> QED
    BY <2>1
<1> QED
  BY <1>3

LEMMA LeastElement ==
  ASSUME NEW S \in SUBSET Nat, S # {}
  PROVE  Min(S) \in S
BY LeastOf DEF Min

(* The request that a buffer begins with, if it holds what follows the     *)
(* first o cells.                                                          *)
LEMMA ParsedRequest ==
  ASSUME NEW b \in Seq(Nat), NEW o \in Nat, \A i \in 1..Len(b) : b[i] = o + i,
         IsRequest(FirstLine(b)), NEW r, r = Request(FirstLine(b)[1])
  PROVE  r \in Nat /\ r > 0 /\ 3 * r - 1 = o + 2 /\ 2 <= Len(b)
<1> DEFINE ends == {i \in 1..Len(b) : EndsLine(b[i])}
<1>1. PICK n \in Nat : n = Len(b)
  OBVIOUS
<1>2. CASE ends = {}
  <2>1. FirstLine(b) = <<>>
    BY <1>2 DEF FirstLine
  <2>2. Len(<<>>) = 0
    OBVIOUS
  <2> QED
    BY <2>1, <2>2 DEF IsRequest
<1>3. CASE ends # {}
  <2>1. PICK m \in ends : m = Min(ends)
    <3>1. ends \in SUBSET Nat
      BY <1>1
    <3> QED
      BY <1>3, <3>1, LeastElement
  <2>2. m \in 1..n
    BY <1>1, <2>1
  <2>3. FirstLine(b) = SubSeq(b, 1, m)
    BY <1>3, <2>1 DEF FirstLine
  <2>4. Len(SubSeq(b, 1, m)) = m /\ SubSeq(b, 1, m)[1] = b[1]
    BY <1>1, <2>2
  <2>5. m = 2 /\ b[1] % 3 = 1
    BY <2>2, <2>3, <2>4 DEF IsRequest
  <2>6. b[1] = o + 1
    BY <1>1, <2>2
  <2>7. r = ((o + 1) + 2) \div 3 /\ (o + 1) % 3 = 1
    <3>1. FirstLine(b)[1] = o + 1
      BY <2>3, <2>4, <2>6
    <3>2. r = ((o + 1) + 2) \div 3
      BY <3>1 DEF Request
    <3> QED
      BY <2>5, <2>6, <3>2
  <2> QED
    BY SMTT(30), <1>1, <2>2, <2>5, <2>7
<1> QED
  BY <1>2, <1>3

(* What recvHttpRequest hands to parseRequestLine is a request that began  *)
(* to arrive in this event, or nothing is done.                            *)
LEMMA DrainedEffect ==
  ASSUME Types, Phases, Counts, BufInv, Drained
  PROVE  /\ todo' \in Seq(Op)
         /\ todo' # <<>> =>
              \E r \in 1..Len(script[curFd]) :
                /\ 3 * r - 1 <= read[curFd] /\ read[curFd] - total < 3 * r - 1
                /\ script[curFd][r].method = "GET"
                /\ Answer(todo', r, SeenKind(curFd, r)) /\ Fresh(todo')
<1>1. server = "recv" /\ curFd \in Clients /\ ParseRequestLine(curFd, FirstLine(buf))
  BY DEF Drained, Phases
<1>e. <<>> \in Seq(Op)
  BY EmptySeq
<1>2. CASE ~IsRequest(FirstLine(buf)) \/ todo' = <<>>
  BY <1>1, <1>2, <1>e DEF ParseRequestLine
<1>3. CASE IsRequest(FirstLine(buf)) /\ todo' # <<>>
  <2>1. PICK c \in Clients : c = curFd
    BY <1>1
  <2>b. buf \in Seq(Nat)
    BY DEF Types
  <2>2. PICK n \in Nat : n = Len(buf)
    BY <2>b
  <2>3. PICK m \in Nat : m = Len(script[c])
    <3>1. script[c] \in Seq(Requests)
      BY WebServerAssumption DEF Types
    <3> QED
      BY <3>1
  <2>4. PICK g \in Nat, s \in Nat : g = read[c] /\ s = sent[c]
    BY DEF Types
  <2>5. total \in Nat /\ total <= g /\ n <= total /\ g <= s /\ s <= 3 * m
    BY <1>1, <2>1, <2>2, <2>3, <2>4 DEF Types, BufInv, Counts
  <2>6. PICK o \in Nat : o = g - total
    BY <2>5
  <2>7. buf \in Seq(Nat) /\ \A i \in 1..Len(buf) : buf[i] = o + i
    BY <1>1, <2>1, <2>4, <2>6 DEF BufInv, Types
  <2>8. PICK r : r = Request(FirstLine(buf)[1])
    OBVIOUS
  <2>9. r \in Nat /\ r > 0 /\ 3 * r - 1 = o + 2 /\ 2 <= n
    BY <1>3, <2>2, <2>7, <2>8, ParsedRequest
  <2>10. r \in 1..m /\ 3 * r - 1 <= g /\ g - total < 3 * r - 1
    BY <2>5, <2>6, <2>9
  <2>11. todo' \in Plans(r, script[c][r], CanOpen)
    BY <1>1, <1>3, <2>1, <2>8 DEF ParseRequestLine
  <2>o. CanOpen \in BOOLEAN
    BY DEF CanOpen
  <2>12. script[c][r].method = "GET" /\ Answer(todo', r, SeenKind(c, r)) /\ Fresh(todo')
    BY <1>3, <2>9, <2>11, <2>o, PlansAreAnswers DEF SeenKind, Kind, RequestKind
  <2> QED
    BY <2>1, <2>3, <2>4, <2>10, <2>12 DEF Answer
<1> QED
  BY <1>2, <1>3

-----------------------------------------------------------------------------
(* The types. *)

LEMMA InitTypes == Init => Types
<1> SUFFICES ASSUME Init PROVE Types
  OBVIOUS
<1>1. <<>> \in Seq(Op) /\ <<>> \in Seq(Unit) /\ <<>> \in Seq(Nat)
  BY EmptySeq
<1>2. out \in [Clients -> Seq(Unit)]
  BY <1>1 DEF Init
<1>3. room \in [Clients -> 0..SndBuf]
  <2>1. SndBuf \in 0..SndBuf
    BY Sizes
  <2> QED
    BY <2>1 DEF Init
<1>4. \A c \in Clients : script[c] \in Scripts[c]
  BY DEF Init
<1> QED
  BY <1>1, <1>2, <1>3, <1>4 DEF Init, Types

(* The piece that a recv returns. *)
LEMMA PieceReceived ==
  ASSUME NEW c \in Clients, Types, Counts, read[c] < sent[c],
         NEW n, n = Min({RecvMax, sent[c] - read[c]})
  PROVE  /\ n \in Nat /\ n > 0 /\ read[c] + n <= sent[c]
         /\ [i \in 1..n |-> read[c] + i] \in Seq(Nat)
         /\ Len([i \in 1..n |-> read[c] + i]) = n
<1>1. PICK g \in Nat, s \in Nat : g = read[c] /\ s = sent[c]
  BY DEF Types
<1>2. n = IF RecvMax <= s - g THEN RecvMax ELSE s - g
  BY <1>1, LeastOfTwo, Sizes
<1>3. n \in Nat /\ n > 0 /\ g + n <= s
  BY <1>1, <1>2, Sizes
<1>4. PICK d \in Nat : d = n
  BY <1>3
<1>5. [i \in 1..d |-> g + i] \in Seq(Nat)
  OBVIOUS
<1>6. Len([i \in 1..d |-> g + i]) = d
  OBVIOUS
<1> QED
  BY <1>1, <1>3, <1>4, <1>5, <1>6

LEMMA ReceivedTypes ==
  ASSUME Types, Phases, Counts, Received, UNCHANGED fdLimit PROVE Types'
<1>1. PICK c \in Clients : c = curFd
  BY DEF Received, Phases
<1>2. PICK n : n = Min({RecvMax, sent[c] - read[c]})
  OBVIOUS
<1>3. PICK p : p = [i \in 1..n |-> read[c] + i]
  OBVIOUS
<1>4. n \in Nat /\ p \in Seq(Nat)
  BY <1>1, <1>2, <1>3, PieceReceived DEF Received
<1>5. /\ read' = [read EXCEPT ![c] = @ + n]
      /\ buf' = IF Fits(n) THEN buf \o p ELSE buf
      /\ total' = total + n
  BY <1>1, <1>2, <1>3 DEF Received
<1>6. buf \o p \in Seq(Nat)
  BY <1>4, ConcatProperties DEF Types
<1>7. buf' \in Seq(Nat) /\ total' \in Nat
  BY <1>4, <1>5, <1>6 DEF Types
<1>8. read' \in [Clients -> Nat]
  BY <1>4, <1>5 DEF Types
<1> QED
  BY <1>7, <1>8 DEF Received, Types, clientVars

(* What one send hands to the kernel. *)
LEMMA SendEffect ==
  ASSUME Types, Phases, SendTakes
  PROVE  \E c \in Clients, n \in Nat :
           /\ c = curFd /\ todo # <<>> /\ todo[1] \in Op /\ server = "reply"
           /\ todo[1].cells \in Seq(Unit) /\ todo[1].op \in {"send", "sendCheck"}
           /\ n \in 1..Len(todo[1].cells) /\ left[c] # "rst"
           /\ c \notin Slow => n = Len(todo[1].cells)
           /\ c \in Slow /\ left[c] = "no" => n <= room[c]
           /\ out' = [out EXCEPT ![c] = @ \o SubSeq(todo[1].cells, 1, n)]
           /\ room' = [room EXCEPT ![c] = IF c \in Slow /\ left[c] = "no" THEN @ - n ELSE @]
<1>1. PICK c \in Clients : c = curFd
  BY DEF SendTakes, Phases
<1>2. todo # <<>> /\ todo \in Seq(Op)
  BY DEF SendTakes, Types
<1>3. todo[1] \in Op
  BY <1>2
<1>4. PICK s \in Seq(Unit) : s = todo[1].cells
  BY <1>3 DEF Op
<1>5. PICK m \in Nat : m = Len(s)
  BY <1>4
<1>6. PICK k \in Nat : k = room[c]
  BY Sizes DEF Types
<1>7. PICK n : n = IF c \in Slow /\ left[c] = "no" THEN Min({m, k}) ELSE m
  OBVIOUS
<1>8. n \in Nat /\ n <= m /\ (c \in Slow /\ left[c] = "no" => n <= k)
      /\ (c \notin Slow => n = m)
  BY <1>7, LeastOfTwo
<1>9. /\ n > 0 /\ server = "reply" /\ left[c] # "rst" /\ todo[1].op \in {"send", "sendCheck"}
      /\ out' = [out EXCEPT ![c] = @ \o SubSeq(s, 1, n)]
      /\ room' = [room EXCEPT ![c] = IF c \in Slow /\ left[c] = "no" THEN @ - n ELSE @]
  BY <1>1, <1>4, <1>5, <1>6, <1>7 DEF SendTakes
<1>10. n \in 1..m
  BY <1>8, <1>9
<1>11. PICK d \in Nat : d = n
  BY <1>8
<1>12. /\ c = curFd /\ todo # <<>> /\ todo[1] \in Op /\ server = "reply"
       /\ todo[1].cells \in Seq(Unit) /\ todo[1].op \in {"send", "sendCheck"}
       /\ d \in 1..Len(todo[1].cells) /\ left[c] # "rst"
       /\ c \notin Slow => d = Len(todo[1].cells)
       /\ c \in Slow /\ left[c] = "no" => d <= room[c]
  BY <1>1, <1>2, <1>3, <1>4, <1>5, <1>6, <1>8, <1>9, <1>10, <1>11
<1>13. /\ out' = [out EXCEPT ![c] = @ \o SubSeq(todo[1].cells, 1, d)]
       /\ room' = [room EXCEPT ![c] = IF c \in Slow /\ left[c] = "no" THEN @ - d ELSE @]
  BY <1>4, <1>9, <1>11
<1> QED
  BY <1>12, <1>13

LEMMA TailOfTodo ==
  ASSUME NEW t \in Seq(Op), t # <<>>
  PROVE  /\ Tail(t) \in Seq(Op) /\ Len(Tail(t)) = Len(t) - 1
         /\ \A i \in 1..Len(Tail(t)) : i + 1 \in 1..Len(t) /\ Tail(t)[i] = t[i + 1]
OBVIOUS

LEMMA SendTypes ==
  ASSUME Types, Phases, SendTakes, UNCHANGED fdLimit PROVE Types'
<1>1. PICK c \in Clients, n \in Nat :
        /\ todo # <<>> /\ todo[1].cells \in Seq(Unit) /\ n \in 1..Len(todo[1].cells)
        /\ c \in Slow /\ left[c] = "no" => n <= room[c]
        /\ out' = [out EXCEPT ![c] = @ \o SubSeq(todo[1].cells, 1, n)]
        /\ room' = [room EXCEPT ![c] = IF c \in Slow /\ left[c] = "no" THEN @ - n ELSE @]
  BY SendEffect
<1>2. PICK s \in Seq(Unit) : s = todo[1].cells
  BY <1>1
<1>3. PICK p \in Seq(Unit) : p = SubSeq(s, 1, n)
  <2>1. SubSeq(s, 1, n) \in Seq(Unit)
    BY <1>1, <1>2
  <2> QED
    BY <2>1
<1>4. out' = [out EXCEPT ![c] = @ \o p]
  BY <1>1, <1>2, <1>3
<1>5. out[c] \o p \in Seq(Unit)
  BY <1>3, ConcatProperties DEF Types
<1>6. out' \in [Clients -> Seq(Unit)]
  BY <1>4, <1>5 DEF Types
<1>7. room' \in [Clients -> 0..SndBuf]
  <2>1. room[c] \in 0..SndBuf /\ (c \in Slow /\ left[c] = "no" => room[c] - n \in 0..SndBuf)
    <3>1. PICK k \in 0..SndBuf : k = room[c]
      BY DEF Types
    <3>2. n \in Nat /\ (c \in Slow /\ left[c] = "no" => n <= k)
      BY <1>1, <3>1
    <3> QED
      BY <3>1, <3>2, Sizes
  <2> QED
    BY <1>1, <2>1 DEF Types
<1>8. todo' \in Seq(Op)
  BY <1>1, TailOfTodo DEF SendTakes, NextOp, Types
<1>9. left' \in [Clients -> {"no", "fin", "rst"}]
  BY DEF SendTakes, Types
<1>10. server' = server
  BY DEF SendTakes, NextOp
<1> QED
  BY <1>6, <1>7, <1>8, <1>9, <1>10 DEF SendTakes, Types

(* The steps that neither receive nor send. *)
LEMMA OtherTypes ==
  ASSUME Types, Phases,
         UNCHANGED fdLimit,
         \/ EpollWait \/ EndOfBatch \/ AcceptConn \/ AcceptFails \/ Disconnect \/ SendFails
         \/ OtherOp \/ ReplyDone \/ (\E c \in Clients : RecvHttpRequest(c))
         \/ ClientStep
  PROVE  Types'
<1>e. <<>> \in Seq(Nat) /\ <<>> \in Seq(Op)
  BY EmptySeq
<1>1. CASE EpollWait
  BY <1>1 DEF EpollWait, Types, localVars, clientVars
<1>2. CASE EndOfBatch
  BY <1>2 DEF EndOfBatch, Types, localVars, clientVars
<1>3. CASE AcceptConn
  <2>1. PICK c \in Clients : /\ conn' = [conn EXCEPT ![c] = "open"]
                             /\ edge' = [edge EXCEPT ![c] = Readable(c)]
    BY <1>3 DEF AcceptConn
  <2>2. Readable(c) \in BOOLEAN
    BY DEF Readable
  <2> QED
    BY <1>3, <2>1, <2>2 DEF AcceptConn, Types, localVars, clientVars
<1>f. CASE AcceptFails
  BY <1>f DEF AcceptFails, Types, localVars, clientVars
<1>4. CASE Disconnect
  BY <1>4, <1>e DEF Disconnect, Return, Types, clientVars
<1>5. CASE SendFails
  <2>1. todo' \in Seq(Op) /\ server' \in {"reply", "exited", "killed"}
    BY <1>5, TailOfTodo DEF SendFails, NextOp, Types
  <2> QED
    BY <1>5, <2>1 DEF SendFails, Types, clientVars
<1>6. CASE OtherOp
  <2>1. todo' \in Seq(Op) /\ server' \in {"reply", "exited", "killed"}
    BY <1>6, TailOfTodo DEF OtherOp, NextOp, Types
  <2> QED
    BY <1>6, <2>1 DEF OtherOp, Types, clientVars
<1>7. CASE ReplyDone
  BY <1>7, <1>e DEF ReplyDone, Return, Types, clientVars
<1>8. ASSUME NEW c \in Clients, RecvHttpRequest(c) PROVE Types'
  BY <1>8 DEF RecvHttpRequest, Types, clientVars
<1>9. ASSUME NEW c \in Clients, Connect(c) PROVE Types'
  BY <1>9 DEF Connect, Types, serverVars, localVars, clientVars
<1>10. ASSUME NEW c \in Clients, Send(c) PROVE Types'
  <2>1. PICK n \in 1..3 * Len(script[c]) - sent[c] : sent' = [sent EXCEPT ![c] = @ + n]
    BY <1>10 DEF Send
  <2>2. n \in Nat
    <3>1. script[c] \in Seq(Requests)
      BY WebServerAssumption DEF Types
    <3>2. Len(script[c]) \in Nat
      BY <3>1
    <3> QED
      BY <2>1, <3>2 DEF Types
  <2>m. PICK m \in Nat : sent' = [sent EXCEPT ![c] = @ + m]
    BY <2>1, <2>2
  <2>3. sent' \in [Clients -> Nat]
    BY <2>m, SMTT(30) DEF Types
  <2>4. edge' \in [Clients -> BOOLEAN]
    <3>1. (conn[c] = "open") \in BOOLEAN
      OBVIOUS
    <3> QED
      BY <1>10, <3>1 DEF Send, Arrive, Types
  <2> QED
    BY <1>10, <2>3, <2>4 DEF Send, Types, serverVars, localVars
<1>11. ASSUME NEW c \in Clients, Leave(c) PROVE Types'
  <2>1. left' \in [Clients -> {"no", "fin", "rst"}]
    BY <1>11 DEF Leave, Types
  <2>2. edge' \in [Clients -> BOOLEAN]
    <3>1. (conn[c] = "open") \in BOOLEAN
      OBVIOUS
    <3> QED
      BY <1>11, <3>1 DEF Leave, Arrive, Types
  <2> QED
    BY <1>11, <2>1, <2>2 DEF Leave, Types, serverVars, localVars
<1>12. ASSUME NEW c \in Clients, Read(c) PROVE Types'
  <2>1. SndBuf \in 0..SndBuf
    BY Sizes
  <2>2. room' \in [Clients -> 0..SndBuf]
    BY <1>12, <2>1 DEF Read, Types
  <2> QED
    BY <1>12, <2>2 DEF Read, Types, serverVars, localVars
<1> QED
  BY <1>1, <1>2, <1>3, <1>f, <1>4, <1>5, <1>6, <1>7, <1>8, <1>9, <1>10, <1>11, <1>12
     DEF ClientStep

LEMMA NextTypes ==
  ASSUME Types, Phases, Counts, BufInv, [Next]_vars PROVE Types'
<1>l. UNCHANGED fdLimit
  BY DEF Next, ServerStep, ClientStep, Connect, Send, Leave, Read, vars, serverVars
<1>1. CASE Received
  BY <1>1, <1>l, ReceivedTypes
<1>2. CASE Drained
  <2>1. todo' \in Seq(Op)
    BY <1>2, DrainedEffect
  <2> QED
    BY <1>2, <1>l, <2>1 DEF Drained, Types, clientVars
<1>3. CASE SendTakes
  BY <1>3, <1>l, SendTypes
<1>4. CASE UNCHANGED vars
  BY <1>4 DEF vars, serverVars, localVars, clientVars, Types
<1> QED
  BY <1>l, <1>1, <1>2, <1>3, <1>4, OtherTypes DEF Next, ServerStep

-----------------------------------------------------------------------------
(* Where the server is, and what it has received. *)

LEMMA NextPhases ==
  ASSUME Types, Phases, [Next]_vars PROVE Phases'
<1>n. NoClient \notin Clients
  BY WebServerAssumption
<1>1. CASE EpollWait
  BY <1>1 DEF EpollWait, Phases, localVars
<1>2. CASE EndOfBatch
  BY <1>2 DEF EndOfBatch, Phases, localVars
<1>3. CASE AcceptConn
  BY <1>3 DEF AcceptConn, Phases, localVars
<1>f. CASE AcceptFails
  BY <1>f DEF AcceptFails, Phases, localVars
<1>4. CASE Disconnect
  BY <1>4 DEF Disconnect, Return, Phases
<1>5. CASE SendFails
  BY <1>5 DEF SendFails, NextOp, Phases
<1>6. CASE OtherOp
  BY <1>6 DEF OtherOp, NextOp, Phases
<1>7. CASE ReplyDone
  BY <1>7 DEF ReplyDone, Return, Phases
<1>8. ASSUME NEW c \in Clients, RecvHttpRequest(c) PROVE Phases'
  BY <1>8 DEF RecvHttpRequest, Phases
<1>9. CASE Received
  BY <1>9 DEF Received, Phases
<1>10. CASE Drained
  BY <1>10 DEF Drained, Phases
<1>11. CASE SendTakes
  BY <1>11 DEF SendTakes, NextOp, Phases
<1>12. ASSUME NEW c \in Clients, Connect(c) \/ Send(c) \/ Leave(c) \/ Read(c) PROVE Phases'
  BY <1>12 DEF Connect, Send, Leave, Read, serverVars, localVars, Phases
<1>13. CASE UNCHANGED vars
  BY <1>13 DEF vars, serverVars, localVars, Phases
<1> QED
  BY <1>1, <1>2, <1>3, <1>f, <1>4, <1>5, <1>6, <1>7, <1>8, <1>9, <1>10, <1>11, <1>12, <1>13
     DEF Next, ServerStep, ClientStep

(* A connection in the backlog stays there until it is accepted, which     *)
(* happens once for each report of the listener.                           *)
LEMMA NextHandled ==
  ASSUME Types, Phases, Handled, [Next]_vars PROVE Handled'
<1>l. NoClient \notin Clients /\ Listen \notin Clients
  BY WebServerAssumption DEF Listen
<1>1. CASE EpollWait
  <2>1. UNCHANGED <<conn, curFd>> /\ (Listen \in events' => Arrived)
    BY <1>1, <1>l DEF EpollWait, localVars
  <2>2. \A c \in Clients : c \in events' => conn[c] = "open"
    BY <1>1, <1>l DEF EpollWait
  <2> QED
    BY <2>1, <2>2 DEF Handled, Arrived
<1>2. CASE AcceptConn
  <2>1. PICK d \in Clients : conn[d] = "backlog" /\ conn' = [conn EXCEPT ![d] = "open"]
    BY <1>2 DEF AcceptConn
  <2>2. events' = events \ {Listen} /\ curFd' = curFd
    BY <1>2 DEF AcceptConn, localVars
  <2> QED
    BY <2>1, <2>2 DEF Handled, Types
<1>3. ASSUME NEW d \in Clients, RecvHttpRequest(d) PROVE Handled'
  <2>1. events' = events \ {d} /\ curFd' = d /\ d \in events /\ UNCHANGED conn
    BY <1>3 DEF RecvHttpRequest
  <2> QED
    BY <2>1 DEF Handled, Arrived
<1>4. CASE Disconnect
  <2>1. PICK c \in Clients : c = curFd
    BY <1>4 DEF Disconnect, Phases
  <2>2. conn' = [conn EXCEPT ![c] = "closed"] /\ events' = events /\ curFd' = NoClient
    BY <1>4, <2>1 DEF Disconnect, Return
  <2>3. conn[c] # "backlog"
    BY <2>1 DEF Handled
  <2>4. Arrived => Arrived'
    BY <2>2, <2>3 DEF Arrived, Types
  <2> QED
    BY <1>l, <2>2, <2>4 DEF Handled, Types
<1>5. ASSUME NEW c \in Clients, Connect(c) PROVE Handled'
  <2>1. conn[c] = "idle" /\ conn' = [conn EXCEPT ![c] = "backlog"] /\ UNCHANGED <<events, curFd>>
    BY <1>5 DEF Connect, serverVars, localVars
  <2>2. Arrived'
    BY <2>1 DEF Arrived, Types
  <2> QED
    BY <2>1, <2>2 DEF Handled, Types
<1>6. CASE UNCHANGED <<events, conn>> /\ (curFd' = curFd \/ curFd' = NoClient)
  BY <1>l, <1>6 DEF Handled, Arrived
<1>7. \/ EpollWait \/ AcceptConn \/ (\E d \in Clients : RecvHttpRequest(d)) \/ Disconnect
      \/ (\E c \in Clients : Connect(c))
      \/ (UNCHANGED <<events, conn>> /\ (curFd' = curFd \/ curFd' = NoClient))
  BY DEF Next, ServerStep, ClientStep, EndOfBatch, AcceptFails, Received, Drained, SendTakes,
         SendFails, OtherOp, ReplyDone, Return, Send, Leave, Read, vars, serverVars, localVars
<1> QED
  BY <1>1, <1>2, <1>3, <1>4, <1>5, <1>6, <1>7

LEMMA NextCounts ==
  ASSUME Types, Phases, Counts, [Next]_vars PROVE Counts'
<1>1. CASE Received
  <2>1. PICK c \in Clients : c = curFd
    BY <1>1 DEF Received, Phases
  <2>2. PICK n : n = Min({RecvMax, sent[c] - read[c]})
    OBVIOUS
  <2>3. n \in Nat /\ read[c] + n <= sent[c]
    BY <1>1, <2>1, <2>2, PieceReceived DEF Received
  <2>4. read' = [read EXCEPT ![c] = @ + n] /\ UNCHANGED <<sent, script>>
    BY <1>1, <2>1, <2>2 DEF Received, clientVars
  <2> QED
    BY <2>3, <2>4 DEF Counts, Types
<1>2. ASSUME NEW c \in Clients, Send(c) PROVE Counts'
  <2>1. PICK n \in 1..3 * Len(script[c]) - sent[c] : sent' = [sent EXCEPT ![c] = @ + n]
    BY <1>2 DEF Send
  <2>2. PICK m \in Nat : m = Len(script[c])
    <3>1. script[c] \in Seq(Requests)
      BY WebServerAssumption DEF Types
    <3> QED
      BY <3>1
  <2>3. PICK s \in Nat, g \in Nat : s = sent[c] /\ g = read[c]
    BY DEF Types
  <2>4. s + n <= 3 * m /\ g <= s + n /\ n \in Nat
    BY <2>1, <2>2, <2>3 DEF Counts
  <2>5. UNCHANGED <<read, script>> /\ sent' = [sent EXCEPT ![c] = s + n]
    BY <1>2, <2>1, <2>3 DEF Send, serverVars
  <2>6. ASSUME NEW d \in Clients PROVE read'[d] <= sent'[d] /\ sent'[d] <= 3 * Len(script'[d])
    <3>1. CASE d = c
      BY <2>2, <2>3, <2>4, <2>5, <3>1 DEF Types
    <3>2. CASE d # c
      BY <2>5, <3>2 DEF Counts, Types
    <3> QED
      BY <3>1, <3>2
  <2> QED
    BY <2>6 DEF Counts
<1>3. CASE UNCHANGED <<read, sent, script>>
  BY <1>3 DEF Counts
<1>4. \/ Received \/ (\E c \in Clients : Send(c)) \/ UNCHANGED <<read, sent, script>>
  BY DEF Next, ServerStep, ClientStep, EpollWait, EndOfBatch, AcceptConn, AcceptFails,
         Disconnect,
         SendFails, OtherOp, ReplyDone, RecvHttpRequest, Drained, SendTakes, Connect, Leave,
         Read, vars, serverVars, clientVars
<1> QED
  BY <1>1, <1>2, <1>3, <1>4

(* A piece is copied behind the ones before it, and once one was not       *)
(* copied the rest is not either.                                          *)
LEMMA NextBufInv ==
  ASSUME Types, Phases, Counts, BufInv, [Next]_vars PROVE BufInv'
<1>t. buf \in Seq(Nat) /\ total \in Nat
  BY DEF Types
<1>1. CASE Received
  <2>1. PICK c \in Clients : c = curFd
    BY <1>1 DEF Received, Phases
  <2>2. PICK n : n = Min({RecvMax, sent[c] - read[c]})
    OBVIOUS
  <2>3. PICK p : p = [i \in 1..n |-> read[c] + i]
    OBVIOUS
  <2>4. PICK k \in Nat : k = n
    BY <1>1, <2>1, <2>2, PieceReceived DEF Received
  <2>5. p \in Seq(Nat) /\ Len(p) = k
    BY <1>1, <2>1, <2>2, <2>3, <2>4, PieceReceived DEF Received
  <2>6. PICK g \in Nat : g = read[c]
    BY DEF Types
  <2>7. \A i \in 1..k : p[i] = g + i
    BY <2>3, <2>4, <2>6
  <2>8. /\ server = "recv" /\ server' = "recv" /\ curFd' = c
        /\ read'[c] = g + k /\ total' = total + k
        /\ buf' = IF total + k < BufSize THEN buf \o p ELSE buf
    BY <1>1, <2>1, <2>2, <2>3, <2>4, <2>6 DEF Received, Fits, Types
  <2>9. PICK m \in Nat : m = Len(buf)
    BY <1>t
  <2>10. /\ m < BufSize /\ m <= total /\ (total < BufSize => m = total) /\ total <= g
         /\ \A i \in 1..m : buf[i] = g - total + i
    BY <2>1, <2>6, <2>8, <2>9 DEF BufInv
  <2>11. CASE total + k < BufSize
    <3>1. m = total
      BY <1>t, <2>10, <2>11, Sizes
    <3>2. PICK w \in Seq(Nat) : w = buf \o p
      BY <1>t, <2>5, ConcatProperties
    <3>3. /\ Len(w) = m + k /\ \A i \in 1..m : w[i] = buf[i]
          /\ \A i \in m + 1..m + k : i - m \in 1..k /\ w[i] = p[i - m]
      <4>1. buf \in Seq(Nat) /\ p \in Seq(Nat) /\ m = Len(buf) /\ k = Len(p)
        BY <1>t, <2>5, <2>9
      <4> QED
        BY <3>2, <4>1, TwoParts
    <3>4. ASSUME NEW i \in 1..m + k PROVE w[i] = g - m + i
      <4>1. CASE i <= m
        BY <2>10, <3>1, <3>3, <4>1
      <4>2. CASE i > m
        <5>1. w[i] = p[i - m] /\ i - m \in 1..k
          BY <3>3, <4>2
        <5> QED
          BY <2>7, <5>1
      <4> QED
        BY <4>1, <4>2
    <3>5. buf' = w /\ total' = m + k
      BY <2>8, <2>11, <3>1, <3>2
    <3>6. (g + k) - (m + k) = g - m /\ m + k <= g + k /\ m + k < BufSize
      BY <2>10, <2>11, <3>1
    <3>7. \A i \in 1..Len(buf') : buf'[i] = read'[curFd'] - total' + i
      BY <2>8, <3>3, <3>4, <3>5, <3>6
    <3>l. Len(buf') = m + k
      BY <3>3, <3>5
    <3>r. read'[curFd'] = g + k
      BY <2>8
    <3>8. Len(buf') < BufSize /\ Len(buf') <= total' /\ Len(buf') = total' /\ total' <= read'[curFd']
      BY <3>5, <3>6, <3>l, <3>r
    <3> QED
      BY <3>7, <3>8 DEF BufInv
  <2>12. CASE ~(total + k < BufSize)
    <3>1. buf' = buf /\ total' = total + k
      BY <2>8, <2>12
    <3>2. g + k - (total + k) = g - total /\ total + k <= g + k /\ m <= total + k
      BY <1>t, <2>10
    <3>3. \A i \in 1..Len(buf') : buf'[i] = read'[curFd'] - total' + i
      BY <2>8, <2>9, <2>10, <3>1, <3>2
    <3> QED
      BY <2>8, <2>9, <2>10, <2>12, <3>1, <3>2, <3>3 DEF BufInv
  <2> QED
    BY <2>11, <2>12
<1>2. CASE buf' = <<>> /\ total' = 0 /\ server' # "recv"
  <2>1. PICK e \in Seq(Nat) : e = <<>>
    BY EmptySeq
  <2>2. Len(e) = 0 /\ buf' = e
    BY <1>2, <2>1
  <2> QED
    BY <1>2, <2>2, Sizes DEF BufInv
<1>3. CASE server' # "recv" /\ UNCHANGED <<buf, total>>
  BY <1>3 DEF BufInv
<1>4. CASE \E c \in Clients : RecvHttpRequest(c)
  <2>1. PICK c \in Clients : /\ curFd' = c /\ UNCHANGED <<buf, total, read>>
    BY <1>4 DEF RecvHttpRequest
  <2>2. buf = <<>> /\ total = 0
    BY <1>4 DEF RecvHttpRequest, Phases
  <2>3. PICK e \in Seq(Nat) : e = <<>>
    BY EmptySeq
  <2>4. Len(e) = 0 /\ buf' = e /\ total' = 0 /\ read'[c] \in Nat
    BY <2>1, <2>2, <2>3 DEF Types
  <2> QED
    BY <2>1, <2>4, Sizes DEF BufInv
<1>5. CASE UNCHANGED <<server, buf, total, curFd, read>>
  BY <1>5 DEF BufInv
<1>6. \/ Received \/ (buf' = <<>> /\ total' = 0 /\ server' # "recv")
      \/ (server' # "recv" /\ UNCHANGED <<buf, total>>)
      \/ (\E c \in Clients : RecvHttpRequest(c)) \/ UNCHANGED <<server, buf, total, curFd, read>>
  BY DEF Next, ServerStep, ClientStep, EpollWait, EndOfBatch, AcceptConn, AcceptFails,
         Disconnect,
         SendFails, OtherOp, ReplyDone, Drained, SendTakes, NextOp, Connect, Send, Leave,
         Read, Return, vars, serverVars, localVars
<1> QED
  BY <1>1, <1>2, <1>3, <1>4, <1>5, <1>6

(* No step loses the edge of an open connection that has something to tell.*)
Tells(c) == conn[c] = "open" /\ Readable(c) /\ Running
Noticed(c) == edge[c] \/ c \in events \/ (server = "recv" /\ curFd = c)

LEMMA NextEdges ==
  ASSUME Types, Phases, EdgeNotLost, [Next]_vars PROVE EdgeNotLost'
<1> SUFFICES ASSUME NEW c \in Clients, Tells(c)' PROVE Noticed(c)'
  BY DEF EdgeNotLost, Tells, Noticed
<1>h. Tells(c) => Noticed(c)
  BY DEF EdgeNotLost, Tells, Noticed
<1>1. CASE EpollWait
  <2>1. Tells(c) /\ edge[c]
    BY <1>1, <1>h DEF EpollWait, Phases, Tells, Noticed, Readable, Running, clientVars
  <2>2. c \in events'
    BY <1>1, <2>1 DEF EpollWait, Tells
  <2> QED
    BY <2>2 DEF Noticed
<1>2. CASE EndOfBatch
  BY <1>2, <1>h DEF EndOfBatch, Tells, Noticed, Readable, Running, clientVars, localVars
<1>3. CASE AcceptConn
  <2>1. PICK d \in Clients : /\ conn' = [conn EXCEPT ![d] = "open"]
                             /\ edge' = [edge EXCEPT ![d] = Readable(d)]
    BY <1>3 DEF AcceptConn
  <2>2. CASE c = d
    <3>1. Readable(c)
      BY <1>3 DEF AcceptConn, Tells, Readable, clientVars, localVars
    <3>2. edge'[c] = Readable(c)
      BY <2>1, <2>2 DEF Types
    <3> QED
      BY <3>1, <3>2 DEF Noticed
  <2>3. CASE c # d
    <3>1. Tells(c)
      BY <1>3, <2>1, <2>3 DEF AcceptConn, Tells, Readable, Running, clientVars, localVars, Types
    <3>2. edge'[c] = edge[c] /\ (c \in events => c \in events') /\ server' = server /\ curFd' = curFd
      <4>1. c # Listen
        BY WebServerAssumption DEF Listen
      <4> QED
        BY <1>3, <2>1, <2>3, <4>1 DEF AcceptConn, localVars, Types
    <3> QED
      BY <1>h, <3>1, <3>2 DEF Noticed
  <2> QED
    BY <2>2, <2>3
<1>f. CASE AcceptFails
  BY <1>f DEF AcceptFails, Tells, Running
<1>4. CASE Disconnect
  <2>1. c # curFd
    BY <1>4 DEF Disconnect, Tells, Types
  <2>2. Tells(c)
    BY <1>4, <2>1 DEF Disconnect, Return, Tells, Readable, Running, clientVars, Types
  <2> QED
    BY <1>4, <1>h, <2>1, <2>2 DEF Disconnect, Return, Noticed
<1>5. CASE SendFails \/ OtherOp \/ ReplyDone
  <2>1. Tells(c)
    BY <1>5 DEF SendFails, OtherOp, ReplyDone, Return, Tells, Readable, Running, clientVars
  <2>2. Noticed(c) => Noticed(c)'
    BY <1>5 DEF SendFails, OtherOp, ReplyDone, Return, Noticed, clientVars
  <2> QED
    BY <1>h, <2>1, <2>2
<1>6. ASSUME NEW d \in Clients, RecvHttpRequest(d) PROVE Noticed(c)'
  <2>1. Tells(c)
    BY <1>6 DEF RecvHttpRequest, Tells, Readable, Running, clientVars
  <2> QED
    BY <1>6, <1>h, <2>1 DEF RecvHttpRequest, Noticed
<1>7. CASE Received
  <2>1. CASE c = curFd
    BY <1>7, <2>1 DEF Received, Noticed
  <2>2. CASE c # curFd
    <3>1. Tells(c)
      BY <1>7, <2>2 DEF Received, Tells, Readable, Running, clientVars, Types
    <3> QED
      BY <1>7, <1>h, <2>2, <3>1 DEF Received, Noticed
  <2> QED
    BY <2>1, <2>2
<1>8. CASE Drained
  <2>1. Tells(c)
    BY <1>8 DEF Drained, Tells, Readable, Running, clientVars
  <2>2. c # curFd
    <3>1. read[curFd] = sent[curFd] /\ left[curFd] = "no" /\ curFd \in Clients
      BY <1>8 DEF Drained, Phases
    <3>2. ~Readable(curFd)
      BY <3>1 DEF Readable, Types
    <3> QED
      BY <2>1, <3>2 DEF Tells
  <2> QED
    BY <1>8, <1>h, <2>1, <2>2 DEF Drained, Noticed
<1>9. CASE SendTakes
  <2>1. PICK how \in {"fin", "rst"} :
          left' = [left EXCEPT ![curFd] = IF @ = "fin" THEN how ELSE @]
    BY <1>9 DEF SendTakes
  <2>2. left'[c] # "no" => left[c] # "no"
    BY <2>1 DEF Types
  <2>3. Tells(c)
    BY <1>9, <2>2 DEF SendTakes, NextOp, Tells, Readable, Running
  <2> QED
    BY <1>9, <1>h, <2>3 DEF SendTakes, NextOp, Noticed
<1>10. ASSUME NEW d \in Clients, Connect(d) PROVE Noticed(c)'
  <2>1. Tells(c)
    BY <1>10 DEF Connect, Tells, Readable, Running, clientVars, serverVars, Types
  <2> QED
    BY <1>10, <1>h, <2>1 DEF Connect, Noticed, serverVars, localVars
<1>11. ASSUME NEW d \in Clients, Send(d) \/ Leave(d) PROVE Noticed(c)'
  <2>1. edge' = [edge EXCEPT ![d] = (conn[d] = "open")] /\ conn' = conn
    BY <1>11 DEF Send, Leave, Arrive
  <2>2. CASE c = d
    <3>1. edge'[c] = (conn[c] = "open") /\ conn[c] = "open"
      BY <2>1, <2>2 DEF Types, Tells
    <3> QED
      BY <3>1 DEF Noticed
  <2>3. CASE c # d
    <3>1. Readable(c)' <=> Readable(c)
      BY <1>11, <2>3 DEF Send, Leave, Readable, serverVars, Types
    <3>2. UNCHANGED <<server, events, curFd>> /\ edge'[c] = edge[c]
      BY <1>11, <2>1, <2>3 DEF Send, Leave, serverVars, localVars, Types
    <3>3. Tells(c)
      BY <2>1, <3>1, <3>2 DEF Tells, Running
    <3> QED
      BY <1>h, <3>2, <3>3 DEF Noticed
  <2> QED
    BY <2>2, <2>3
<1>12. ASSUME NEW d \in Clients, Read(d) PROVE Noticed(c)'
  <2>1. Tells(c)
    BY <1>12 DEF Read, Tells, Readable, Running, serverVars
  <2> QED
    BY <1>12, <1>h, <2>1 DEF Read, Noticed, serverVars, localVars
<1>13. CASE UNCHANGED vars
  BY <1>13, <1>h DEF vars, serverVars, localVars, clientVars, Tells, Noticed, Readable, Running
<1> QED
  BY <1>1, <1>2, <1>3, <1>f, <1>4, <1>5, <1>6, <1>7, <1>8, <1>9, <1>10, <1>11, <1>12, <1>13
     DEF Next, ServerStep, ClientStep

-----------------------------------------------------------------------------
(* What was sent. *)

LEMMA ScriptKept == [Next]_vars => script' = script
BY DEF Next, ServerStep, ClientStep, EpollWait, EndOfBatch, AcceptConn, AcceptFails,
         RecvHttpRequest,
       Received, Drained, Disconnect, SendTakes, SendFails, OtherOp, ReplyDone, Connect, Send,
       Leave, Read, vars, clientVars

LEMMA KindKept == ASSUME script' = script, NEW c, NEW r PROVE Kind(c, r)' = Kind(c, r)
BY DEF Kind

(* While somebody is answered no connection is opened or closed. *)
LEMMA OpenKept ==
  ASSUME Types, [Next]_vars, server' = "reply" PROVE CanOpen' = CanOpen
<1>1. UNCHANGED fdLimit
  BY DEF Next, ServerStep, ClientStep, Connect, Send, Leave, Read, vars, serverVars
<1>2. UNCHANGED conn \/ \E d \in Clients : Connect(d)
  BY DEF Next, ServerStep, ClientStep, EpollWait, EndOfBatch, AcceptConn, AcceptFails,
         RecvHttpRequest, Received, Drained, Disconnect, Return, SendTakes, SendFails, OtherOp,
         ReplyDone, Send, Leave, Read, vars
<1>3. ASSUME NEW c \in Clients PROVE conn'[c] = "open" <=> conn[c] = "open"
  <2>1. ASSUME NEW d \in Clients, Connect(d) PROVE conn'[c] = "open" <=> conn[c] = "open"
    BY <2>1 DEF Connect, Types
  <2> QED
    BY <1>2, <2>1
<1>4. {c \in Clients : conn'[c] = "open"} = {c \in Clients : conn[c] = "open"}
  BY <1>3
<1> QED
  BY <1>1, <1>4 DEF CanOpen

LEMMA SeenKept ==
  ASSUME Types, [Next]_vars, server' = "reply", NEW c, NEW r
  PROVE  SeenKind(c, r)' = SeenKind(c, r)
<1>1. Kind(c, r)' = Kind(c, r)
  BY ScriptKept, KindKept
<1>2. CanOpen' = CanOpen
  BY OpenKept
<1> QED
  BY <1>1, <1>2 DEF SeenKind

(* What is seen of a thing says at most what it is. *)
LEMMA SeenFits ==
  ASSUME NEW u, NEW kind, NEW opens, CellFits(u, Seen(kind, opens)) PROVE CellFits(u, kind)
BY DEF CellFits, Seen

LEMMA StillThere ==
  ASSUME Types, [Next]_vars, NEW c \in Clients, left'[c] = "no" PROVE left[c] = "no"
<1>1. CASE SendTakes
  <2>1. PICK how \in {"fin", "rst"} :
          left' = [left EXCEPT ![curFd] = IF @ = "fin" THEN how ELSE @]
    BY <1>1 DEF SendTakes
  <2> QED
    BY <2>1 DEF Types
<1>2. ASSUME NEW d \in Clients, Leave(d) PROVE left[c] = "no"
  BY <1>2 DEF Leave, Types
<1>3. CASE left' = left
  BY <1>3
<1>4. SendTakes \/ (\E d \in Clients : Leave(d)) \/ left' = left
  BY DEF Next, ServerStep, ClientStep, EpollWait, EndOfBatch, AcceptConn, AcceptFails,
         RecvHttpRequest,
         Received, Drained, Disconnect, SendFails, OtherOp, ReplyDone, Connect, Send,
         Read, vars, clientVars
<1> QED
  BY <1>1, <1>2, <1>3, <1>4

LEMMA BeforeGrows ==
  ASSUME Types, Phases, Counts, BufInv, [Next]_vars, NEW c \in Clients
  PROVE  Before(c) \in Int /\ Before(c)' \in Int /\ Before(c) <= Before(c)'
<1>t. total \in Nat /\ read[c] \in Nat
  BY DEF Types
<1>1. Before(c) \in Int /\ Before(c) <= read[c]
  BY <1>t DEF Before
<1>2. CASE Received
  <2>1. PICK d \in Clients : d = curFd
    BY <1>2 DEF Received, Phases
  <2>2. PICK n : n = Min({RecvMax, sent[d] - read[d]})
    OBVIOUS
  <2>3. n \in Nat
    BY <1>2, <2>1, <2>2, PieceReceived DEF Received
  <2>4. /\ read' = [read EXCEPT ![d] = @ + n] /\ total' = total + n
        /\ server = "recv" /\ server' = "recv" /\ curFd' = d
    BY <1>2, <2>1, <2>2 DEF Received
  <2>5. CASE c = d
    <3>1. Before(c) = read[c] - total /\ Before(c)' = (read[c] + n) - (total + n)
      BY <2>1, <2>4, <2>5 DEF Before, Types
    <3> QED
      BY <1>t, <2>3, <3>1
  <2>6. CASE c # d
    <3>1. Before(c) = read[c] /\ Before(c)' = read[c]
      BY <2>1, <2>4, <2>6 DEF Before, Types
    <3> QED
      BY <1>t, <3>1
  <2> QED
    BY <2>5, <2>6
<1>3. CASE server' # "recv" /\ read' = read
  <2>1. Before(c)' = read[c]
    BY <1>3 DEF Before
  <2> QED
    BY <1>1, <1>t, <2>1
<1>4. CASE \E d \in Clients : RecvHttpRequest(d)
  <2>1. total' = 0 /\ read' = read
    BY <1>4 DEF RecvHttpRequest, Phases
  <2>2. Before(c)' = read[c]
    BY <1>t, <2>1 DEF Before
  <2> QED
    BY <1>1, <1>t, <2>2
<1>5. CASE UNCHANGED <<server, total, curFd, read>>
  BY <1>1, <1>5 DEF Before
<1>6. \/ Received \/ (server' # "recv" /\ read' = read)
      \/ (\E d \in Clients : RecvHttpRequest(d)) \/ UNCHANGED <<server, total, curFd, read>>
  BY DEF Next, ServerStep, ClientStep, EpollWait, EndOfBatch, AcceptConn, AcceptFails,
         Disconnect,
         SendFails, OtherOp, ReplyDone, Drained, SendTakes, NextOp, Connect, Send, Leave,
         Read, Return, vars, serverVars, localVars
<1> QED
  BY <1>2, <1>3, <1>4, <1>5, <1>6

(* s is what the first call sends, and n units of it are taken behind the  *)
(* m units in o, which makes w.                                            *)
Taken(c, s, l, n, o, m, w) ==
  /\ c = curFd /\ server = "reply" /\ todo # <<>> /\ s = todo[1].cells
  /\ l = Len(s) /\ n \in 1..l /\ (c \notin Slow => n = l)
  /\ o = out[c] /\ m = Len(o) /\ out' = [out EXCEPT ![c] = w] /\ Len(w) = m + n
  /\ \A i \in 1..m : w[i] = o[i]
  /\ \A i \in m + 1..m + n : i - m \in 1..n /\ w[i] = s[i - m]

LEMMA TakenFromTodo ==
  ASSUME Types, Phases, SendTakes
  PROVE  \E c \in Clients, s \in Seq(Unit), l \in Nat, n \in Nat,
            o \in Seq(Unit), m \in Nat, w \in Seq(Unit) : Taken(c, s, l, n, o, m, w)
<1>1. PICK c \in Clients, n \in Nat :
        /\ c = curFd /\ todo # <<>> /\ server = "reply"
        /\ todo[1].cells \in Seq(Unit) /\ n \in 1..Len(todo[1].cells)
        /\ c \notin Slow => n = Len(todo[1].cells)
        /\ out' = [out EXCEPT ![c] = @ \o SubSeq(todo[1].cells, 1, n)]
  BY SendEffect
<1>2. PICK s \in Seq(Unit) : s = todo[1].cells
  BY <1>1
<1>3. PICK p : p = SubSeq(s, 1, n)
  OBVIOUS
<1>l. PICK l \in Nat : l = Len(s)
  OBVIOUS
<1>i. n \in 1..l
  BY <1>1, <1>2, <1>l
<1>4. p \in Seq(Unit) /\ Len(p) = n
  BY <1>i, <1>l, <1>3
<1>j. \A i \in 1..n : p[i] = s[i]
  BY <1>i, <1>l, <1>3
<1>5. PICK o \in Seq(Unit) : o = out[c]
  BY DEF Types
<1>6. PICK m \in Nat : m = Len(o)
  BY <1>5
<1>p. p \in Seq(Unit)
  BY <1>4
<1>7a. o \o p \in Seq(Unit)
  BY <1>p, ConcatProperties
<1>7. PICK w \in Seq(Unit) : w = o \o p
  BY <1>7a
<1>7b. Len(w) = m + n
  <2>1. Len(o \o p) = Len(o) + Len(p)
    BY <1>p, ConcatProperties
  <2> QED
    BY <1>4, <1>6, <1>7, <2>1
<1>7c. \A i \in 1..m : w[i] = o[i]
  BY <1>p, <1>6, <1>7
<1>7d. \A i \in m + 1..m + n : i - m \in 1..n /\ w[i] = p[i - m]
  BY <1>4, <1>6, <1>7
<1>8. /\ w \in Seq(Unit) /\ Len(w) = m + n /\ \A i \in 1..m : w[i] = o[i]
      /\ \A i \in m + 1..m + n : i - m \in 1..n /\ w[i] = p[i - m]
  BY <1>7b, <1>7c, <1>7d
<1>9. out' = [out EXCEPT ![c] = w]
  BY <1>1, <1>2, <1>3, <1>5, <1>7
<1>10. c \notin Slow => n = l
  BY <1>1, <1>2, <1>l
<1>11. \A i \in m + 1..m + n : i - m \in 1..n /\ w[i] = s[i - m]
  BY <1>j, <1>8
<1>12. Taken(c, s, l, n, o, m, w)
  BY <1>1, <1>2, <1>i, <1>l, <1>5, <1>6, <1>8, <1>9, <1>10, <1>11 DEF Taken
<1> QED
  BY <1>8, <1>12

LEMMA NextPast ==
  ASSUME Serving, Past, Reply, [Next]_vars PROVE Past'
<1>t. Types /\ Phases /\ Counts /\ BufInv
  BY DEF Serving
<1>s. script' = script
  BY ScriptKept
<1>1. CASE out' = out
  <2>1. ASSUME NEW c \in Clients, NEW i \in 1..Len(out[c]) PROVE 3 * out[c][i][1] - 1 <= Before(c)'
    <3>1. PICK o \in Seq(Unit) : o = out[c] /\ i \in 1..Len(o)
      BY <1>t, <2>1 DEF Types
    <3>2. o[i] \in Unit
      BY <3>1
    <3>3. PICK r \in Nat : r = out[c][i][1]
      BY <3>1, <3>2 DEF Unit
    <3>4. 3 * r - 1 <= Before(c)
      BY <3>3 DEF Past
    <3>5. Before(c) \in Int /\ Before(c)' \in Int /\ Before(c) <= Before(c)'
      BY <1>t, BeforeGrows
    <3> QED
      BY <3>3, <3>4, <3>5
  <2> QED
    BY <1>1, <1>s, <2>1, KindKept DEF Past
<1>2. CASE SendTakes
  <2>1. PICK c \in Clients, s \in Seq(Unit), l \in Nat, n \in Nat,
              o \in Seq(Unit), m \in Nat, w \in Seq(Unit) : Taken(c, s, l, n, o, m, w)
    BY <1>2, <1>t, TakenFromTodo
  <2>a. /\ c = curFd /\ server = "reply" /\ todo # <<>> /\ s = todo[1].cells
        /\ o = out[c] /\ out' = [out EXCEPT ![c] = w]
    BY <2>1 DEF Taken
  <2>b. l = Len(s) /\ n \in 1..l /\ m = Len(o) /\ Len(w) = m + n
    BY <2>1 DEF Taken
  <2>c. n \in 1..l
    BY <2>b
  <2>d. \A i \in 1..m : w[i] = o[i]
    BY <2>1 DEF Taken
  <2>e. \A i \in m + 1..m + n : i - m \in 1..n /\ w[i] = s[i - m]
    BY <2>1 DEF Taken
  <2>3. PICK r \in 1..Len(script[c]) : Replying(r)
    BY <2>a DEF Reply
  <2>4. /\ 3 * r - 1 <= read[c] /\ script[c][r].method = "GET"
        /\ Answer(todo, r, SeenKind(c, r))
    BY <2>a, <2>3 DEF Replying
  <2>f. \A i \in 1..m : \A k \in 1..Len(todo) : \A v \in Cells(todo[k]) : Follows(o[i], v)
    BY <2>a, <2>b, <2>3 DEF Replying
  <2>5. 1 \in 1..Len(todo)
    <3>1. todo \in Seq(Op) /\ todo # <<>>
      BY <1>t, <2>a DEF Types
    <3> QED
      BY <3>1
  <2>6. CallFits(todo[1], r, SeenKind(c, r))
    BY <2>4, <2>5 DEF Answer
  <2>8. \A i \in 1..n : i \in 1..l /\ s[i] \in Cells(todo[1])
    <3>1. \A i \in 1..n : i \in 1..l
      BY <2>c
    <3> QED
      BY <2>a, <2>b, <3>1 DEF Cells
  <2>9. InOrder(w)
    <3>1. ASSUME NEW i \in 1..m + n, NEW j \in 1..m + n, i < j PROVE Follows(w[i], w[j])
      <4>1. CASE j <= m
        <5>1. i \in 1..m /\ j \in 1..m
          BY <3>1, <4>1
        <5>2. InOrder(o)
          BY <2>a DEF Past
        <5> QED
          BY <2>b, <2>d, <3>1, <5>1, <5>2 DEF InOrder
      <4>2. CASE i > m
        <5>0. i \in m + 1..m + n /\ j \in m + 1..m + n
          BY <3>1, <4>2
        <5>1. i - m \in 1..n /\ j - m \in 1..n /\ w[i] = s[i - m] /\ w[j] = s[j - m]
          BY <2>e, <5>0
        <5>2. InOrder(s)
          BY <2>a, <2>6 DEF CallFits
        <5>3. \A x, y \in 1..l : x < y => Follows(s[x], s[y])
          BY <2>b, <5>2 DEF InOrder
        <5>4. i - m < j - m
          BY <3>1
        <5> QED
          BY <2>8, <5>1, <5>3, <5>4
      <4>3. CASE i <= m /\ j > m
        <5>0. i \in 1..m /\ j \in m + 1..m + n
          BY <3>1, <4>3
        <5>1. i \in 1..m /\ w[i] = o[i] /\ j - m \in 1..n /\ w[j] = s[j - m]
          BY <2>d, <2>e, <5>0
        <5>2. s[j - m] \in Cells(todo[1])
          BY <2>8, <5>1
        <5> QED
          BY <2>f, <2>5, <5>1, <5>2
      <4> QED
        BY <4>1, <4>2, <4>3
    <3> QED
      BY <2>b, <3>1 DEF InOrder
  <2>10. server' = "reply" /\ read' = read
    BY <1>2, <2>a DEF SendTakes, NextOp
  <2>11. ASSUME NEW d \in Clients PROVE Before(d)' = read[d] /\ Before(d) = read[d]
    BY <2>a, <2>10 DEF Before
  <2>12. ASSUME NEW i \in 1..m + n
         PROVE  /\ w[i][1] \in 1..Len(script[c]) /\ 3 * w[i][1] - 1 <= read[c]
                /\ script[c][w[i][1]].method = "GET" /\ CellFits(w[i], Kind(c, w[i][1]))
    <3>1. CASE i <= m
      <4>0. i \in 1..m
        BY <3>1
      <4>1. i \in 1..Len(out[c]) /\ w[i] = out[c][i] /\ Before(c) = read[c]
        BY <2>a, <2>b, <2>d, <2>11, <4>0
      <4> QED
        BY <4>1 DEF Past
    <3>2. CASE i > m
      <4>0. i \in m + 1..m + n
        BY <3>2
      <4>1. i - m \in 1..n /\ w[i] = s[i - m]
        BY <2>e, <4>0
      <4>2. PICK u \in Cells(todo[1]) : u = w[i]
        BY <2>8, <4>1
      <4>3. u[1] = r /\ CellFits(u, Kind(c, r))
        BY <2>6, SeenFits DEF CallFits, SeenKind
      <4> QED
        BY <2>3, <2>4, <4>2, <4>3
    <3> QED
      BY <3>1, <3>2
  <2>13. out'[c] = w
    BY <1>t, <2>a DEF Types
  <2>14. ASSUME NEW d \in Clients
         PROVE  /\ InOrder(out'[d])
                /\ \A i \in 1..Len(out'[d]) :
                     /\ out'[d][i][1] \in 1..Len(script'[d])
                     /\ 3 * out'[d][i][1] - 1 <= Before(d)'
                     /\ script'[d][out'[d][i][1]].method = "GET"
                     /\ CellFits(out'[d][i], RequestKind(script'[d][out'[d][i][1]]))
    <3>1. CASE d = c
      <4>1. ASSUME NEW i \in 1..Len(out'[c])
            PROVE  /\ out'[c][i][1] \in 1..Len(script'[c])
                   /\ 3 * out'[c][i][1] - 1 <= Before(c)'
                   /\ script'[c][out'[c][i][1]].method = "GET"
                   /\ CellFits(out'[c][i], RequestKind(script'[c][out'[c][i][1]]))
        <5>1. i \in 1..m + n /\ out'[c][i] = w[i]
          BY <2>b, <2>13, <4>1
        <5>2. Before(c)' = read[c]
          BY <2>11
        <5>3. out'[c][i][1] = w[i][1]
          BY <5>1
        <5> QED
          BY <1>s, <2>12, <5>1, <5>2, <5>3 DEF Kind
      <4> QED
        BY <2>9, <2>13, <3>1, <4>1
    <3>2. CASE d # c
      <4>1. out'[d] = out[d] /\ Before(d)' = Before(d)
        BY <1>t, <2>a, <2>11, <3>2 DEF Types
      <4> QED
        BY <1>s, <4>1 DEF Past, Kind
    <3> QED
      BY <3>1, <3>2
  <2> QED
    BY <2>14 DEF Past, Kind
<1>3. out' = out \/ SendTakes
  BY DEF Next, ServerStep, ClientStep, EpollWait, EndOfBatch, AcceptConn, AcceptFails,
         RecvHttpRequest,
         Received, Drained, Disconnect, SendFails, OtherOp, ReplyDone, Connect, Send,
         Leave, Read, vars
<1> QED
  BY <1>1, <1>2, <1>3

(* A client that reads as fast as it is sent to gets every file without a  *)
(* gap.                                                                    *)
LEMMA NextNoGaps ==
  ASSUME Serving, NoGaps, Reply, [Next]_vars PROVE NoGaps'
<1>t. Types /\ Phases
  BY DEF Serving
<1>1. CASE out' = out
  BY <1>1, <1>t, StillThere DEF NoGaps
<1>2. CASE SendTakes
  <2>1. PICK c \in Clients, s \in Seq(Unit), l \in Nat, n \in Nat,
              o \in Seq(Unit), m \in Nat, w \in Seq(Unit) : Taken(c, s, l, n, o, m, w)
    BY <1>2, <1>t, TakenFromTodo
  <2>a. /\ c = curFd /\ server = "reply" /\ todo # <<>> /\ s = todo[1].cells
        /\ o = out[c] /\ out' = [out EXCEPT ![c] = w]
    BY <2>1 DEF Taken
  <2>b. l = Len(s) /\ m = Len(o) /\ Len(w) = m + n
    BY <2>1 DEF Taken
  <2>c. n \in 1..l
    BY <2>1 DEF Taken
  <2>d. \A i \in 1..m : w[i] = o[i]
    BY <2>1 DEF Taken
  <2>e. \A i \in m + 1..m + n : i - m \in 1..n /\ w[i] = s[i - m]
    BY <2>1 DEF Taken
  <2>2. ASSUME c \notin Slow, left[c] = "no" PROVE GapFree(w)
    <3>1. GapFree(o)
      BY <2>a, <2>2 DEF NoGaps
    <3>2. PICK r \in 1..Len(script[c]) : Replying(r)
      BY <2>a DEF Reply
    <3>3. Joins(o, s)
      BY <2>2, <2>a, <3>2 DEF Replying
    <3>4. 1 \in 1..Len(todo)
      <4>1. todo \in Seq(Op) /\ todo # <<>>
        BY <1>t, <2>a DEF Types
      <4> QED
        BY <4>1
    <3>5. Chained(s)
      BY <2>a, <3>2, <3>4 DEF Replying, Answer, CallFits
    <3>6. s # <<>>
      BY <2>b, <2>c
    <3>7. ASSUME NEW i \in 1..m + n
          PROVE  Starts(w[i]) \/ (i > 1 /\ Continues(w[i - 1], w[i]))
      <4>1. CASE i <= m
        <5>1. i \in 1..m /\ (i > 1 => i - 1 \in 1..m)
          BY <4>1
        <5>2. w[i] = o[i] /\ (i > 1 => w[i - 1] = o[i - 1])
          BY <2>d, <5>1
        <5> QED
          BY <2>b, <3>1, <5>1, <5>2 DEF GapFree
      <4>2. CASE i = m + 1
        <5>1. i \in m + 1..m + n /\ i - m = 1
          BY <4>2
        <5>2. w[i] = s[1]
          BY <2>e, <5>1
        <5>3. Starts(s[1]) \/ (o # <<>> /\ Continues(o[m], s[1]))
          BY <2>b, <3>3, <3>6 DEF Joins
        <5>4. o # <<>> => m \in 1..m /\ i > 1 /\ i - 1 = m
          BY <2>b, <4>2
        <5>5. o # <<>> => w[i - 1] = o[m] /\ i > 1
          BY <2>d, <5>4
        <5> QED
          BY <5>2, <5>3, <5>5
      <4>3. CASE i > m + 1
        <5>1. /\ i \in m + 1..m + n /\ i - 1 \in m + 1..m + n
              /\ i - m \in 2..l /\ (i - 1) - m = (i - m) - 1 /\ i > 1
          BY <2>c, <4>3
        <5>2. w[i] = s[i - m] /\ w[i - 1] = s[(i - m) - 1]
          BY <2>e, <5>1
        <5> QED
          BY <2>b, <3>5, <5>1, <5>2 DEF Chained
      <4> QED
        BY <4>1, <4>2, <4>3
    <3> QED
      BY <2>b, <3>7 DEF GapFree
  <2>3. ASSUME NEW d \in Clients, d \notin Slow, left'[d] = "no" PROVE GapFree(out'[d])
    <3>1. left[d] = "no"
      BY <1>t, <2>3, StillThere
    <3>2. CASE d = c
      BY <1>t, <2>2, <2>3, <2>a, <3>1, <3>2 DEF Types
    <3>3. CASE d # c
      BY <1>t, <2>3, <2>a, <3>1, <3>3 DEF Types, NoGaps
    <3> QED
      BY <3>2, <3>3
  <2> QED
    BY <2>3 DEF NoGaps
<1>3. out' = out \/ SendTakes
  BY DEF Next, ServerStep, ClientStep, EpollWait, EndOfBatch, AcceptConn, AcceptFails,
         RecvHttpRequest,
         Received, Drained, Disconnect, SendFails, OtherOp, ReplyDone, Connect, Send,
         Leave, Read, vars
<1> QED
  BY <1>1, <1>2, <1>3

-----------------------------------------------------------------------------
(* What is still to be sent. *)

LEMMA RestOfAnswer ==
  ASSUME NEW t, NEW r, NEW kind, Answer(t, r, kind), t # <<>>
  PROVE  Answer(Tail(t), r, kind)
<1>1. PICK n \in Nat : n = Len(t)
  BY DEF Answer
<1>2. PICK u \in Seq(Op) : u = Tail(t)
  BY TailOfTodo DEF Answer
<1>3. Len(u) = n - 1 /\ n > 0 /\ \A i \in 1..n - 1 : i + 1 \in 1..n /\ u[i] = t[i + 1]
  BY <1>1, <1>2, TailOfTodo DEF Answer
<1>4. \A i \in 1..n - 1 : CallFits(u[i], r, kind)
  BY <1>1, <1>3 DEF Answer
<1>5. ASSUME NEW i \in 1..n - 1, NEW k \in 1..n - 1, i < k PROVE Precedes(u[i], u[k])
  <2>1. i + 1 \in 1..n /\ k + 1 \in 1..n /\ i + 1 < k + 1 /\ u[i] = t[i + 1] /\ u[k] = t[k + 1]
    BY <1>3, <1>5
  <2>2. \A x, y \in 1..n : x < y => Precedes(t[x], t[y])
    BY <1>1 DEF Answer
  <2> QED
    BY <2>1, <2>2
<1>6. ASSUME NEW i \in 2..n - 1 PROVE Joins(u[i - 1].cells, u[i].cells)
  <2>1. i \in 1..n - 1 /\ i - 1 \in 1..n - 1 /\ i + 1 \in 2..n /\ (i - 1) + 1 = (i + 1) - 1
    BY <1>6
  <2>2. u[i] = t[i + 1] /\ u[i - 1] = t[(i + 1) - 1]
    BY <1>3, <2>1
  <2>3. \A x \in 2..n : Joins(t[x - 1].cells, t[x].cells)
    BY <1>1 DEF Answer
  <2> QED
    BY <2>1, <2>2, <2>3
<1>7. Answer(u, r, kind)
  BY <1>2, <1>3, <1>4, <1>5, <1>6 DEF Answer
<1> QED
  BY <1>2, <1>7

(* The rest of an answer goes on behind what is skipped: a send that fails *)
(* for a slow client or one that has left, and a call that sends nothing.  *)
LEMMA SkippedReply ==
  ASSUME Types, Phases, NEW r \in 1..Len(script[curFd]), Replying(r), server = "reply", todo # <<>>,
         todo' = Tail(todo), todo' # <<>>, UNCHANGED <<script, curFd, read, out, left>>,
         SeenKind(curFd, r)' = SeenKind(curFd, r),
         \/ curFd \in Slow \/ left[curFd] # "no" \/ todo[1].cells = <<>>
  PROVE  Replying(r)'
<1>1. Answer(todo', r, SeenKind(curFd, r))
  BY RestOfAnswer DEF Replying
<1>2. PICK n \in Nat : n = Len(todo) /\ n > 0 /\ Len(todo') = n - 1
        /\ \A i \in 1..n - 1 : i + 1 \in 1..n /\ todo'[i] = todo[i + 1]
  <2>1. todo \in Seq(Op)
    BY DEF Types
  <2>2. PICK n \in Nat : n = Len(todo)
    BY <2>1
  <2>3. Len(todo') = n - 1 /\ n > 0 /\ \A i \in 1..n - 1 : i + 1 \in 1..n /\ todo'[i] = todo[i + 1]
    BY <2>1, <2>2, TailOfTodo
  <2> QED
    BY <2>2, <2>3
<1>3. \A i \in 1..Len(out[curFd]) : \A k \in 1..n - 1 : \A v \in Cells(todo'[k]) :
        Follows(out[curFd][i], v)
  BY <1>2 DEF Replying
<1>4. ASSUME curFd \notin Slow, left[curFd] = "no" PROVE Joins(out[curFd], todo'[1].cells)
  <2>0. todo' \in Seq(Op) /\ n - 1 > 0
    <3>1. todo' \in Seq(Op)
      BY <1>1 DEF Answer
    <3>2. Len(todo') # 0
      BY <3>1
    <3> QED
      BY <1>2, <3>1, <3>2
  <2>1. 1 \in 1..n - 1 /\ 2 \in 2..n /\ 2 - 1 = 1
    BY <2>0
  <2>2. todo'[1] = todo[2]
    BY <1>2, <2>1
  <2>3. Joins(todo[2 - 1].cells, todo[2].cells)
    BY <1>2, <2>1 DEF Replying, Answer
  <2>4. todo[1].cells = <<>>
    BY <1>4
  <2> QED
    BY <2>2, <2>3, <2>4 DEF Joins
<1> QED
  BY <1>1, <1>2, <1>3, <1>4 DEF Replying

(* The rest of an answer goes on behind what a send took. *)
LEMMA SentReply ==
  ASSUME Types, Phases, Reply, SendTakes, [Next]_vars, todo' # <<>>
  PROVE  \E r \in 1..Len(script'[curFd']) : Replying(r)'
<1>1. PICK c \in Clients, s \in Seq(Unit), l \in Nat, n \in Nat,
            o \in Seq(Unit), m \in Nat, w \in Seq(Unit) : Taken(c, s, l, n, o, m, w)
  BY TakenFromTodo
<1>a. /\ c = curFd /\ server = "reply" /\ todo # <<>> /\ s = todo[1].cells
      /\ o = out[c] /\ out' = [out EXCEPT ![c] = w]
  BY <1>1 DEF Taken
<1>b. l = Len(s) /\ m = Len(o) /\ Len(w) = m + n
  BY <1>1 DEF Taken
<1>c. n \in 1..l /\ (c \notin Slow => n = l)
  BY <1>1 DEF Taken
<1>d. \A i \in 1..m : w[i] = o[i]
  BY <1>1 DEF Taken
<1>e. \A i \in m + 1..m + n : i - m \in 1..n /\ w[i] = s[i - m]
  BY <1>1 DEF Taken
<1>2. PICK r \in 1..Len(script[c]) : Replying(r)
  BY <1>a DEF Reply
<1>3. Answer(todo, r, SeenKind(c, r))
  BY <1>a, <1>2 DEF Replying
<1>4. todo' = Tail(todo) /\ curFd' = c /\ read' = read /\ script' = script
  BY <1>a DEF SendTakes, NextOp
<1>5. Answer(todo', r, SeenKind(c, r))
  BY <1>3, <1>4, <1>a, RestOfAnswer
<1>k. SeenKind(c, r)' = SeenKind(c, r)
  <2>1. server' = "reply"
    BY <1>a DEF SendTakes, NextOp
  <2> QED
    BY <2>1, SeenKept
<1>q. PICK q \in Nat : q = Len(todo)
  BY <1>3 DEF Answer
<1>6. Len(todo') = q - 1 /\ q > 0 /\ \A k \in 1..q - 1 : k + 1 \in 1..q /\ todo'[k] = todo[k + 1]
  BY <1>3, <1>4, <1>a, <1>q, TailOfTodo DEF Answer
<1>7. q - 1 > 0
  <2>1. todo' \in Seq(Op)
    BY <1>5 DEF Answer
  <2>2. Len(todo') # 0
    BY <2>1
  <2> QED
    BY <1>6, <2>2
<1>8. out'[c] = w
  BY <1>a DEF Types
<1>9. ASSUME NEW i \in 1..m + n, NEW k \in 1..q - 1, NEW v \in Cells(todo'[k])
      PROVE  Follows(w[i], v)
  <2>1. k + 1 \in 1..q /\ v \in Cells(todo[k + 1]) /\ 1 \in 1..q /\ 1 < k + 1
    BY <1>6, <1>7, <1>9
  <2>2. CASE i <= m
    <3>1. i \in 1..m /\ w[i] = o[i]
      BY <1>d, <2>2
    <3>2. \A x \in 1..m : \A y \in 1..q : \A z \in Cells(todo[y]) : Follows(o[x], z)
      BY <1>a, <1>b, <1>q, <1>2 DEF Replying
    <3> QED
      BY <2>1, <3>1, <3>2
  <2>3. CASE i > m
    <3>0. i \in m + 1..m + n
      BY <2>3
    <3>1. i - m \in 1..n /\ w[i] = s[i - m]
      BY <1>e, <3>0
    <3>2. i - m \in 1..l
      BY <1>c, <3>1
    <3>3. w[i] \in Cells(todo[1])
      BY <1>a, <1>b, <3>1, <3>2 DEF Cells
    <3>4. Precedes(todo[1], todo[k + 1])
      BY <1>3, <1>q, <2>1 DEF Answer
    <3> QED
      BY <2>1, <3>3, <3>4 DEF Precedes
  <2> QED
    BY <2>2, <2>3
<1>10. ASSUME c \notin Slow PROVE Joins(w, todo'[1].cells)
  <2>1. 1 \in 1..q - 1 /\ 2 \in 2..q /\ 2 - 1 = 1
    BY <1>7
  <2>2. todo'[1] = todo[2]
    BY <1>6, <2>1
  <2>3. Joins(todo[2 - 1].cells, todo[2].cells)
    BY <1>3, <1>q, <2>1 DEF Answer
  <2>4. Joins(s, todo'[1].cells)
    BY <1>a, <2>2, <2>3
  <2>5. n = l /\ m + n \in m + 1..m + n /\ (m + n) - m = l
    BY <1>c, <1>10
  <2>6. w[m + n] = s[l]
    BY <1>e, <2>5
  <2>7. w # <<>>
    BY <1>b, <2>5
  <2> QED
    BY <1>b, <2>4, <2>6, <2>7 DEF Joins
<1>11. 3 * r - 1 <= read[c] /\ script[c][r].method = "GET"
  BY <1>a, <1>2 DEF Replying
<1>12. Replying(r)'
  BY <1>4, <1>5, <1>k, <1>6, <1>8, <1>b, <1>9, <1>10, <1>11, <1>a DEF Replying
<1> QED
  BY <1>4, <1>12

LEMMA DrainedReply ==
  ASSUME Serving, Past, Drained, [Next]_vars, todo' # <<>>
  PROVE  \E r \in 1..Len(script'[curFd']) : Replying(r)'
<1>t. Types /\ Phases /\ Counts /\ BufInv
  BY DEF Serving
<1>1. PICK r \in 1..Len(script[curFd]) :
        /\ 3 * r - 1 <= read[curFd] /\ read[curFd] - total < 3 * r - 1
        /\ script[curFd][r].method = "GET"
        /\ Answer(todo', r, SeenKind(curFd, r)) /\ Fresh(todo')
  BY <1>t, DrainedEffect
<1>2. server = "recv" /\ curFd \in Clients /\ UNCHANGED <<script, curFd, read, out>>
  BY <1>t DEF Drained, Phases, clientVars
<1>3. PICK o \in Seq(Unit) : o = out[curFd]
  BY <1>t, <1>2 DEF Types
<1>4. PICK m \in Nat : m = Len(o)
  BY <1>3
<1>5. ASSUME NEW i \in 1..m, NEW k \in 1..Len(todo'), NEW v \in Cells(todo'[k])
      PROVE  Follows(o[i], v)
  <2>1. v[1] = r
    BY <1>1, <1>5 DEF Answer, CallFits
  <2>2. o[i] \in Unit
    BY <1>4
  <2>3. PICK x \in Nat : x = o[i][1]
    BY <2>2 DEF Unit
  <2>4. 3 * x - 1 <= read[curFd] - total
    BY <1>2, <1>3, <1>4, <2>3 DEF Past, Before
  <2>5. read[curFd] - total \in Int /\ r \in Nat
    BY <1>t, <1>2 DEF Types
  <2>6. x < r
    BY <1>1, <2>4, <2>5
  <2> QED
    BY <2>1, <2>3, <2>6 DEF Follows
<1>6. Joins(o, todo'[1].cells)
  <2>1. Joins(<<>>, todo'[1].cells)
    BY <1>1 DEF Fresh
  <2> QED
    BY <2>1 DEF Joins
<1>k. SeenKind(curFd, r)' = SeenKind(curFd, r)
  <2>1. server' = "reply"
    BY DEF Drained
  <2> QED
    BY <1>t, <1>2, <2>1, SeenKept
<1>7. Replying(r)'
  BY <1>1, <1>2, <1>3, <1>4, <1>5, <1>6, <1>k DEF Replying
<1> QED
  BY <1>1, <1>2, <1>7

LEMMA NextReply ==
  ASSUME Serving, Past, Reply, [Next]_vars PROVE Reply'
<1>t. Types /\ Phases
  BY DEF Serving
<1> SUFFICES ASSUME server' = "reply", todo' # <<>>
             PROVE  \E r \in 1..Len(script'[curFd']) : Replying(r)'
  BY DEF Reply
<1>1. CASE Drained
  BY <1>1, DrainedReply
<1>2. CASE SendTakes
  BY <1>2, <1>t, SentReply
<1>3. CASE SendFails \/ OtherOp
  <2>1. /\ server = "reply" /\ todo # <<>> /\ todo' = Tail(todo)
        /\ UNCHANGED <<script, curFd, read, out, left>>
    BY <1>3 DEF SendFails, OtherOp, NextOp, clientVars
  <2>2. PICK r \in 1..Len(script[curFd]) : Replying(r)
    BY <2>1 DEF Reply
  <2>3. curFd \in Slow \/ left[curFd] # "no" \/ todo[1].cells = <<>>
    <3>1. CASE SendFails
      BY <3>1 DEF SendFails
    <3>2. CASE OtherOp
      <4>1. 1 \in 1..Len(todo)
        <5>1. todo \in Seq(Op)
          BY <1>t DEF Types
        <5> QED
          BY <2>1, <5>1
      <4>2. OpFits(todo[1], SeenKind(curFd, r))
        BY <2>2, <4>1 DEF Replying, Answer, CallFits
      <4> QED
        BY <3>2, <4>2 DEF OtherOp, OpFits
    <3> QED
      BY <1>3, <3>1, <3>2
  <2>4. Replying(r)'
    BY <1>t, <2>1, <2>2, <2>3, SeenKept, SkippedReply
  <2> QED
    BY <2>1, <2>4
<1>4. CASE UNCHANGED <<server, todo, curFd, read, out, script>>
  <2>1. PICK r \in 1..Len(script[curFd]) : Replying(r)
    BY <1>4 DEF Reply
  <2>2. curFd \in Clients
    BY <1>4, <1>t DEF Phases
  <2>3. left'[curFd] = "no" => left[curFd] = "no"
    BY <1>t, <2>2, StillThere
  <2>4. Replying(r)'
    BY <1>4, <1>t, <2>1, <2>3, SeenKept DEF Replying
  <2> QED
    BY <1>4, <2>4
<1>5. \/ Drained \/ SendTakes \/ SendFails \/ OtherOp \/ server' # "reply"
      \/ UNCHANGED <<server, todo, curFd, read, out, script>>
  BY DEF Next, ServerStep, ClientStep, EpollWait, EndOfBatch, AcceptConn, AcceptFails,
         RecvHttpRequest,
         Received, Disconnect, ReplyDone, Connect, Send, Return, Leave, Read, vars,
         serverVars, localVars, clientVars
<1> QED
  BY <1>1, <1>2, <1>3, <1>4, <1>5

-----------------------------------------------------------------------------
(* What ends the server. *)

LEMMA KindRange == ASSUME NEW q PROVE RequestKind(q) \in Kinds \cup {"missing"}
BY WebServerAssumption DEF RequestKind, stat

(* The call being made says what was found. *)
LEMMA CurrentCall ==
  ASSUME Serving, Reply, server = "reply", todo # <<>>
  PROVE  \E r \in 1..Len(script[curFd]) :
           /\ script[curFd][r].method = "GET" /\ LineSent(curFd, r)
           /\ OpFits(todo[1], SeenKind(curFd, r))
<1>1. PICK r \in 1..Len(script[curFd]) : Replying(r)
  BY DEF Reply
<1>2. curFd \in Clients /\ todo \in Seq(Op)
  BY DEF Serving, Phases, Types
<1>3. 1 \in 1..Len(todo)
  BY <1>2
<1>4. OpFits(todo[1], SeenKind(curFd, r))
  BY <1>1, <1>3 DEF Replying, Answer, CallFits
<1>5. LineSent(curFd, r)
  <2>1. PICK x \in Nat, y \in Nat : x = read[curFd] /\ y = sent[curFd]
    BY <1>2 DEF Serving, Types
  <2>2. x <= y
    BY <1>2, <2>1 DEF Serving, Counts
  <2>3. 3 * r - 1 <= x /\ r \in Int
    BY <1>1, <2>1 DEF Replying
  <2> QED
    BY <2>1, <2>2, <2>3 DEF LineSent
<1> QED
  BY <1>1, <1>4, <1>5 DEF Replying

LEMMA NextEnded ==
  ASSUME Serving, Reply, Ended, [Next]_vars PROVE Ended'
<1> SUFFICES ASSUME ~Running' PROVE Ended'
  BY DEF Ended
<1>1. CASE ~Running
  <2>1. UNCHANGED vars
    BY <1>1 DEF Running, Next, ServerStep, ClientStep, EpollWait, EndOfBatch, AcceptConn,
           AcceptFails, RecvHttpRequest, Received, Drained, Disconnect, SendTakes, SendFails,
           OtherOp, ReplyDone, Connect, Send, Leave, Read
  <2>2. Arrived' = Arrived /\ CanOpen' = CanOpen
    BY <2>1 DEF Arrived, CanOpen, vars, serverVars
  <2> QED
    BY <1>1, <2>1, <2>2
       DEF Ended, Running, Found, LineSent, Kind, vars, serverVars, localVars, clientVars
<1>2. CASE Running /\ AcceptFails
  <2>1. Arrived /\ UNCHANGED <<curFd, conn>> /\ curFd = NoClient
    BY <1>2 DEF AcceptFails, Serving, Handled, Phases, localVars
  <2> QED
    BY <2>1 DEF Ended, Arrived
<1>3. CASE Running /\ ~AcceptFails
  <2>1. (SendFails \/ OtherOp) /\ server = "reply" /\ todo # <<>>
    BY <1>3 DEF Running, Next, ServerStep, ClientStep, EpollWait, EndOfBatch, AcceptConn,
           RecvHttpRequest, Received, Drained, Disconnect, Return, SendTakes, SendFails, OtherOp,
           NextOp, ReplyDone, Connect, Send, Leave, Read, vars, serverVars, localVars
  <2>2. PICK r \in 1..Len(script[curFd]) :
          /\ script[curFd][r].method = "GET" /\ LineSent(curFd, r)
          /\ OpFits(todo[1], SeenKind(curFd, r))
    BY <2>1, CurrentCall
  <2>3. UNCHANGED <<script, curFd, sent, left, room, conn, fdLimit>>
    <3>1. UNCHANGED fdLimit
      BY DEF Next, ServerStep, ClientStep, Connect, Send, Leave, Read, vars, serverVars
    <3> QED
      BY <2>1, <3>1 DEF SendFails, OtherOp, clientVars
  <2>c. CanOpen' = CanOpen
    BY <2>3 DEF CanOpen
  <2>n. curFd' # NoClient
    BY <2>1, <2>3, WebServerAssumption DEF Serving, Phases
  <2>4. PICK kind \in {"file", "lockedFile", "dir", "dangling", "lockedDir", "missing"} :
          kind = Kind(curFd, r)
    BY KindRange DEF Kind, Kinds
  <2>s. OpFits(todo[1], Seen(kind, CanOpen))
    BY <2>2, <2>4 DEF SeenKind
  <2>f. ASSUME NEW kinds, kind \in kinds PROVE Found(kinds)'
    BY <2>2, <2>3, <2>4, <2>f DEF Found, LineSent, Kind
  <2>5. CASE OtherOp
    <3>1. Seen(kind, CanOpen) \in {"dangling", "lockedDir", "missing"}
      <4>1. Seen(kind, CanOpen)
              \in {"file", "lockedFile", "dir", "dangling", "lockedDir", "missing"}
        BY DEF Seen
      <4> QED
        BY <2>s, <2>5, <4>1 DEF OtherOp, OpFits
    <3>2. kind \in {"dangling", "lockedDir", "missing"} \/ (kind = "dir" /\ ~CanOpen)
      BY <3>1 DEF Seen
    <3>3. \/ Found({"dangling", "lockedDir", "missing"})'
          \/ (Found({"dir"})' /\ ~CanOpen')
      BY <2>c, <2>f, <3>2
    <3> QED
      BY <2>n, <3>3 DEF Ended
  <2>6. CASE SendFails /\ left[curFd] = "rst"
    BY <2>3, <2>6, <2>n DEF Ended
  <2>7. CASE SendFails /\ left[curFd] # "rst"
    <3>1. curFd \in Slow /\ room[curFd] = 0 /\ todo[1].op = "sendCheck"
      BY <1>3, <2>1, <2>7 DEF SendFails, Checks, NextOp, Running
    <3>2. kind \in {"dir", "dangling", "lockedDir", "missing"}
      BY <2>s, <3>1 DEF OpFits, Seen
    <3>3. Found({"dangling", "lockedDir", "missing"})' \/ Found({"dir"})'
      BY <2>f, <3>2
    <3> QED
      BY <2>3, <2>n, <3>1, <3>3 DEF Ended
  <2> QED
    BY <2>1, <2>5, <2>6, <2>7
<1> QED
  BY <1>1, <1>2, <1>3

-----------------------------------------------------------------------------
(* The invariant holds. *)

LEMMA InitIInv == Init => IInv
<1> SUFFICES ASSUME Init PROVE IInv
  OBVIOUS
<1>1. Types
  BY InitTypes
<1>2. NoClient \notin Clients
  BY WebServerAssumption
<1>3. Phases
  BY DEF Init, Phases
<1>4. Counts
  <2>1. ASSUME NEW c \in Clients PROVE Len(script[c]) \in Nat
    <3>1. script[c] \in Seq(Requests)
      BY <1>1, WebServerAssumption DEF Types
    <3> QED
      BY <3>1
  <2> QED
    BY <2>1 DEF Init, Counts
<1>5. BufInv
  <2>1. PICK e \in Seq(Nat) : e = <<>>
    BY EmptySeq
  <2>2. Len(buf) = 0 /\ total = 0 /\ server = "wait"
    BY DEF Init
  <2> QED
    BY <2>2, Sizes DEF BufInv
<1>h. Handled
  BY <1>2 DEF Init, Handled
<1>6. EdgeNotLost
  BY DEF Init, EdgeNotLost
<1>7. \A c \in Clients : out[c] = <<>> /\ Len(out[c]) = 0
  BY DEF Init
<1>8. Past /\ NoGaps
  BY <1>7 DEF Past, NoGaps, InOrder, GapFree
<1>9. Reply /\ Ended
  BY DEF Init, Reply, Ended, Running
<1> QED
  BY <1>1, <1>3, <1>h, <1>4, <1>5, <1>6, <1>8, <1>9 DEF IInv, Serving

LEMMA NextIInv == IInv /\ [Next]_vars => IInv'
<1> SUFFICES ASSUME IInv, [Next]_vars PROVE IInv'
  OBVIOUS
<1>1. Serving /\ Past /\ NoGaps /\ Reply /\ Ended
  BY DEF IInv
<1>2. Types /\ Phases /\ Handled /\ Counts /\ BufInv /\ EdgeNotLost
  BY <1>1 DEF Serving
<1>3. Serving'
  BY <1>2, NextTypes, NextPhases, NextHandled, NextCounts, NextBufInv, NextEdges DEF Serving
<1>4. Past' /\ NoGaps' /\ Reply' /\ Ended'
  BY <1>1, NextPast, NextNoGaps, NextReply, NextEnded
<1> QED
  BY <1>3, <1>4 DEF IInv

(* Between two steps of the server, and whatever the clients do, what was  *)
(* sent and the calls still to be made answer whole request lines in their *)
(* order, and only a call that ERROR_CHECK follows, exit, free of an       *)
(* uninitialized pointer or a signal ends the server (epollRun, recvHttpRequest, parseRequestLine, sendFile,      *)
(* sendDir).                                                               *)
THEOREM Inductive == Spec => []IInv
<1>1. Init => IInv
  BY InitIInv
<1>2. IInv /\ [Next]_vars => IInv'
  BY NextIInv
<1> QED
  BY <1>1, <1>2, PTL DEF Spec

-----------------------------------------------------------------------------
(* What follows from it. *)

LEMMA InvReceivesAll == IInv => ReceivesAll
<1> SUFFICES ASSUME IInv PROVE ReceivesAll
  OBVIOUS
<1>1. Types /\ BufInv /\ EdgeNotLost
  BY DEF IInv, Serving
<1>2. \A i \in 1..Len(todo) : todo[i].op \in Ops
  <2>1. todo \in Seq(Op)
    BY <1>1 DEF Types
  <2>2. \A a \in Op : a.op \in Ops
    BY DEF Op
  <2> QED
    BY <2>1, <2>2
<1>3. ASSUME NEW c \in Clients, NEW i \in 1..Len(out[c]) PROVE IsUnit(out[c][i])
  <2>1. out[c] \in Seq(Unit)
    BY <1>1 DEF Types
  <2>2. out[c][i] \in Unit
    BY <2>1
  <2> QED
    BY <2>2 DEF Unit
<1>4. TypeOK
  BY <1>1, <1>2, <1>3 DEF Types, TypeOK
<1>5. BufIsPrefix
  BY <1>1 DEF BufInv, BufIsPrefix
<1> QED
  BY <1>1, <1>4, <1>5 DEF ReceivesAll

(* However much arrives, and whenever: nothing an open connection has to   *)
(* tell is forgotten by the edge-triggered epoll, and buf keeps its zero   *)
(* and holds what came first in this event (recvHttpRequest lines 107-135).*)
THEOREM NothingIsMissed == Spec => []ReceivesAll
BY Inductive, InvReceivesAll, PTL

LEMMA FollowsLater ==
  ASSUME NEW u \in Unit, NEW v \in Unit, Follows(u, v)
  PROVE  u # v /\ u[1] <= v[1]
<1>1. PICK a \in Nat, b \in Nat : a = Rank(u) /\ b = Rank(v)
  BY RankType
<1>2. u[1] \in Nat /\ v[1] \in Nat
  BY DEF Unit
<1>3. u = v => a = b
  BY <1>1
<1> QED
  BY <1>1, <1>2, <1>3 DEF Follows

LEMMA InvAnswersRequested == IInv => AnswersRequested
<1> SUFFICES ASSUME IInv PROVE AnswersRequested
  OBVIOUS
<1>1. Types /\ Phases /\ Counts /\ Past /\ NoGaps
  BY DEF IInv, Serving
<1>2. ASSUME NEW c \in Clients, NEW i \in 1..Len(out[c]) PROVE LineSent(c, out[c][i][1])
  <2>1. PICK u \in Unit : u = out[c][i]
    <3>1. out[c] \in Seq(Unit)
      BY <1>1 DEF Types
    <3> QED
      BY <3>1
  <2>2. PICK r \in Nat : r = u[1]
    BY DEF Unit
  <2>3. PICK x \in Nat, y \in Nat, z \in Nat : x = read[c] /\ y = sent[c] /\ z = total
    BY <1>1 DEF Types
  <2>4. x <= y
    BY <1>1, <2>3 DEF Counts
  <2>5. 3 * r - 1 <= Before(c)
    BY <1>1, <2>1, <2>2 DEF Past
  <2>6. Before(c) = x \/ Before(c) = x - z
    BY <2>3 DEF Before
  <2>7. 3 * r - 1 <= y
    BY <2>4, <2>5, <2>6
  <2> QED
    BY <2>1, <2>2, <2>3, <2>7 DEF LineSent
<1>3. ASSUME NEW c \in Clients, NEW i \in 1..Len(out[c]), NEW j \in 1..Len(out[c]), i < j
      PROVE  out[c][i] # out[c][j] /\ out[c][i][1] <= out[c][j][1]
  <2>1. out[c] \in Seq(Unit)
    BY <1>1 DEF Types
  <2>2. out[c][i] \in Unit /\ out[c][j] \in Unit
    BY <2>1
  <2>3. Follows(out[c][i], out[c][j])
    BY <1>1, <1>3 DEF Past, InOrder
  <2> QED
    BY <2>2, <2>3, FollowsLater
<1>4. ASSUME NEW c \in Clients, c \notin Slow PROVE WithoutGap(c)
  <2> SUFFICES ASSUME NEW i \in 1..Len(out[c]), left[c] = "no",
                      out[c][i][2] = "body", out[c][i][3] > 1
               PROVE  i > 1 /\ out[c][i - 1] = <<out[c][i][1], "body", out[c][i][3] - 1>>
    BY DEF WithoutGap
  <2>1. GapFree(out[c])
    BY <1>1, <1>4 DEF NoGaps
  <2>2. ~Starts(out[c][i])
    BY DEF Starts
  <2> QED
    BY <2>1, <2>2 DEF GapFree, Continues
<1> QED
  BY <1>2, <1>3, <1>4 DEF AnswersRequested

(* A unit is sent to a client at most once, in the order of its requests,  *)
(* and only for a request whose whole line the client has sent, wherever   *)
(* the events cut the stream, and a client that reads as fast as it is     *)
(* sent to gets a file without a gap, although the result of send is not   *)
(* looked at (recvHttpRequest, parseRequestLine, sendFile line 261).       *)
THEOREM AnswersAreRequested == Spec => []AnswersRequested
BY Inductive, InvAnswersRequested, PTL

-----------------------------------------------------------------------------
(* What decodeMsg computes.  The loop overwrites the buffer it reads, never *)
(* in front of the place it reads from, so that each turn still finds the  *)
(* path from there on; the places where a turn begins are those outside of *)
(* the escapes of the path, and one more of them has been read with every  *)
(* byte that was written.                                                  *)

(* A path as the loop reads it. *)
Text == Seq(1..255)

LEMMA TextBytes == ASSUME NEW s \in Text, NEW k \in 1..Len(s) PROVE s[k] \in 0..255 /\ s[k] # 0
<1>1. PICK v \in 1..255 : v = s[k]
  BY ElementOfSeq DEF Text
<1>2. v \in 0..255 /\ v # 0
  OBVIOUS
<1> QED
  BY <1>1, <1>2

(* The value that the code gives to a digit is the digit's. *)
LEMMA DigitsAgree ==
  ASSUME NEW ch \in 0..255, isxdigit(ch)
  PROVE  hexit(ch) \in 0..15 /\ DigitValue(ch) = hexit(ch)
<1>1. PICK h \in 0..15 : /\ h = hexit(ch)
                         /\ h < 10 => ch = 48 + h
                         /\ h >= 10 => ch = 55 + h \/ ch = 87 + h
  <2>1. CASE ch \in 48..57
    <3>1. hexit(ch) = ch - 48
      BY <2>1 DEF hexit
    <3> QED
      BY <2>1, <3>1
  <2>2. CASE ch \in 65..70
    <3>1. ch \notin 48..57 /\ ch \notin 97..102
      BY <2>2
    <3>2. hexit(ch) = ch - 65 + 10
      BY <2>2, <3>1 DEF hexit
    <3> QED
      BY <2>2, <3>2
  <2>3. CASE ch \in 97..102
    <3>1. ch \notin 48..57 /\ ch \notin 65..70
      BY <2>3
    <3>2. hexit(ch) = ch - 97 + 10
      BY <2>3, <3>1 DEF hexit
    <3> QED
      BY <2>3, <3>2
  <2> QED
    BY <2>1, <2>2, <2>3 DEF isxdigit
<1>2. \A d \in 0..15 : (ch \in IF d < 10 THEN {48 + d} ELSE {55 + d, 87 + d}) <=> d = h
  <2> SUFFICES ASSUME NEW d \in 0..15
               PROVE  (ch \in IF d < 10 THEN {48 + d} ELSE {55 + d, 87 + d}) <=> d = h
    OBVIOUS
  <2>1. ch \in 48..57 \/ ch \in 65..70 \/ ch \in 97..102
    BY DEF isxdigit
  <2>2. CASE d < 10
    BY <1>1, <2>1, <2>2
  <2>3. CASE d >= 10
    BY <1>1, <2>1, <2>3
  <2> QED
    BY <2>2, <2>3
<1>3. DigitValue(ch) = h
  BY <1>1, <1>2 DEF DigitValue
<1> QED
  BY <1>1, <1>3

LEMMA NoDigits == ~isxdigit(Percent) /\ ~isxdigit(0)
BY DEF isxdigit, Percent

(* From the place of the loop on, the buffer still holds the path, so the  *)
(* test finds the escapes of the path.                                     *)
LEMMA EscapeIsTested ==
  ASSUME NEW s \in Text, NEW L \in Nat, L = Len(s), NEW b \in Seq(0..255), NEW k \in 1..L,
         \A j \in k..L : b[j] = s[j], b[L + 1] = 0
  PROVE  AtEscape(b, k) <=> IsEscape(s, k)
<1>1. CASE k = L
  <2>1. b[k + 1] = 0 /\ k \notin 1..Len(s) - 2
    BY <1>1
  <2> QED
    BY <2>1, NoDigits DEF AtEscape, IsEscape
<1>2. CASE k = L - 1
  <2>1. b[k + 2] = 0 /\ k \notin 1..Len(s) - 2
    <3>1. k + 2 = L + 1
      BY <1>2
    <3> QED
      BY <1>2, <3>1
  <2> QED
    BY <2>1, NoDigits DEF AtEscape, IsEscape
<1>3. CASE k <= L - 2
  <2>1. b[k] = s[k] /\ b[k + 1] = s[k + 1] /\ b[k + 2] = s[k + 2]
    BY <1>3
  <2> QED
    BY <1>3, <2>1 DEF AtEscape, IsEscape
<1> QED
  BY <1>1, <1>2, <1>3

(* Escapes cannot overlap. *)
LEMMA EscapesApart ==
  ASSUME NEW s, NEW k \in Nat, IsEscape(s, k)
  PROVE  ~IsEscape(s, k + 1) /\ ~IsEscape(s, k + 2)
<1>1. isxdigit(s[k + 1]) /\ isxdigit(s[k + 2])
  BY DEF IsEscape
<1>2. s[k + 1] # Percent /\ s[k + 2] # Percent
  BY <1>1, NoDigits
<1> QED
  BY <1>2 DEF IsEscape

(* The next place outside of an escape. *)
LEMMA NextOutside ==
  ASSUME NEW s \in Text, NEW L \in Nat, L = Len(s), NEW k \in Outside(s), NEW n \in Nat,
         n = IF IsEscape(s, k) THEN k + 3 ELSE k + 1
  PROVE  /\ n \in Outside(s) \cup {L + 1}
         /\ OutsideBefore(s, n) = OutsideBefore(s, k) \cup {k}
<1>1. k \in 1..L /\ ~IsEscape(s, k - 1) /\ ~IsEscape(s, k - 2)
  BY DEF Outside
<1>2. CASE IsEscape(s, k)
  <2>1. n = k + 3 /\ n <= L + 1 /\ k + 1 \in 1..L /\ k + 2 \in 1..L
    BY <1>1, <1>2 DEF IsEscape
  <2>2. ~IsEscape(s, k + 1) /\ ~IsEscape(s, k + 2)
    BY <1>1, <1>2, EscapesApart
  <2>3. k + 1 \notin Outside(s) /\ k + 2 \notin Outside(s)
    <3>1. (k + 1) - 1 = k /\ (k + 2) - 2 = k
      BY <1>1
    <3> QED
      BY <1>2, <3>1 DEF Outside
  <2>4. n \in Outside(s) \cup {L + 1}
    <3>1. n - 1 = k + 2 /\ n - 2 = k + 1
      BY <1>1, <2>1
    <3> QED
      BY <1>1, <2>1, <2>2, <3>1 DEF Outside
  <2>5. \A j \in Outside(s) : j < n <=> j < k \/ j = k
    <3> SUFFICES ASSUME NEW j \in Outside(s) PROVE j < n <=> j < k \/ j = k
      OBVIOUS
    <3>1. j \in 1..L
      BY DEF Outside
    <3>2. j # k + 1 /\ j # k + 2
      BY <2>3
    <3> QED
      BY <1>1, <2>1, <3>1, <3>2
  <2> QED
    BY <2>4, <2>5 DEF OutsideBefore
<1>3. CASE ~IsEscape(s, k)
  <2>1. n = k + 1 /\ n - 1 = k /\ n - 2 = k - 1
    BY <1>1, <1>3
  <2>2. n \in Outside(s) \cup {L + 1}
    BY <1>1, <1>3, <2>1 DEF Outside
  <2>3. \A j \in Outside(s) : j < n <=> j < k \/ j = k
    BY <1>1, <2>1 DEF Outside
  <2> QED
    BY <2>2, <2>3 DEF OutsideBefore
<1> QED
  BY <1>2, <1>3

LEMMA OutsideFinite ==
  ASSUME NEW s \in Text
  PROVE  /\ IsFiniteSet(Outside(s)) /\ Cardinality(Outside(s)) \in Nat
         /\ \A k : IsFiniteSet(OutsideBefore(s, k)) /\ Cardinality(OutsideBefore(s, k)) \in Nat
<1>1. IsFiniteSet(1..Len(s))
  BY FS_Interval
<1>2. Outside(s) \in SUBSET (1..Len(s))
  BY DEF Outside
<1>3. IsFiniteSet(Outside(s))
  BY <1>1, <1>2, FS_Subset
<1>4. \A k : OutsideBefore(s, k) \in SUBSET Outside(s)
  BY DEF OutsideBefore
<1>5. \A k : IsFiniteSet(OutsideBefore(s, k))
  BY <1>3, <1>4, FS_Subset
<1> QED
  BY <1>3, <1>5, FS_CardinalityType

(* The places before differ in number from place to place. *)
LEMMA OneMoreBefore ==
  ASSUME NEW s \in Text, NEW k \in Outside(s), NEW m \in 1..Len(s) + 1, k < m
  PROVE  /\ Cardinality(OutsideBefore(s, k) \cup {k}) = Cardinality(OutsideBefore(s, k)) + 1
         /\ Cardinality(OutsideBefore(s, k)) < Cardinality(OutsideBefore(s, m))
         /\ Cardinality(OutsideBefore(s, k)) < Cardinality(Outside(s))
<1>1. PICK S, T, U : S = OutsideBefore(s, k) /\ T = OutsideBefore(s, m) /\ U = Outside(s)
  OBVIOUS
<1>2. IsFiniteSet(S) /\ IsFiniteSet(T) /\ IsFiniteSet(U)
  BY <1>1, OutsideFinite
<1>3. PICK a \in Nat, b \in Nat, c \in Nat : a = Cardinality(S) /\ b = Cardinality(T) /\ c = Cardinality(U)
  BY <1>2, FS_CardinalityType
<1>4. k \in 1..Len(s)
  BY DEF Outside
<1>5. k \notin S
  BY <1>1, <1>4 DEF OutsideBefore
<1>6. Cardinality(S \cup {k}) = a + 1
  BY <1>2, <1>3, <1>5, FS_AddElement
<1>7. S \cup {k} \in SUBSET T
  <2>1. \A j \in Outside(s) : j < k => j < m
    BY <1>4 DEF Outside
  <2> QED
    BY <1>1, <2>1 DEF OutsideBefore
<1>8. S \cup {k} \in SUBSET U
  BY <1>1 DEF OutsideBefore
<1>9. a + 1 <= b
  BY <1>2, <1>3, <1>6, <1>7, FS_Subset
<1>10. a + 1 <= c
  BY <1>2, <1>3, <1>6, <1>8, FS_Subset
<1> QED
  BY <1>1, <1>3, <1>6, <1>9, <1>10

(* The byte that the n-th place stands for. *)
LEMMA NthByte ==
  ASSUME NEW s \in Text, NEW k \in Outside(s), NEW n \in Nat,
         Cardinality(OutsideBefore(s, k)) = n - 1
  PROVE  n \in 1..Cardinality(Outside(s)) /\ Meaning(s)[n] = ByteAt(s, k)
<1>1. k \in 1..Len(s)
  BY DEF Outside
<1>2. PICK c \in Nat : c = Cardinality(Outside(s))
  BY OutsideFinite
<1>3. n \in 1..c
  <2>1. PICK a \in Nat : a = Cardinality(OutsideBefore(s, k))
    BY OutsideFinite
  <2>2. k < Len(s) + 1 /\ Len(s) + 1 \in 1..Len(s) + 1
    BY <1>1
  <2>3. a < c
    BY <1>2, <2>1, <2>2, OneMoreBefore
  <2> QED
    BY <2>1, <2>3
<1>4. \A m \in Outside(s) : Cardinality(OutsideBefore(s, m)) = n - 1 => m = k
  <2> SUFFICES ASSUME NEW m \in Outside(s), Cardinality(OutsideBefore(s, m)) = n - 1, m # k
               PROVE  FALSE
    OBVIOUS
  <2>1. m \in 1..Len(s)
    BY DEF Outside
  <2>2. PICK a \in Nat : a = Cardinality(OutsideBefore(s, k))
    BY OutsideFinite
  <2>3. CASE m < k
    <3>1. k \in 1..Len(s) + 1
      BY <1>1
    <3>2. Cardinality(OutsideBefore(s, m)) < Cardinality(OutsideBefore(s, k))
      BY <2>3, <3>1, OneMoreBefore
    <3> QED
      BY <2>2, <3>2
  <2>4. CASE k < m
    <3>1. m \in 1..Len(s) + 1
      BY <2>1
    <3>2. Cardinality(OutsideBefore(s, k)) < Cardinality(OutsideBefore(s, m))
      BY <2>4, <3>1, OneMoreBefore
    <3> QED
      BY <2>2, <3>2
  <2> QED
    BY <1>1, <2>1, <2>3, <2>4
<1>5. NthOutside(s, n) = k
  BY <1>4 DEF NthOutside
<1>6. Meaning(s)[n] = ByteAt(s, NthOutside(s, n))
  BY <1>2, <1>3 DEF Meaning
<1> QED
  BY <1>2, <1>3, <1>5, <1>6

-----------------------------------------------------------------------------
(* What a turn that finds the loop at x relies on: the text that is to be  *)
(* read is untouched, and what is written means the text that was read.    *)
InLoop(s, x) ==
  /\ x \in DecodeState /\ Len(x.buf) = Len(s) + 1
  /\ x.to \in 1..x.from /\ x.from \in Outside(s) \cup {Len(s) + 1}
  /\ Cardinality(OutsideBefore(s, x.from)) = x.to - 1
  /\ \A j \in x.from..Len(s) : x.buf[j] = s[j]
  /\ x.buf[Len(s) + 1] = 0
  /\ \A n \in 1..x.to - 1 : x.buf[n] = Meaning(s)[n]

(* After i turns the loop has read i characters or has come to its end.    *)
Turned(s, x, i) == x.from > i \/ (x.from = Len(s) + 1 /\ x.buf[x.to] = 0)

(* The loop begins and each turn goes on as the next one relies on. *)
LEMMA LoopBegins ==
  ASSUME NEW s \in Text, NEW x, x = [buf |-> Append(s, 0), to |-> 1, from |-> 1]
  PROVE  InLoop(s, x) /\ Turned(s, x, 0)
<1>1. PICK L \in Nat : L = Len(s)
  BY DEF Text
<1>2. s \in Seq(0..255)
  BY DEF Text
<1>3. PICK b \in Seq(0..255) : b = Append(s, 0)
  <2>1. PICK S : S = 0..255
    OBVIOUS
  <2>2. s \in Seq(S) /\ 0 \in S
    BY <1>2, <2>1
  <2>3. Append(s, 0) \in Seq(S)
    BY <2>2, AppendProperties
  <2> QED
    BY <2>1, <2>3
<1>4. Len(b) = L + 1 /\ b[L + 1] = 0 /\ \A j \in 1..L : b[j] = s[j]
  BY <1>1, <1>2, <1>3, AppendProperties
<1>5. x.buf = b /\ x.to = 1 /\ x.from = 1 /\ x \in DecodeState
  BY <1>3 DEF DecodeState
<1>6. 1 \in Outside(s) \cup {L + 1}
  <2>1. ~IsEscape(s, 1 - 1) /\ ~IsEscape(s, 1 - 2)
    BY <1>1 DEF IsEscape
  <2> QED
    BY <1>1, <2>1 DEF Outside
<1>7. OutsideBefore(s, 1) = {}
  BY <1>1 DEF Outside, OutsideBefore
<1>8. Cardinality(OutsideBefore(s, 1)) = 0
  BY <1>7, FS_EmptySet
<1> QED
  BY <1>1, <1>4, <1>5, <1>6, <1>8 DEF InLoop, Turned

(* What a turn writes and where it goes on. *)
LEMMA TurnWrites ==
  ASSUME NEW s \in Text, NEW L \in Nat, L = Len(s), NEW x, InLoop(s, x), NEW k \in 1..L, k = x.from
  PROVE  LET n == IF IsEscape(s, k) THEN k + 3 ELSE k + 1 IN
         /\ ByteAt(s, k) \in 0..255
         /\ DecodeTurn[x] = [buf |-> [x.buf EXCEPT ![x.to] = ByteAt(s, k)],
                             to |-> x.to + 1, from |-> n]
<1>1. PICK b \in Seq(0..255) : b = x.buf
  BY DEF InLoop, DecodeState
<1>2. (\A j \in k..L : b[j] = s[j]) /\ b[L + 1] = 0
  BY <1>1 DEF InLoop
<1>3. AtEscape(b, k) <=> IsEscape(s, k)
  BY <1>2, EscapeIsTested
<1>4. b[k] = s[k] /\ b[k] # 0 /\ s[k] \in 0..255
  <2>1. s[k] \in 0..255 /\ s[k] # 0
    BY TextBytes
  <2>2. b[k] = s[k]
    BY <1>2
  <2> QED
    BY <2>1, <2>2
<1>5. x \in DecodeState
  BY DEF InLoop, DecodeState
<1>6. CASE IsEscape(s, k)
  <2>1. b[k + 1] = s[k + 1] /\ b[k + 2] = s[k + 2] /\ s[k + 1] \in 0..255 /\ s[k + 2] \in 0..255
    <3>1. k + 1 \in k..L /\ k + 2 \in k..L /\ k + 1 \in 1..Len(s) /\ k + 2 \in 1..Len(s)
      BY <1>6 DEF IsEscape
    <3>2. s[k + 1] \in 0..255 /\ s[k + 2] \in 0..255
      BY <3>1, TextBytes
    <3>3. b[k + 1] = s[k + 1] /\ b[k + 2] = s[k + 2]
      BY <1>2, <3>1
    <3> QED
      BY <3>2, <3>3
  <2>2. PICK c \in 0..255, d \in 0..255 : c = s[k + 1] /\ d = s[k + 2]
    BY <2>1
  <2>3. isxdigit(c) /\ isxdigit(d)
    BY <1>6, <2>2 DEF IsEscape
  <2>4. /\ hexit(c) \in 0..15 /\ DigitValue(c) = hexit(c)
        /\ hexit(d) \in 0..15 /\ DigitValue(d) = hexit(d)
    BY <2>3, DigitsAgree
  <2>5. ByteAt(s, k) = 16 * hexit(c) + hexit(d)
    BY <1>6, <2>2, <2>4 DEF ByteAt
  <2>6. ByteAt(s, k) \in 0..255
    <3>1. PICK h \in 0..15, g \in 0..15 : h = hexit(c) /\ g = hexit(d)
      BY <2>4
    <3>2. 16 * h + g \in 0..255
      OBVIOUS
    <3> QED
      BY <2>5, <3>1, <3>2
  <2>7. DecodeTurn[x] = [buf |-> [b EXCEPT ![x.to] = 16 * hexit(c) + hexit(d)],
                         to |-> x.to + 1, from |-> k + 3]
    BY <1>1, <1>3, <1>4, <1>5, <1>6, <2>1, <2>2 DEF DecodeTurn
  <2> QED
    BY <1>1, <1>6, <2>5, <2>6, <2>7
<1>7. CASE ~IsEscape(s, k)
  <2>1. ByteAt(s, k) = b[k]
    BY <1>4, <1>7 DEF ByteAt
  <2>2. DecodeTurn[x] = [buf |-> [b EXCEPT ![x.to] = b[k]], to |-> x.to + 1, from |-> k + 1]
    BY <1>1, <1>3, <1>4, <1>5, <1>7 DEF DecodeTurn
  <2> QED
    BY <1>1, <1>4, <1>7, <2>1, <2>2
<1> QED
  BY <1>6, <1>7

LEMMA TurnKeeps ==
  ASSUME NEW s \in Text, NEW x, InLoop(s, x), NEW i \in Nat, Turned(s, x, i)
  PROVE  InLoop(s, DecodeTurn[x]) /\ Turned(s, DecodeTurn[x], i + 1)
<1>1. PICK L \in Nat : L = Len(s)
  BY DEF Text
<1>2. PICK b \in Seq(0..255) : b = x.buf
  BY DEF InLoop, DecodeState
<1>3. PICK k \in Nat : k = x.from
  BY DEF InLoop, DecodeState
<1>4. PICK t \in Nat : t = x.to
  BY DEF InLoop, DecodeState
<1>5. /\ Len(b) = L + 1 /\ t \in 1..k /\ k \in Outside(s) \cup {L + 1}
      /\ Cardinality(OutsideBefore(s, k)) = t - 1
      /\ \A j \in k..L : b[j] = s[j]
      /\ b[L + 1] = 0
      /\ \A n \in 1..t - 1 : b[n] = Meaning(s)[n]
  BY <1>1, <1>2, <1>3, <1>4 DEF InLoop
<1>6. k \in 1..L + 1 /\ t \in 1..L + 1
  BY <1>1, <1>5 DEF Outside
<1>7. CASE k = L + 1
  <2>1. PICK c \in Seq(0..255) : c = [b EXCEPT ![t] = 0]
    <3>1. t \in 1..Len(b) /\ 0 \in 0..255
      BY <1>5, <1>6
    <3>2. [b EXCEPT ![t] = 0] \in Seq(0..255)
      BY <3>1, ExceptSeq
    <3> QED
      BY <3>2
  <2>2. Len(c) = L + 1 /\ c[t] = 0 /\ \A j \in 1..L + 1 : j # t => c[j] = b[j]
    BY <1>5, <1>6, <2>1, ExceptSeq
  <2>3. x \in DecodeState
    BY DEF InLoop, DecodeState
  <2>4. DecodeTurn[x] = [x EXCEPT !.buf = c]
    BY <1>2, <1>3, <1>4, <1>5, <1>7, <2>1, <2>3 DEF DecodeTurn
  <2>5. PICK y : y = DecodeTurn[x]
    OBVIOUS
  <2>6. y \in DecodeState /\ y.buf = c /\ y.to = t /\ y.from = k
    BY <1>3, <1>4, <2>3, <2>4, <2>5 DEF DecodeState
  <2>7. c[L + 1] = 0 /\ \A n \in 1..t - 1 : c[n] = Meaning(s)[n]
    <3>1. c[L + 1] = 0
      BY <1>5, <2>2
    <3>2. ASSUME NEW n \in 1..t - 1 PROVE c[n] = Meaning(s)[n]
      <4>1. n \in 1..L + 1 /\ n # t
        BY <1>6
      <4> QED
        BY <1>5, <2>2, <4>1
    <3> QED
      BY <3>1, <3>2
  <2>8. InLoop(s, y)
    BY <1>1, <1>5, <1>7, <2>2, <2>6, <2>7 DEF InLoop
  <2>9. Turned(s, y, i + 1)
    BY <1>1, <1>7, <2>2, <2>6 DEF Turned
  <2> QED
    BY <2>5, <2>8, <2>9
<1>8. CASE k \in 1..L
  <2>1. PICK n \in Nat : n = IF IsEscape(s, k) THEN k + 3 ELSE k + 1
    OBVIOUS
  <2>2. PICK v \in 0..255 : v = ByteAt(s, k)
    BY <1>1, <1>3, <1>8, TurnWrites
  <2>3. DecodeTurn[x] = [buf |-> [b EXCEPT ![t] = v], to |-> t + 1, from |-> n]
    BY <1>1, <1>2, <1>3, <1>4, <1>8, <2>1, <2>2, TurnWrites
  <2>4. PICK c \in Seq(0..255) : c = [b EXCEPT ![t] = v]
    BY <1>5, <1>6, ExceptSeq
  <2>5. Len(c) = L + 1 /\ c[t] = v /\ \A j \in 1..L + 1 : j # t => c[j] = b[j]
    BY <1>5, <1>6, <2>4, ExceptSeq
  <2>6. PICK y : y = DecodeTurn[x]
    OBVIOUS
  <2>7. y \in DecodeState /\ y.buf = c /\ y.to = t + 1 /\ y.from = n
    BY <2>3, <2>4, <2>6 DEF DecodeState
  <2>8. k \in Outside(s)
    BY <1>5, <1>8
  <2>9. n \in Outside(s) \cup {L + 1} /\ OutsideBefore(s, n) = OutsideBefore(s, k) \cup {k}
    BY ZenonT(60), <1>1, <2>1, <2>8, NextOutside
  <2>10. Cardinality(OutsideBefore(s, n)) = t
    <3>1. k < L + 1 /\ L + 1 \in 1..Len(s) + 1
      BY <1>1, <1>8
    <3>2. Cardinality(OutsideBefore(s, k) \cup {k}) = Cardinality(OutsideBefore(s, k)) + 1
      BY <2>8, <3>1, OneMoreBefore
    <3> QED
      BY <1>5, <2>9, <3>2
  <2>11. n > k
    BY <2>1
  <2>12. ASSUME NEW j \in n..L PROVE c[j] = s[j]
    <3>1. j \in 1..L + 1 /\ j # t /\ j \in k..L
      BY <1>5, <1>6, <2>11
    <3> QED
      BY <1>5, <2>5, <3>1
  <2>13. c[L + 1] = 0
    <3>1. L + 1 # t
      BY <1>5, <1>8
    <3> QED
      BY <1>5, <2>5, <3>1
  <2>14. ASSUME NEW m \in 1..t PROVE c[m] = Meaning(s)[m]
    <3>1. CASE m = t
      <4>1. Meaning(s)[t] = v
        BY <1>5, <2>2, <2>8, NthByte
      <4> QED
        BY <2>5, <3>1, <4>1
    <3>2. CASE m # t
      <4>1. m \in 1..t - 1 /\ m \in 1..L + 1
        BY <1>6, <3>2
      <4> QED
        BY <1>5, <2>5, <3>2, <4>1
    <3> QED
      BY <3>1, <3>2
  <2>15. t + 1 \in 1..n
    BY <1>5, <2>11
  <2>16. InLoop(s, y)
    <3>1. (t + 1) - 1 = t
      OBVIOUS
    <3> QED
      BY <1>1, <2>5, <2>7, <2>9, <2>10, <2>12, <2>13, <2>14, <2>15, <3>1 DEF InLoop
  <2>17. k > i
    BY <1>1, <1>3, <1>8 DEF Turned
  <2>18. Turned(s, y, i + 1)
    BY <2>7, <2>11, <2>17 DEF Turned
  <2> QED
    BY <2>6, <2>16, <2>18
<1> QED
  BY <1>6, <1>7, <1>8

(* A run of the loop, turn by turn. *)
IsRun(s, f, n) ==
  /\ f = [i \in 0..n |-> f[i]]
  /\ f[0] = [buf |-> Append(s, 0), to |-> 1, from |-> 1]
  /\ \A i \in 1..n : f[i] = DecodeTurn[f[i - 1]]

(* The recursive function exists: a run of every length does, because a   *)
(* shortest one that did not would be one turn longer than one that does.  *)
LEMMA RunExists == ASSUME NEW s, NEW n \in Nat PROVE \E f : IsRun(s, f, n)
<1>1. PICK B : B = {m \in Nat : ~\E f : IsRun(s, f, m)}
  OBVIOUS
<1> SUFFICES ASSUME B # {} PROVE FALSE
  BY <1>1
<1>2. PICK m \in B : \A k \in B : m <= k
  <2>1. B \in SUBSET Nat
    BY <1>1
  <2> QED
    BY <2>1, LeastOf
<1>3. m \in Nat /\ ~\E f : IsRun(s, f, m)
  BY <1>1
<1>4. PICK x : x = [buf |-> Append(s, 0), to |-> 1, from |-> 1]
  OBVIOUS
<1>5. CASE m = 0
  <2>1. PICK f : f = [i \in 0..m |-> x]
    OBVIOUS
  <2>2. 0 \in 0..m /\ 1..m = {}
    BY <1>5
  <2>3. f = [i \in 0..m |-> f[i]] /\ f[0] = x
    BY <2>1, <2>2
  <2> QED
    BY <1>3, <1>4, <2>2, <2>3 DEF IsRun
<1>6. CASE m # 0
  <2>1. PICK k \in Nat : k = m - 1
    BY <1>3, <1>6
  <2>2. ~(m <= k)
    BY <1>3, <2>1
  <2>3. k \notin B
    BY <1>2, <2>2
  <2>4. PICK g : IsRun(s, g, k)
    BY <1>1, <2>3
  <2>5. g[0] = x /\ \A i \in 1..k : g[i] = DecodeTurn[g[i - 1]]
    BY <1>4, <2>4 DEF IsRun
  <2>6. PICK f : f = [i \in 0..m |-> IF i = m THEN DecodeTurn[g[k]] ELSE g[i]]
    OBVIOUS
  <2>7. \A i \in 0..m : f[i] = IF i = m THEN DecodeTurn[g[k]] ELSE g[i]
    BY <2>6
  <2>8. f[0] = x
    <3>1. 0 \in 0..m
      BY <1>3
    <3> QED
      BY <1>6, <2>5, <2>7, <3>1
  <2>9. ASSUME NEW i \in 1..m PROVE f[i] = DecodeTurn[f[i - 1]]
    <3>1. i \in 0..m /\ i - 1 \in 0..m /\ i - 1 # m
      BY <1>3
    <3>2. f[i - 1] = g[i - 1]
      BY <2>7, <3>1
    <3>3. CASE i = m
      <4>1. i - 1 = k
        BY <2>1, <3>3
      <4> QED
        BY <2>7, <3>1, <3>2, <3>3, <4>1
    <3>4. CASE i # m
      <4>1. i \in 1..k
        BY <1>3, <2>1, <3>4
      <4> QED
        BY <2>5, <2>7, <3>1, <3>2, <3>4, <4>1
    <3> QED
      BY <3>3, <3>4
  <2>10. f = [i \in 0..m |-> f[i]]
    BY <2>6
  <2> QED
    BY <1>3, <1>4, <2>8, <2>9, <2>10 DEF IsRun
<1> QED
  BY <1>5, <1>6

LEMMA LoopIsRun ==
  ASSUME NEW s, Len(s) \in Nat PROVE IsRun(s, DecodeLoop(s), Len(s) + 1)
<1>1. PICK n \in Nat : n = Len(s) + 1
  OBVIOUS
<1>2. PICK x : x = [buf |-> Append(s, 0), to |-> 1, from |-> 1]
  OBVIOUS
<1>3. DecodeLoop(s) = CHOOSE at : at = [i \in 0..n |-> IF i = 0 THEN x ELSE DecodeTurn[at[i - 1]]]
  BY <1>1, <1>2 DEF DecodeLoop
<1>4. PICK f : IsRun(s, f, n)
  BY RunExists
<1>5. \A i \in 0..n : f[i] = IF i = 0 THEN x ELSE DecodeTurn[f[i - 1]]
  <2>1. \A i \in 0..n : i = 0 \/ i \in 1..n
    OBVIOUS
  <2> QED
    BY <1>2, <1>4, <2>1 DEF IsRun
<1>6. f = [i \in 0..n |-> IF i = 0 THEN x ELSE DecodeTurn[f[i - 1]]]
  <2>1. f = [i \in 0..n |-> f[i]]
    BY <1>4 DEF IsRun
  <2> QED
    BY <1>5, <2>1
<1>7. PICK at : /\ at = DecodeLoop(s)
                /\ at = [i \in 0..n |-> IF i = 0 THEN x ELSE DecodeTurn[at[i - 1]]]
  BY <1>3, <1>6, Zenon
<1>8. \A i \in 0..n : at[i] = IF i = 0 THEN x ELSE DecodeTurn[at[i - 1]]
  BY <1>7
<1>9. at = [i \in 0..n |-> at[i]]
  BY <1>7
<1>10. at[0] = x
  <2>1. 0 \in 0..n
    OBVIOUS
  <2> QED
    BY <1>8, <2>1
<1>11. ASSUME NEW i \in 1..n PROVE at[i] = DecodeTurn[at[i - 1]]
  <2>1. i \in 0..n /\ i # 0
    OBVIOUS
  <2> QED
    BY <1>8, <2>1
<1> QED
  BY <1>1, <1>2, <1>7, <1>9, <1>10, <1>11 DEF IsRun

LEMMA RunIsInLoop ==
  ASSUME NEW s \in Text, NEW n \in Nat, NEW f, IsRun(s, f, n)
  PROVE  InLoop(s, f[n]) /\ Turned(s, f[n], n)
<1>1. PICK B : B = {i \in 0..n : ~(InLoop(s, f[i]) /\ Turned(s, f[i], i))}
  OBVIOUS
<1>2. CASE B = {}
  <2>1. n \in 0..n
    OBVIOUS
  <2> QED
    BY <1>1, <1>2, <2>1
<1>3. CASE B # {}
  <2>1. PICK m \in B : \A k \in B : m <= k
    <3>1. B \in SUBSET Nat
      BY <1>1
    <3> QED
      BY <1>3, <3>1, LeastOf
  <2>2. m \in 0..n /\ ~(InLoop(s, f[m]) /\ Turned(s, f[m], m))
    BY <1>1
  <2>3. m # 0
    BY <2>2, LoopBegins DEF IsRun
  <2>4. PICK k \in Nat : k = m - 1
    BY <2>2, <2>3
  <2>5. k \in 0..n /\ ~(m <= k) /\ m \in 1..n /\ k + 1 = m
    BY <2>2, <2>3, <2>4
  <2>6. InLoop(s, f[k]) /\ Turned(s, f[k], k)
    BY <1>1, <2>1, <2>5
  <2>7. f[m] = DecodeTurn[f[k]]
    BY <2>4, <2>5 DEF IsRun
  <2>8. InLoop(s, f[m]) /\ Turned(s, f[m], k + 1)
    BY <2>6, <2>7, TurnKeeps
  <2> QED
    BY <2>2, <2>5, <2>8
<1> QED
  BY <1>2, <1>3

(* decodeMsg leaves the meaning of the path in the buffer, and a zero      *)
(* behind it.                                                              *)
LEMMA Decoded ==
  ASSUME NEW s \in Text
  PROVE  /\ decodeMsg(s) \in Seq(0..255) /\ Meaning(s) \in Seq(0..255)
         /\ Len(Meaning(s)) < Len(decodeMsg(s)) /\ decodeMsg(s)[Len(Meaning(s)) + 1] = 0
         /\ \A n \in 1..Len(Meaning(s)) : decodeMsg(s)[n] = Meaning(s)[n]
<1>1. PICK L \in Nat : L = Len(s)
  BY DEF Text
<1>2. PICK f : f = DecodeLoop(s)
  OBVIOUS
<1>3. IsRun(s, f, L + 1)
  BY <1>1, <1>2, LoopIsRun
<1>4. PICK x : x = f[L + 1]
  OBVIOUS
<1>5. InLoop(s, x) /\ Turned(s, x, L + 1)
  BY <1>3, <1>4, RunIsInLoop
<1>6. PICK b \in Seq(0..255) : b = x.buf
  BY <1>5 DEF InLoop, DecodeState
<1>7. decodeMsg(s) = b
  BY <1>1, <1>2, <1>4, <1>6 DEF decodeMsg
<1>8. x.from \in 1..L + 1
  BY <1>1, <1>5 DEF InLoop, Outside
<1>9. x.from = L + 1 /\ b[x.to] = 0
  BY <1>1, <1>5, <1>6, <1>8 DEF Turned
<1>10. OutsideBefore(s, L + 1) = Outside(s)
  BY <1>1 DEF OutsideBefore, Outside
<1>11. PICK c \in Nat : c = Cardinality(Outside(s))
  BY OutsideFinite
<1>12. x.to \in Nat /\ c = x.to - 1 /\ x.to <= L + 1
  BY <1>5, <1>9, <1>10, <1>11 DEF InLoop
<1>13. Len(b) = L + 1 /\ c < Len(b) /\ b[c + 1] = 0
  <2>1. Len(b) = L + 1
    BY <1>1, <1>5, <1>6 DEF InLoop
  <2>2. c + 1 = x.to
    BY <1>12
  <2> QED
    BY <1>9, <1>12, <2>1, <2>2
<1>14. PICK m : m = Meaning(s)
  OBVIOUS
<1>15. m = [n \in 1..c |-> m[n]]
  BY <1>11, <1>14 DEF Meaning
<1>16. \A n \in 1..c : b[n] = m[n]
  BY <1>5, <1>6, <1>12, <1>14 DEF InLoop
<1>17. \A n \in 1..c : b[n] \in 0..255
  <2> SUFFICES ASSUME NEW n \in 1..c PROVE b[n] \in 0..255
    OBVIOUS
  <2>1. n \in 1..Len(b)
    BY <1>13
  <2> QED
    BY <2>1, ElementOfSeq
<1>18. m \in [1..c -> 0..255]
  BY <1>15, <1>16, <1>17
<1>19. m \in Seq(0..255) /\ Len(m) = c
  <2>1. PICK S : S = 0..255
    OBVIOUS
  <2>2. m \in [1..c -> S]
    BY <1>18, <2>1
  <2>3. m \in Seq(S) /\ Len(m) = c
    BY <2>2
  <2> QED
    BY <2>1, <2>3
<1> QED
  BY <1>7, <1>13, <1>14, <1>16, <1>19

(* What the program sees of a buffer. *)
LEMMA SeenUpTo ==
  ASSUME NEW S, NEW b \in Seq(S), NEW n \in Nat, n <= Len(b),
         \A i \in 1..n : b[i] # 0, n = Len(b) \/ b[n + 1] = 0
  PROVE  CString(b) = SubSeq(b, 1, n)
<1>1. PICK k \in Nat : k = Len(b)
  OBVIOUS
<1>2. PICK Z : Z = {i \in 1..k : b[i] = 0} \cup {k + 1}
  OBVIOUS
<1>3. n + 1 \in Z
  BY <1>1, <1>2
<1>4. ASSUME NEW y \in Z PROVE y \in Nat /\ n + 1 <= y
  BY <1>1, <1>2
<1>5. \A x \in Z : (\A y \in Z : x =< y) <=> x = n + 1
  <2> SUFFICES ASSUME NEW x \in Z PROVE (\A y \in Z : x =< y) <=> x = n + 1
    OBVIOUS
  <2>1. x \in Nat /\ n + 1 <= x
    BY <1>4
  <2>2. x = n + 1 => \A y \in Z : x =< y
    BY <1>4
  <2>3. (\A y \in Z : x =< y) => x =< n + 1
    BY <1>3
  <2> QED
    BY <2>1, <2>2, <2>3
<1>6. Min(Z) = n + 1
  BY <1>3, <1>5 DEF Min
<1>7. CString(b) = SubSeq(b, 1, Min(Z) - 1)
  BY <1>1, <1>2 DEF CString
<1>8. (n + 1) - 1 = n
  OBVIOUS
<1> QED
  BY <1>6, <1>7, <1>8

LEMMA SeenExists ==
  ASSUME NEW S, NEW m \in Seq(S)
  PROVE  \E n \in Nat : /\ n <= Len(m) /\ \A i \in 1..n : m[i] # 0
                        /\ n = Len(m) \/ m[n + 1] = 0
<1>1. PICK k \in Nat : k = Len(m)
  OBVIOUS
<1>2. PICK Z \in SUBSET Nat : \A i : i \in Z <=> i \in 1..k /\ m[i] = 0
  <2>1. {i \in 1..k : m[i] = 0} \in SUBSET Nat
    OBVIOUS
  <2> QED
    BY <2>1
<1>3. CASE Z = {}
  BY <1>1, <1>2, <1>3
<1>4. CASE Z # {}
  <2>1. PICK z \in Z : \A y \in Z : z <= y
    BY <1>4, LeastOf
  <2>2. z \in 1..k /\ m[z] = 0
    BY <1>2
  <2>3. PICK n \in Nat : n = z - 1
    BY <2>2
  <2>4. n <= k /\ m[n + 1] = 0
    BY <2>2, <2>3
  <2>5. ASSUME NEW i \in 1..n PROVE m[i] # 0
    <3>1. i \in 1..k /\ ~(z <= i)
      BY <2>2, <2>3
    <3> QED
      BY <1>2, <2>1, <3>1
  <2> QED
    BY <1>1, <2>4, <2>5
<1> QED
  BY <1>3, <1>4

(* The zero behind it ends what the program sees, if nothing did before.   *)
LEMMA SeenSame ==
  ASSUME NEW S, NEW b \in Seq(S), NEW m \in Seq(S), Len(m) < Len(b), b[Len(m) + 1] = 0,
         \A i \in 1..Len(m) : b[i] = m[i]
  PROVE  CString(b) = CString(m)
<1>1. PICK k \in Nat : k = Len(m)
  OBVIOUS
<1>2. PICK l \in Nat : l = Len(b)
  OBVIOUS
<1>3. PICK n \in Nat : n <= k /\ (\A i \in 1..n : m[i] # 0) /\ (n = k \/ m[n + 1] = 0)
  BY <1>1, SeenExists
<1>4. k < l /\ b[k + 1] = 0 /\ \A i \in 1..k : b[i] = m[i]
  BY <1>1, <1>2
<1>5. \A i \in 1..n : i \in 1..k
  BY <1>3
<1>6. n + 1 \in 1..k \/ n = k
  BY <1>3
<1>7. CString(m) = SubSeq(m, 1, n)
  BY <1>1, <1>3, SeenUpTo
<1>8. CString(b) = SubSeq(b, 1, n)
  <2>1. \A i \in 1..n : b[i] # 0
    BY <1>3, <1>4, <1>5
  <2>2. b[n + 1] = 0
    BY <1>3, <1>4, <1>6
  <2>3. n <= l
    BY <1>3, <1>4
  <2> QED
    BY <1>2, <2>1, <2>2, <2>3, SeenUpTo
<1>9. SubSeq(m, 1, n) = [i \in 1..n |-> m[i]]
  BY <1>1, <1>3
<1>10. SubSeq(b, 1, n) = [i \in 1..n |-> b[i]]
  BY <1>2, <1>3, <1>4
<1>11. \A i \in 1..n : b[i] = m[i]
  BY <1>4, <1>5
<1> QED
  BY <1>7, <1>8, <1>9, <1>10, <1>11

LEMMA SeenSameTail ==
  ASSUME NEW S, NEW b \in Seq(S), NEW m \in Seq(S), Len(m) < Len(b), b[Len(m) + 1] = 0,
         \A i \in 1..Len(m) : b[i] = m[i], m # <<>>
  PROVE  CString(Tail(b)) = CString(Tail(m))
<1>1. PICK k \in Nat : k = Len(m)
  OBVIOUS
<1>2. PICK l \in Nat : l = Len(b)
  OBVIOUS
<1>3. k < l /\ k > 0 /\ b[k + 1] = 0 /\ (\A i \in 1..k : b[i] = m[i]) /\ b # <<>>
  BY <1>1, <1>2
<1>4. PICK c \in Seq(S) : c = Tail(b)
  <2>1. Tail(b) \in Seq(S)
    BY <1>3, HeadTailProperties
  <2> QED
    BY <2>1
<1>5. PICK o \in Seq(S) : o = Tail(m)
  <2>1. Tail(m) \in Seq(S)
    BY HeadTailProperties
  <2> QED
    BY <2>1
<1>6. Len(c) = l - 1 /\ \A i \in 1..l - 1 : c[i] = b[i + 1]
  BY <1>2, <1>3, <1>4, HeadTailProperties
<1>7. Len(o) = k - 1 /\ \A i \in 1..k - 1 : o[i] = m[i + 1]
  BY <1>1, <1>3, <1>5, HeadTailProperties
<1>8. Len(o) < Len(c)
  BY <1>3, <1>6, <1>7
<1>9. c[Len(o) + 1] = 0
  <2>1. Len(o) + 1 = k /\ k \in 1..l - 1
    BY <1>3, <1>7
  <2> QED
    BY <1>3, <1>6, <2>1
<1>10. ASSUME NEW i \in 1..Len(o) PROVE c[i] = o[i]
  <2>1. i \in 1..k - 1 /\ i \in 1..l - 1 /\ i + 1 \in 1..k
    BY <1>3, <1>7
  <2> QED
    BY <1>3, <1>6, <1>7, <2>1
<1> QED
  BY <1>4, <1>5, <1>8, <1>9, <1>10, SeenSame

(* Decoding a path in place gives what its escapes mean, each once, with   *)
(* broken ones left as they are, for every path (decodeMsg lines 395-407). *)
THEOREM DecodingIsMeaning == \A s \in Seq(1..255) : CString(decodeMsg(s)) = CString(Meaning(s))
<1> SUFFICES ASSUME NEW s \in Text PROVE CString(decodeMsg(s)) = CString(Meaning(s))
  BY DEF Text
<1> QED
  BY Decoded, SeenSame

(* The name the server looks up is the one the path of the request means.  *)
LEMMA NameIsMeant ==
  ASSUME NEW c \in Clients, NEW s \in Scripts[c], NEW r \in 1..Len(s)
  PROVE  stat(FileName(s[r].path)) = Meant(s[r])
<1>1. s \in Seq(Requests)
  BY WebServerAssumption
<1>2. PICK q \in Requests : q = s[r]
  BY <1>1, ElementOfSeq
<1>3. PICK p \in Text : p = q.path /\ p # <<>>
  BY DEF Requests, Paths, Text
<1>4. p \in Requested
  <2>1. DOMAIN s = 1..Len(s)
    BY <1>1
  <2>2. q \in Range(s)
    BY <1>2, <2>1 DEF Range
  <2> QED
    BY <1>3, <2>2 DEF Requested
<1>5. PICK b \in Seq(0..255) : b = decodeMsg(p)
  BY Decoded
<1>6. PICK m \in Seq(0..255) : m = Meaning(p)
  BY Decoded
<1>7. Len(m) < Len(b) /\ b[Len(m) + 1] = 0 /\ \A i \in 1..Len(m) : b[i] = m[i]
  BY <1>5, <1>6, Decoded
<1>8. m # <<>>
  <2>1. PICK L \in Nat : L = Len(p) /\ L > 0
    BY <1>3 DEF Text
  <2>2. 1 \in Outside(p)
    <3>1. ~IsEscape(p, 1 - 1) /\ ~IsEscape(p, 1 - 2)
      BY <2>1 DEF IsEscape
    <3> QED
      BY <2>1, <3>1 DEF Outside
  <2>3. PICK n \in Nat : n = Cardinality(Outside(p))
    BY OutsideFinite
  <2>4. n # 0
    BY <2>2, <2>3, OutsideFinite, FS_EmptySet
  <2>5. DOMAIN m = 1..n
    BY <1>6, <2>3 DEF Meaning
  <2>6. 1 \in DOMAIN m
    BY <2>4, <2>5
  <2> QED
    BY <2>6
<1>9. CString(b) = CString(m)
  BY <1>7, SeenSame
<1>10. CString(Tail(b)) = CString(Tail(m))
  BY <1>7, <1>8, SeenSameTail
<1>11. FileName(p) = IF CString(b) = Root THEN HereDir ELSE CString(Tail(b))
  BY <1>5 DEF FileName
<1>12. NameMeant[p] = IF CString(m) = Root THEN HereDir ELSE CString(Tail(m))
  BY <1>4, <1>6 DEF NameMeant
<1>13. FileName(p) = NameMeant[p]
  BY <1>9, <1>10, <1>11, <1>12
<1> QED
  BY <1>2, <1>3, <1>13 DEF Meant

-----------------------------------------------------------------------------
(* What the answers say. *)

LEMMA KindIsMeant ==
  ASSUME Types, NEW c \in Clients, NEW r \in 1..Len(script[c])
  PROVE  Kind(c, r) = Meant(script[c][r])
BY NameIsMeant DEF Types, Kind, RequestKind

LEMMA InvAnswersMeant == IInv => AnswersMeant
<1> SUFFICES ASSUME IInv PROVE AnswersMeant
  OBVIOUS
<1>1. Types /\ Past
  BY DEF IInv, Serving
<1>2. DecodesUrls
  BY WebServerAssumption, DecodingIsMeaning DEF DecodesUrls
<1> SUFFICES ASSUME NEW c \in Clients, NEW i \in 1..Len(out[c]), NEW u, u = out[c][i],
                    NEW q, q = script[c][u[1]]
             PROVE  /\ q.method = "GET"
                    /\ u[2] = "body" => Meant(q) = "file"
                    /\ u[2] = "row" => Meant(q) \in {"dir", "dangling"}
                    /\ u[2] = "page" \/ (u[2] = "status" /\ u[3] = 404) => Meant(q) = "missing"
  BY <1>2 DEF AnswersMeant
<1>3. u[1] \in 1..Len(script[c]) /\ q.method = "GET" /\ CellFits(u, Kind(c, u[1]))
  BY <1>1 DEF Past
<1>4. Kind(c, u[1]) = Meant(q)
  BY <1>1, <1>3, KindIsMeant
<1>5. Kind(c, u[1]) \in {"file", "lockedFile", "dir", "dangling", "lockedDir", "missing"}
  BY KindRange DEF Kind, Kinds
<1> QED
  BY <1>3, <1>4, <1>5 DEF CellFits

(* What is sent to a client is what the path of its request names:         *)
(* contents of a file, entries of a directory, the 404 page for nothing,   *)
(* and nothing for another method (parseRequestLine lines 191-235).        *)
THEOREM AnswersAreMeant == Spec => []AnswersMeant
BY Inductive, InvAnswersMeant, PTL

LEMMA InvExitExplained == IInv => ExitExplained
<1> SUFFICES ASSUME IInv, ~Running PROVE ExitExplained
  BY DEF ExitExplained
<1>1. Types /\ Ended
  BY DEF IInv, Serving
<1>2. CASE curFd = NoClient
  BY <1>1, <1>2 DEF Ended, ExitExplained
<1>3. CASE curFd # NoClient
  <2>1. curFd \in Clients
    BY <1>1, <1>3 DEF Types
  <2>2. \A r \in 1..Len(script[curFd]) : Kind(curFd, r) = Meant(script[curFd][r])
    BY <1>1, <2>1, KindIsMeant
  <2>3. ASSUME NEW kinds, Found(kinds) PROVE \E kind \in kinds : Asked(kind)
    BY <2>2, <2>3 DEF Found, Asked
  <2>4. Found({"dir"}) => Asked("dir")
    BY <2>3
  <2>5. \/ \E kind \in {"dangling", "lockedDir", "missing"} : Asked(kind)
        \/ Asked("dir") /\ ~CanOpen
        \/ left[curFd] = "rst"
        \/ curFd \in Slow /\ Asked("dir") /\ room[curFd] = 0
    BY <1>1, <1>3, <2>3, <2>4 DEF Ended
  <2> QED
    BY <1>3, <2>5 DEF ExitExplained
<1> QED
  BY <1>2, <1>3

(* One thread serves everybody.  While nobody is answered, what ends it is *)
(* a client that arrives and cannot be accepted or registered; while       *)
(* somebody is, a listing with an entry that stat cannot read, of a        *)
(* directory that cannot be read or has no descriptor left for it, or for  *)
(* a client that does not read, a missing page, or a client that leaves    *)
(* during its answer (lines 75, 96, 222, 279, 287, 297, 304 and 306);      *)
(* requests for files never do.                                            *)
THEOREM ExitIsExplained == Spec => []ExitExplained
BY Inductive, InvExitExplained, PTL
=============================================================================

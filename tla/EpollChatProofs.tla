--------------------------- MODULE EpollChatProofs ---------------------------
(***************************************************************************)
(* Proofs about the chat of two programs with each of the three servers,   *)
(* for any length of what is typed, any buffer and any connection.         *)
(***************************************************************************)
EXTENDS EpollChat, SequenceTheorems, FiniteSetTheorems, TLAPS

-----------------------------------------------------------------------------
(* The invariant.                                                          *)

(* What a program can still be shown when the other one is gone. *)
Got(p) == printed[p] \o wire[p]

Farewell(q) == pc[q] \in {"bye", "done", "killed"}

Unconnected == {"start", "accept"}

(* The connection knows of a program that is gone. *)
LinksTrue ==
  \A p \in Programs :
    /\ link[Peer(p)] # "up" => pc[p] = "done"
    /\ Stopped(p) /\ ~Stopped(Peer(p)) /\ pc[Peer(p)] \notin Unconnected => link[Peer(p)] # "up"

(* What a program has read and not sent. *)
Buffered ==
  \A p \in Programs :
    /\ taken[p] <= typed[p]
    /\ pc[p] = "stdin" => taken[p] < typed[p] \/ eof[p]
    /\ pc[p] = "bye" => taken[p] = typed[p] /\ eof[p]
    /\ pc[p] \notin {"send", "bye", "done", "killed"} => toSend[p] = <<>>

(* What is received was told, and while both live all that was told is on  *)
(* its way.                                                                *)
InStep ==
  /\ \A p \in Programs :
       /\ ReadsUpTo(Got(p), typed[Peer(p)])
       /\ Rank(Got(p), Len(Got(p))) <= taken[Peer(p)] + (IF Farewell(Peer(p)) THEN 1 ELSE 0)
  /\ NothingLost

IInv == TypeOK /\ LinksTrue /\ Buffered /\ InStep

(* What the server that is told of arrivals once knows of its socket. *)
EdgeKept ==
  /\ kind \in Kinds /\ {flag, edge} \subseteq BOOLEAN
  /\ kind # "et" => edge
  /\ kind = "et" =>
       /\ pc["server"] \in {"start", "accept", "select", "batch", "send", "drain", "done", "killed"}
       /\ pc["server"] \in Unconnected => edge
       /\ pc["server"] = "select" /\ wire["server"] # <<>> => edge
       /\ pc["server"] \in {"batch", "send"} /\ wire["server"] # <<>> =>
            edge \/ "net" \in rfds["server"]

-----------------------------------------------------------------------------
(* Ranks.                                                                  *)

LEMMA Sizes ==
  /\ MaxTyped \in Nat \ {0} /\ BufSize \in Nat \ {0} /\ SockCap \in Nat \ {0} /\ BufSize > 1
  /\ Garbage = MaxTyped + 1
BY PeerChatAssumption, EpollChatAssumption DEF Garbage

LEMMA RankType ==
  ASSUME NEW s, NEW k \in Nat
  PROVE  IsFiniteSet(Legible(s, k)) /\ Rank(s, k) \in Nat
<1>1. IsFiniteSet(1..k)
  BY FS_Interval
<1>2. Legible(s, k) \in SUBSET (1..k)
  BY DEF Legible
<1>3. IsFiniteSet(Legible(s, k))
  BY <1>1, <1>2, FS_Subset
<1> QED
  BY <1>3, FS_CardinalityType DEF Rank

LEMMA RankSame ==
  ASSUME NEW s, NEW t, NEW k \in Nat, \A m \in 1..k : t[m] = s[m]
  PROVE  Rank(t, k) = Rank(s, k)
<1>1. Legible(t, k) = Legible(s, k)
  BY DEF Legible
<1> QED
  BY <1>1 DEF Rank

LEMMA RankMonotone ==
  ASSUME NEW s, NEW k \in Nat, NEW j \in Nat, j <= k
  PROVE  Rank(s, j) <= Rank(s, k)
<1>1. Legible(s, j) \in SUBSET Legible(s, k)
  BY DEF Legible
<1>2. IsFiniteSet(Legible(s, k))
  BY RankType
<1> QED
  BY <1>1, <1>2, FS_Subset DEF Rank

LEMMA RankOfNone ==
  ASSUME NEW s
  PROVE  Rank(s, 0) = 0
<1>1. Legible(s, 0) = {}
  BY DEF Legible
<1> QED
  BY <1>1, FS_EmptySet DEF Rank

(* Legible units are counted. *)
LEMMA RankGrows ==
  ASSUME NEW s, NEW a \in Nat, NEW k \in Nat, \A m \in a + 1..a + k : s[m] # Garbage
  PROVE  Rank(s, a + k) = Rank(s, a) + k
<1>1. PICK A : A = Legible(s, a)
  OBVIOUS
<1>2. PICK B : B = a + 1..a + k
  OBVIOUS
<1>3. IsFiniteSet(A) /\ Cardinality(A) = Rank(s, a) /\ Rank(s, a) \in Nat
  BY <1>1, RankType DEF Rank
<1>4. IsFiniteSet(B) /\ Cardinality(B) = k
  <2>1. a + 1 \in Int /\ a + k \in Int /\ (IF a + 1 > a + k THEN 0 ELSE a + k - (a + 1) + 1) = k
    OBVIOUS
  <2> QED
    BY <1>2, <2>1, FS_Interval
<1>5. Legible(s, a + k) = A \cup B
  BY <1>1, <1>2 DEF Legible
<1>6. A \cap B = {}
  BY <1>1, <1>2 DEF Legible
<1>7. Cardinality(A \cup B) = Cardinality(A) + Cardinality(B) - Cardinality(A \cap B)
  BY <1>3, <1>4, FS_Union
<1>8. Cardinality(A \cap B) = 0
  BY <1>6, FS_EmptySet
<1>9. Cardinality(A \cup B) = Rank(s, a) + k
  BY <1>3, <1>4, <1>7, <1>8
<1>10. Rank(s, a + k) = Cardinality(A \cup B)
  BY <1>5 DEF Rank
<1> QED
  BY <1>9, <1>10

(* Garbage is not. *)
LEMMA RankSkips ==
  ASSUME NEW s, NEW k \in Nat, s[k + 1] = Garbage
  PROVE  Rank(s, k + 1) = Rank(s, k)
<1>1. Legible(s, k + 1) = Legible(s, k)
  BY DEF Legible
<1> QED
  BY <1>1 DEF Rank

-----------------------------------------------------------------------------
(* Streams.                                                                *)

(* The beginning of a stream. *)
LEMMA ReadsPart ==
  ASSUME NEW n \in Nat, NEW s, NEW t, NEW k \in Nat, NEW m \in Nat, Len(s) = k, Len(t) = m,
         m <= k, \A i \in 1..m : t[i] = s[i], ReadsUpTo(s, n)
  PROVE  ReadsUpTo(t, n) /\ Rank(t, m) <= Rank(s, k)
<1>1. ASSUME NEW i \in 0..m PROVE Rank(t, i) = Rank(s, i)
  <2>1. i \in Nat /\ \A l \in 1..i : t[l] = s[l]
    OBVIOUS
  <2> QED
    BY <2>1, RankSame
<1>2. Rank(t, m) <= Rank(s, k)
  <2>1. m \in 0..m
    OBVIOUS
  <2> QED
    BY <1>1, <2>1, RankMonotone
<1>3. \A i \in 1..m : i \in 1..k /\ i \in 0..m
  OBVIOUS
<1>4. ReadsUpTo(t, n)
  BY <1>1, <1>3 DEF ReadsUpTo
<1> QED
  BY <1>2, <1>4

(* The user types one more. *)
LEMMA ReadsFurther ==
  ASSUME NEW n \in Nat, NEW s, NEW k \in Nat, Len(s) = k, ReadsUpTo(s, n), Rank(s, k) <= n
  PROVE  ReadsUpTo(s, n + 1)
<1>1. ASSUME NEW i \in 1..k PROVE Rank(s, i) \in Nat /\ Rank(s, i) <= n
  <2>1. Rank(s, i) \in Nat /\ Rank(s, k) \in Nat
    BY RankType
  <2>2. Rank(s, i) <= Rank(s, k)
    BY RankMonotone
  <2> QED
    BY <2>1, <2>2
<1>2. ASSUME NEW i \in 1..k, s[i] # Garbage PROVE s[i] = Rank(s, i) /\ Rank(s, i) <= n + 1
  <2>1. \/ Rank(s, i) <= n /\ s[i] = Rank(s, i)
        \/ Rank(s, i) = n + 1 /\ s[i] = Bye
    BY <1>2 DEF ReadsUpTo
  <2> QED
    BY <1>1, <2>1
<1> QED
  BY <1>2 DEF ReadsUpTo

(* s is k units long, r of them legible. *)
Reads(s, k, r, m) == Len(s) = k /\ Rank(s, k) = r /\ ReadsUpTo(s, m)

(* Text is added: the next b units, and garbage or not. *)
TextAdded(s, u, a, b, g, r) ==
  /\ Len(u) = a + b + g
  /\ \A i \in 1..a : u[i] = s[i]
  /\ \A i \in 1..b : u[a + i] = r + i
  /\ g = 1 => u[a + b + 1] = Garbage

LEMMA ReadsText ==
  ASSUME NEW n \in Nat, n <= MaxTyped, NEW s, NEW u, NEW a \in Nat, NEW b \in Nat, NEW g \in Nat, g <= 1,
         NEW r \in Nat, r + b <= n, Reads(s, a, r, n), TextAdded(s, u, a, b, g, r)
  PROVE  Reads(u, a + b + g, r + b, n)
<1> USE DEF TextAdded, Reads
<1>1. Garbage = MaxTyped + 1 /\ MaxTyped \in Nat
  BY Sizes
<1>2. ASSUME NEW i \in 0..a PROVE Rank(u, i) = Rank(s, i)
  <2>1. i \in Nat /\ \A l \in 1..i : u[l] = s[l]
    OBVIOUS
  <2> QED
    BY <2>1, RankSame
<1>3. ASSUME NEW k \in 0..b PROVE Rank(u, a + k) = r + k
  <2>1. ASSUME NEW m \in a + 1..a + k PROVE u[m] # Garbage
    <3>1. m - a \in 1..b /\ a + (m - a) = m
      OBVIOUS
    <3>2. u[m] = r + (m - a)
      BY <3>1
    <3> QED
      BY <1>1, <3>1, <3>2
  <2>2. Rank(u, a) = r
    <3>1. a \in 0..a
      OBVIOUS
    <3> QED
      BY <1>2, <3>1
  <2>3. k \in Nat
    OBVIOUS
  <2>4. Rank(u, a + k) = Rank(u, a) + k
    BY <2>1, <2>3, RankGrows
  <2> QED
    BY <2>2, <2>4
<1>4. Rank(u, a + b + g) = r + b
  <2>1. Rank(u, a + b) = r + b
    <3>1. b \in 0..b
      OBVIOUS
    <3> QED
      BY <1>3, <3>1
  <2>2. CASE g = 0
    BY <2>1, <2>2
  <2>3. CASE g = 1
    <3>1. a + b \in Nat /\ u[(a + b) + 1] = Garbage
      BY <2>3
    <3>2. Rank(u, (a + b) + 1) = Rank(u, a + b)
      BY <3>1, RankSkips
    <3> QED
      BY <2>1, <2>3, <3>2
  <2> QED
    BY <2>2, <2>3
<1>5. ASSUME NEW i \in 1..a + b + g, u[i] # Garbage
      PROVE  \/ Rank(u, i) <= n /\ u[i] = Rank(u, i)
             \/ Rank(u, i) = n + 1 /\ u[i] = Bye
  <2>1. CASE i <= a
    <3>1. i \in 1..a /\ i \in 0..a
      BY <2>1
    <3>2. Rank(u, i) = Rank(s, i) /\ u[i] = s[i]
      BY <1>2, <3>1
    <3> QED
      BY <1>5, <3>1, <3>2 DEF ReadsUpTo
  <2>2. CASE a < i /\ i <= a + b
    <3>1. i - a \in 1..b /\ i - a \in 0..b /\ a + (i - a) = i /\ r + (i - a) <= n
      BY <2>2
    <3>2. Rank(u, i) = r + (i - a) /\ u[i] = r + (i - a)
      BY <1>3, <3>1
    <3> QED
      BY <3>1, <3>2
  <2>3. CASE a + b < i
    <3>1. g = 1 /\ i = a + b + 1
      BY <2>3
    <3> QED
      BY <1>5, <3>1
  <2> QED
    BY <2>1, <2>2, <2>3
<1> QED
  BY <1>4, <1>5 DEF ReadsUpTo

(* t is the text behind r: n units, and garbage or not. *)
TextTold(t, r, n, g) ==
  /\ Len(t) = n + g
  /\ g = 1 => t[n + 1] = Garbage
  /\ \A i \in 1..n : t[i] = r + i

LEMMA ReadsMore ==
  ASSUME NEW S, NEW s \in Seq(S), NEW t \in Seq(S), NEW m \in Nat, m <= MaxTyped, NEW k \in Nat,
         NEW r \in Nat, NEW n \in Nat, NEW g \in Nat, g <= 1, TextTold(t, r, n, g), r + n <= m,
         Reads(s, k, r, m)
  PROVE  Reads(s \o t, k + n + g, r + n, m)
<1>0. Len(s) = k /\ Rank(s, k) = r /\ ReadsUpTo(s, m)
  BY DEF Reads
<1>1. PICK u : u = s \o t
  OBVIOUS
<1>2. PICK l \in Nat : l = n + g
  OBVIOUS
<1>3. Len(t) = l
  BY <1>2 DEF TextTold
<1>4. Len(u) = k + l /\ \A i \in 1..k + l : u[i] = IF i <= k THEN s[i] ELSE t[i - k]
  BY <1>0, <1>1, <1>3, ConcatProperties
<1>5. \A i \in 1..k : u[i] = s[i]
  BY <1>4
<1>6. ASSUME NEW i \in 1..l PROVE u[k + i] = t[i]
  <2>1. k + i \in 1..k + l /\ ~(k + i <= k) /\ (k + i) - k = i
    OBVIOUS
  <2> QED
    BY <1>4, <2>1
<1>7. ASSUME NEW i \in 1..n PROVE u[k + i] = r + i
  <2>1. i \in 1..l /\ t[i] = r + i
    BY <1>2 DEF TextTold
  <2> QED
    BY <1>6, <2>1
<1>8. g = 1 => u[k + n + 1] = Garbage
  <2>1. g = 1 => n + 1 \in 1..l /\ t[n + 1] = Garbage /\ k + (n + 1) = k + n + 1
    BY <1>2 DEF TextTold
  <2> QED
    BY <1>6, <2>1
<1>9. Len(u) = k + n + g
  BY <1>2, <1>4
<1>10. TextAdded(s, u, k, n, g, r)
  BY <1>5, <1>7, <1>8, <1>9 DEF TextAdded
<1>11. Reads(u, k + n + g, r + n, m)
  BY <1>10, ReadsText
<1> QED
  BY <1>1, <1>11

(* The farewell is added. *)
LEMMA ReadsBye ==
  ASSUME NEW n \in Nat, NEW s, NEW u, NEW a \in Nat, Len(s) = a, Len(u) = a + 1, Rank(s, a) = n,
         ReadsUpTo(s, n), \A i \in 1..a : u[i] = s[i], u[a + 1] = Bye
  PROVE  ReadsUpTo(u, n) /\ Rank(u, a + 1) = n + 1
<1>1. Bye # Garbage
  BY Sizes DEF Bye
<1>2. ASSUME NEW i \in 0..a PROVE Rank(u, i) = Rank(s, i)
  <2>1. i \in Nat /\ \A l \in 1..i : u[l] = s[l]
    OBVIOUS
  <2> QED
    BY <2>1, RankSame
<1>3. Rank(u, a + 1) = n + 1
  <2>1. \A m \in a + 1..a + 1 : u[m] # Garbage
    BY <1>1
  <2>2. a \in 0..a /\ 1 \in Nat
    OBVIOUS
  <2>3. Rank(u, a + 1) = Rank(u, a) + 1
    BY <2>1, <2>2, RankGrows
  <2> QED
    BY <1>2, <2>2, <2>3
<1>4. ASSUME NEW i \in 1..a + 1, u[i] # Garbage
      PROVE  \/ Rank(u, i) <= n /\ u[i] = Rank(u, i)
             \/ Rank(u, i) = n + 1 /\ u[i] = Bye
  <2>1. CASE i <= a
    <3>1. i \in 1..a /\ i \in 0..a
      BY <2>1
    <3>2. Rank(u, i) = Rank(s, i) /\ u[i] = s[i]
      BY <1>2, <3>1
    <3> QED
      BY <1>4, <3>1, <3>2 DEF ReadsUpTo
  <2>2. CASE i = a + 1
    BY <1>3, <2>2
  <2> QED
    BY <2>1, <2>2
<1> QED
  BY <1>3, <1>4 DEF ReadsUpTo

(* Moving units along the stream changes nothing. *)
SameOnWire(S, a, w, t) ==
  /\ Head(t) \in S /\ Tail(t) \in Seq(S) /\ Append(w, Head(t)) \in Seq(S)
  /\ a \o Append(w, Head(t)) \o Tail(t) = a \o w \o t

LEMMA MovedToWire ==
  ASSUME NEW S, NEW a \in Seq(S), NEW w \in Seq(S), NEW t \in Seq(S), t # <<>>
  PROVE  SameOnWire(S, a, w, t)
<1>1. Head(t) \in S /\ Tail(t) \in Seq(S) /\ t = <<Head(t)>> \o Tail(t)
  BY HeadTailProperties, HeadTailAppend, SubSeqFull, TailIsSubSeq, SubSeqRecursiveFirst
<1>2. <<Head(t)>> \in Seq(S)
  <2>1. PICK e : e = Head(t)
    OBVIOUS
  <2>2. e \in S
    BY <1>1, <2>1
  <2>3. <<e>> \in Seq(S)
    BY <2>2
  <2> QED
    BY <2>1, <2>3
<1>3. PICK h \in Seq(S) : h = <<Head(t)>>
  BY <1>2
<1>4. Append(w, Head(t)) = w \o h /\ Append(w, Head(t)) \in Seq(S)
  BY <1>1, <1>3, AppendProperties, AppendIsConcat
<1>5. PICK v \in Seq(S) : v = Tail(t)
  BY <1>1
<1>6. PICK x \in Seq(S) : x = a \o w
  BY ConcatProperties
<1>7. (a \o w) \o h = a \o (w \o h)
  BY SMTT(30), ConcatAssociative
<1>8. (x \o h) \o v = x \o (h \o v)
  BY SMTT(30), ConcatAssociative
<1> QED
  BY <1>1, <1>3, <1>4, <1>5, <1>6, <1>7, <1>8 DEF SameOnWire

SameOnScreen(S, a, w, n) ==
  /\ SubSeq(w, 1, n) \in Seq(S) /\ SubSeq(w, n + 1, Len(w)) \in Seq(S)
  /\ Len(SubSeq(w, n + 1, Len(w))) <= Len(w)
  /\ (a \o SubSeq(w, 1, n)) \o SubSeq(w, n + 1, Len(w)) = a \o w

LEMMA MovedToScreen ==
  ASSUME NEW S, NEW a \in Seq(S), NEW w \in Seq(S), NEW n \in 0..Len(w)
  PROVE  SameOnScreen(S, a, w, n)
<1>1. PICK m \in Nat : m = Len(w)
  BY LenProperties
<1>2. n \in Nat /\ n <= m /\ \A i \in 1..m : w[i] \in S
  BY <1>1, ElementOfSeq
<1>3. PICK b : b = SubSeq(w, 1, n)
  OBVIOUS
<1>4. PICK c : c = SubSeq(w, n + 1, m)
  OBVIOUS
<1>5. b \in Seq(S)
  <2>1. \A i \in 1..n : w[i] \in S
    BY <1>2
  <2> QED
    BY <1>2, <1>3, <2>1, SubSeqProperties
<1>6. c \in Seq(S) /\ Len(c) = IF n + 1 <= m THEN m - (n + 1) + 1 ELSE 0
  <2>1. \A i \in n + 1..m : w[i] \in S
    BY <1>2
  <2>2. n + 1 \in Int /\ m \in Int
    BY <1>2
  <2> QED
    BY <1>4, <2>1, <2>2, SubSeqProperties
<1>7. b \o c = w
  <2>1. 1 \in 1..Len(w) + 1 /\ n \in 1 - 1..Len(w) /\ m \in n..Len(w)
    BY <1>1, <1>2
  <2>2. SubSeq(w, 1, n) \o SubSeq(w, n + 1, m) = SubSeq(w, 1, m)
    BY <2>1, ConcatAdjacentSubSeq
  <2> QED
    BY <1>1, <1>3, <1>4, <2>2, SubSeqFull
<1>8. (a \o b) \o c = a \o (b \o c)
  BY SMTT(30), <1>5, <1>6, ConcatAssociative
<1>9. Len(c) <= m
  BY <1>2, <1>6
<1>10. (a \o b) \o c = a \o w
  BY <1>7, <1>8
<1> QED
  BY <1>1, <1>3, <1>4, <1>5, <1>6, <1>9, <1>10 DEF SameOnScreen

-----------------------------------------------------------------------------
(* What steps of every sort do to the parts of the invariant.              *)

LEMMA Peers ==
  ASSUME NEW p \in Programs
  PROVE  /\ Peer(p) \in Programs /\ Peer(p) # p /\ Peer(Peer(p)) = p
         /\ \A r \in Programs : r = p \/ r = Peer(p)
BY DEF Peer, Programs

Chars == 0..Garbage

LEMMA Typing ==
  ASSUME TypeOK, NEW p \in Programs
  PROVE  /\ printed[p] \in Seq(Chars) /\ wire[p] \in Seq(Chars) /\ toSend[p] \in Seq(Chars)
         /\ Got(p) \in Seq(Chars) /\ Len(Got(p)) \in Nat
         /\ Stream(p) \in Seq(Chars) /\ Len(Stream(p)) \in Nat
         /\ Stream(p) = Got(p) \o toSend[Peer(p)]
         /\ typed[p] \in Nat /\ taken[p] \in Nat /\ typed[p] <= MaxTyped /\ taken[p] <= MaxTyped
<1>1. /\ printed[p] \in Seq(Chars) /\ wire[p] \in Seq(Chars) /\ toSend[p] \in Seq(Chars)
      /\ toSend[Peer(p)] \in Seq(Chars)
  BY Peers DEF TypeOK, Chars
<1>2. Got(p) \in Seq(Chars)
  BY <1>1, ConcatProperties DEF Got
<1>3. Stream(p) = Got(p) \o toSend[Peer(p)]
  BY DEF Stream, Got
<1>4. Stream(p) \in Seq(Chars)
  BY <1>1, <1>2, <1>3, ConcatProperties
<1>5. typed[p] \in Nat /\ taken[p] \in Nat /\ typed[p] <= MaxTyped /\ taken[p] <= MaxTyped
  BY Sizes DEF TypeOK
<1> QED
  BY <1>1, <1>2, <1>3, <1>4, <1>5, LenProperties

(* A program moves on. *)
LEMMA Moves ==
  ASSUME TypeOK, NEW p \in Programs, NEW x \in PcStates, Goto(p, x)
  PROVE  /\ pc' \in [Programs -> PcStates] /\ pc'[p] = x
         /\ \A r \in Programs : r # p => pc'[r] = pc[r]
BY DEF TypeOK, Goto

LEMMA RfdsCleared ==
  ASSUME TypeOK, NEW p \in Programs, Cleared(p)
  PROVE  rfds' \in [Programs -> SUBSET {"stdin", "net"}]
BY DEF TypeOK, Cleared

LEMMA LinksStay ==
  ASSUME LinksTrue,
         \A p \in Programs : /\ link'[p] # "up" <=> link[p] # "up"
                             /\ pc[p] = "done" => pc'[p] = "done"
                             /\ Stopped(p)' <=> Stopped(p)
                             /\ pc'[p] \notin Unconnected => pc[p] \notin Unconnected
  PROVE  LinksTrue'
<1>1. ASSUME NEW p \in Programs
      PROVE  /\ link'[Peer(p)] # "up" => pc'[p] = "done"
             /\ Stopped(p)' /\ ~Stopped(Peer(p))' /\ pc'[Peer(p)] \notin Unconnected
                  => link'[Peer(p)] # "up"
  BY Peers DEF LinksTrue
<1> QED
  BY <1>1 DEF LinksTrue

(* Nothing is typed, read or sent; what was under way is shown. *)
LEMMA InStepStays ==
  ASSUME TypeOK, InStep, UNCHANGED <<taken, typed>>, \A p \in Programs : Got(p)' = Got(p),
         \A p \in Programs : /\ Stopped(p) => Stopped(p)'
                             /\ Farewell(p) => Farewell(p)'
                             /\ ~Stopped(p)' /\ ~Stopped(Peer(p))' =>
                                  toSend'[p] = toSend[p] /\ (pc'[p] = "bye" <=> pc[p] = "bye")
  PROVE  InStep'
<1>1. ASSUME NEW p \in Programs
      PROVE  /\ Got(p)' = Got(p) /\ typed'[Peer(p)] = typed[Peer(p)] /\ taken'[Peer(p)] = taken[Peer(p)]
             /\ taken[Peer(p)] \in Nat /\ Len(Got(p)) \in Nat
  BY Peers, Typing
<1>2. ASSUME NEW p \in Programs
      PROVE  /\ ReadsUpTo(Got(p)', typed'[Peer(p)])
             /\ Rank(Got(p)', Len(Got(p)')) <= taken'[Peer(p)] + (IF Farewell(Peer(p))' THEN 1 ELSE 0)
  <2>1. ReadsUpTo(Got(p), typed[Peer(p)])
    BY DEF InStep
  <2>2. Rank(Got(p), Len(Got(p))) <= taken[Peer(p)] + (IF Farewell(Peer(p)) THEN 1 ELSE 0)
    BY DEF InStep
  <2>3. Rank(Got(p), Len(Got(p))) \in Nat
    BY <1>1, RankType
  <2>4. Farewell(Peer(p)) => Farewell(Peer(p))'
    BY Peers
  <2>5. Rank(Got(p), Len(Got(p))) <= taken[Peer(p)] + (IF Farewell(Peer(p))' THEN 1 ELSE 0)
    BY <1>1, <2>2, <2>3, <2>4
  <2> QED
    BY <1>1, <2>1, <2>5
<1>3. ASSUME NEW p \in Programs, ~Stopped(p)', ~Stopped(Peer(p))'
      PROVE  Stream(p)' = Stream(p) /\ Told(Peer(p))' = Told(Peer(p))
             /\ ~Stopped(p) /\ ~Stopped(Peer(p))
  <2>1. Peer(p) \in Programs /\ Peer(Peer(p)) = p
    BY Peers
  <2>2. toSend'[Peer(p)] = toSend[Peer(p)] /\ (pc'[Peer(p)] = "bye" <=> pc[Peer(p)] = "bye")
    BY <1>3, <2>1
  <2> QED
    BY <1>1, <1>3, <2>1, <2>2 DEF Stream, Got, Told
<1>4. NothingLost'
  BY <1>3 DEF InStep, NothingLost
<1> QED
  BY <1>2, <1>4 DEF InStep

(* A part of what was received or under way is lost when a program ends. *)
LEMMA InStepEnds ==
  ASSUME TypeOK, TypeOK', InStep, UNCHANGED <<printed, taken, typed>>,
         NEW p \in Programs, Stopped(p)', \A r \in Programs : Farewell(r) => Farewell(r)',
         \A r \in Programs : /\ Len(wire'[r]) <= Len(wire[r])
                             /\ \A i \in 1..Len(wire'[r]) : wire'[r][i] = wire[r][i]
  PROVE  InStep'
<1>1. ASSUME NEW r \in Programs
      PROVE  /\ ReadsUpTo(Got(r)', typed'[Peer(r)])
             /\ Rank(Got(r)', Len(Got(r)')) <= taken'[Peer(r)] + (IF Farewell(Peer(r))' THEN 1 ELSE 0)
  <2>1. PICK a \in Seq(Chars), w \in Seq(Chars), v \in Seq(Chars) :
               a = printed[r] /\ w = wire[r] /\ v = wire'[r]
    <3>1. wire'[r] \in Seq(Chars)
      BY DEF TypeOK, Chars
    <3> QED
      BY <3>1, Typing
  <2>2. PICK k \in Nat, l \in Nat, m \in Nat : k = Len(a) /\ l = Len(w) /\ m = Len(v)
    BY LenProperties
  <2>3. /\ Len(a \o w) = k + l /\ Len(a \o v) = k + m
        /\ \A i \in 1..k + l : (a \o w)[i] = IF i <= k THEN a[i] ELSE w[i - k]
        /\ \A i \in 1..k + m : (a \o v)[i] = IF i <= k THEN a[i] ELSE v[i - k]
    BY <2>2, ConcatProperties
  <2>4. m <= l /\ \A i \in 1..m : v[i] = w[i]
    BY <2>1, <2>2
  <2>5. ASSUME NEW i \in 1..k + m PROVE (a \o v)[i] = (a \o w)[i]
    <3>1. i \in 1..k + l /\ (i > k => i - k \in 1..m)
      BY <2>4
    <3> QED
      BY <2>3, <2>4, <3>1
  <2>6. Got(r) = a \o w /\ Got(r)' = a \o v
    BY <2>1 DEF Got
  <2>7. /\ typed[Peer(r)] \in Nat /\ taken[Peer(r)] \in Nat
        /\ typed'[Peer(r)] = typed[Peer(r)] /\ taken'[Peer(r)] = taken[Peer(r)]
    BY Peers, Typing
  <2>8. /\ ReadsUpTo(a \o w, typed[Peer(r)])
        /\ Rank(a \o w, k + l) <= taken[Peer(r)] + (IF Farewell(Peer(r)) THEN 1 ELSE 0)
    BY <2>3, <2>6 DEF InStep
  <2>9. k + m \in Nat /\ k + l \in Nat /\ k + m <= k + l
    BY <2>4
  <2>10. ReadsUpTo(a \o v, typed[Peer(r)]) /\ Rank(a \o v, k + m) <= Rank(a \o w, k + l)
    BY <2>3, <2>5, <2>7, <2>8, <2>9, ReadsPart
  <2>11. Rank(a \o v, k + m) \in Nat /\ Rank(a \o w, k + l) \in Nat
    BY <2>9, RankType
  <2>12. Farewell(Peer(r)) => Farewell(Peer(r))'
    BY Peers
  <2>13. Rank(a \o v, k + m) <= taken[Peer(r)] + (IF Farewell(Peer(r))' THEN 1 ELSE 0)
    BY <2>7, <2>8, <2>10, <2>11, <2>12
  <2> QED
    BY <2>3, <2>6, <2>7, <2>10, <2>13
<1>2. NothingLost'
  BY Peers DEF NothingLost
<1> QED
  BY <1>1, <1>2 DEF InStep

(* Units move along the stream of p: from its peer's buffer to the wire, or*)
(* from the wire to its screen.  What it has got grows within the stream.  *)
LEMMA InStepFlows ==
  ASSUME TypeOK, TypeOK', InStep, UNCHANGED <<typed, taken>>, NEW p \in Programs,
         ~Stopped(p), ~Stopped(Peer(p)), ~Stopped(p)', ~Stopped(Peer(p))',
         Stream(p)' = Stream(p), Stream(Peer(p))' = Stream(Peer(p)), Got(Peer(p))' = Got(Peer(p)),
         \A r \in Programs : pc'[r] = "bye" <=> pc[r] = "bye"
  PROVE  InStep'
<1> DEFINE q == Peer(p)
<1>1. q \in Programs /\ q # p /\ Peer(q) = p /\ \A r \in Programs : r = p \/ r = q
  BY Peers
<1>2. \A r \in Programs : Told(r)' = Told(r) /\ (Farewell(r)' <=> Farewell(r))
  BY <1>1 DEF Told, Farewell, Stopped
<1>3. NothingLost'
  BY <1>1, <1>2 DEF InStep, NothingLost
<1>4. /\ ReadsUpTo(Got(q)', typed'[p])
      /\ Rank(Got(q)', Len(Got(q)')) <= taken'[p] + (IF Farewell(p)' THEN 1 ELSE 0)
  BY <1>1, <1>2 DEF InStep
<1>5. /\ ReadsUpTo(Got(p)', typed'[q])
      /\ Rank(Got(p)', Len(Got(p)')) <= taken'[q] + (IF Farewell(q)' THEN 1 ELSE 0)
  <2>1. /\ ReadsUpTo(Stream(p)', typed[q]) /\ Rank(Stream(p)', Len(Stream(p)')) = Told(q)
    BY <1>1, <1>2, <1>3 DEF NothingLost
  <2>2. PICK g \in Seq(Chars), t \in Seq(Chars) : g = Got(p)' /\ t = toSend'[q] /\ Stream(p)' = g \o t
    <3>1. Got(p)' \in Seq(Chars) /\ toSend'[q] \in Seq(Chars) /\ Stream(p)' = Got(p)' \o toSend'[q]
      <4>1. printed'[p] \in Seq(Chars) /\ wire'[p] \in Seq(Chars) /\ toSend'[q] \in Seq(Chars)
        BY <1>1 DEF TypeOK, Chars
      <4> QED
        BY <4>1, ConcatProperties DEF Got, Stream
    <3> QED
      BY <3>1
  <2>3. PICK m \in Nat, n \in Nat : m = Len(g) /\ n = Len(t)
    BY LenProperties
  <2>4. Len(g \o t) = m + n /\ \A i \in 1..m + n : (g \o t)[i] = IF i <= m THEN g[i] ELSE t[i - m]
    BY <2>3, ConcatProperties
  <2>5. \A i \in 1..m : g[i] = (g \o t)[i]
    BY <2>4
  <2>6. typed[q] \in Nat /\ taken[q] \in Nat
    BY <1>1, Typing
  <2>7. ReadsUpTo(g, typed[q]) /\ Rank(g, m) <= Rank(g \o t, m + n)
    <3>1. m + n \in Nat /\ m <= m + n
      OBVIOUS
    <3>0. PICK u : u = g \o t
      OBVIOUS
    <3>2. PICK l \in Nat : l = m + n
      OBVIOUS
    <3>5. PICK h \in Nat : h = typed[q]
      BY <2>6
    <3>3. Len(u) = l /\ Len(g) = m /\ m <= l /\ ReadsUpTo(u, h) /\ \A i \in 1..m : g[i] = u[i]
      BY <2>1, <2>2, <2>3, <2>4, <2>5, <3>0, <3>1, <3>2, <3>5
    <3>4. ReadsUpTo(g, h) /\ Rank(g, m) <= Rank(u, l)
      BY <3>3, ReadsPart
    <3> QED
      BY <3>0, <3>2, <3>4, <3>5
  <2>8. Rank(g, m) \in Nat /\ Rank(g \o t, m + n) = Told(q)
    <3>1. Rank(g, m) \in Nat
      BY RankType
    <3> QED
      BY <2>1, <2>2, <2>4, <3>1
  <2>9. Told(q) <= taken[q] + (IF Farewell(q) THEN 1 ELSE 0) /\ Told(q) \in Nat
    BY <2>6 DEF Told, Farewell
  <2>10. Rank(g, m) <= taken[q] + (IF Farewell(q) THEN 1 ELSE 0)
    BY <2>6, <2>7, <2>8, <2>9
  <2> QED
    BY <1>1, <1>2, <2>2, <2>3, <2>7, <2>10
<1>6. ASSUME NEW r \in Programs
      PROVE  /\ ReadsUpTo(Got(r)', typed'[Peer(r)])
             /\ Rank(Got(r)', Len(Got(r)')) <= taken'[Peer(r)] + (IF Farewell(Peer(r))' THEN 1 ELSE 0)
  BY <1>1, <1>4, <1>5
<1> QED
  BY <1>3, <1>6 DEF InStep

(* A user types one more. *)
LEMMA InStepTypes ==
  ASSUME TypeOK, InStep, UNCHANGED <<pc, printed, wire, toSend, taken>>, NEW p \in Programs,
         taken[p] <= typed[p], ~Farewell(p), typed' = [typed EXCEPT ![p] = typed[p] + 1]
  PROVE  InStep'
<1> DEFINE q == Peer(p)
<1>1. q \in Programs /\ q # p /\ Peer(q) = p /\ \A r \in Programs : r = p \/ r = q
  BY Peers
<1>2. typed'[p] = typed[p] + 1 /\ typed'[q] = typed[q] /\ typed[p] \in Nat /\ taken[p] \in Nat
  BY <1>1, Typing DEF TypeOK
<1>3. \A r \in Programs : /\ Got(r)' = Got(r) /\ Stream(r)' = Stream(r) /\ Told(r)' = Told(r)
                          /\ (Farewell(r)' <=> Farewell(r)) /\ (Stopped(r)' <=> Stopped(r))
  BY DEF Got, Stream, Told, Farewell, Stopped
<1>4. ReadsUpTo(Got(q), typed[p] + 1)
  <2>1. PICK k \in Nat : k = Len(Got(q))
    BY <1>1, Typing
  <2>2. ReadsUpTo(Got(q), typed[p]) /\ Rank(Got(q), k) <= taken[p]
    BY <1>1, <1>2, <2>1 DEF InStep
  <2>3. Rank(Got(q), k) \in Nat
    BY RankType
  <2>4. Rank(Got(q), k) <= typed[p]
    BY <1>2, <2>2, <2>3
  <2> QED
    BY <1>2, <2>1, <2>2, <2>4, ReadsFurther
<1>5. ASSUME ~Stopped(p), ~Stopped(q) PROVE ReadsUpTo(Stream(q), typed[p] + 1)
  <2>1. PICK k \in Nat : k = Len(Stream(q))
    BY <1>1, Typing
  <2>2. ReadsUpTo(Stream(q), typed[p]) /\ Rank(Stream(q), k) = Told(p)
    BY <1>1, <1>5, <2>1 DEF InStep, NothingLost
  <2>3. Told(p) <= typed[p]
    BY <1>2 DEF Told, Farewell
  <2> QED
    BY <1>2, <2>1, <2>2, <2>3, ReadsFurther
<1>6. ASSUME NEW r \in Programs
      PROVE  /\ ReadsUpTo(Got(r)', typed'[Peer(r)])
             /\ Rank(Got(r)', Len(Got(r)')) <= taken'[Peer(r)] + (IF Farewell(Peer(r))' THEN 1 ELSE 0)
  <2>1. CASE r = q
    BY <1>1, <1>2, <1>3, <1>4, <2>1 DEF InStep
  <2>2. CASE r = p
    BY <1>1, <1>2, <1>3, <2>2 DEF InStep
  <2> QED
    BY <1>1, <2>1, <2>2
<1>7. ASSUME NEW r \in Programs, ~Stopped(r)', ~Stopped(Peer(r))'
      PROVE  /\ ReadsUpTo(Stream(r)', typed'[Peer(r)])
             /\ Rank(Stream(r)', Len(Stream(r)')) = Told(Peer(r))'
  <2>1. CASE r = q
    BY <1>1, <1>2, <1>3, <1>5, <1>7, <2>1 DEF InStep, NothingLost
  <2>2. CASE r = p
    BY <1>1, <1>2, <1>3, <1>7, <2>2 DEF InStep, NothingLost
  <2> QED
    BY <1>1, <2>1, <2>2
<1> QED
  BY <1>6, <1>7 DEF InStep, NothingLost

(* A program reads from its user: text of n units, with garbage behind it  *)
(* or not, or the end of the input.                                        *)
LEMMA InStepReads ==
  ASSUME TypeOK, TypeOK', InStep, UNCHANGED <<printed, wire, typed>>, NEW p \in Programs,
         ~Stopped(p), pc[p] # "bye", toSend[p] = <<>>,
         \A r \in Programs : r # p => pc'[r] = pc[r] /\ toSend'[r] = toSend[r] /\ taken'[r] = taken[r],
         NEW t \in Seq(Chars), toSend'[p] = t, pc'[p] \in {"send", "bye"},
         NEW n \in Nat, taken'[p] = taken[p] + n, taken[p] + n <= typed[p],
         \/ /\ pc'[p] = "send"
            /\ \E g \in {0, 1} : /\ Len(t) = n + g
                                 /\ g = 1 => t[n + 1] = Garbage
                                 /\ \A i \in 1..n : t[i] = taken[p] + i
         \/ /\ pc'[p] = "bye" /\ n = 0 /\ taken[p] = typed[p]
            /\ Len(t) = 1 /\ t[1] = Bye
  PROVE  InStep'
<1> DEFINE q == Peer(p)
<1>1. q \in Programs /\ q # p /\ Peer(q) = p /\ \A r \in Programs : r = p \/ r = q
  BY Peers
<1>2. /\ typed[p] \in Nat /\ taken[p] \in Nat /\ typed[p] <= MaxTyped /\ MaxTyped \in Nat
      /\ taken[q] \in Nat /\ typed' = typed /\ taken'[q] = taken[q]
  BY <1>1, Typing, Sizes
<1>3. \A r \in Programs : Got(r)' = Got(r) /\ (Stopped(r)' <=> Stopped(r))
  BY <1>1 DEF Got, Stopped
<1>4. Stream(p)' = Stream(p) /\ Told(q)' = Told(q) /\ (Farewell(q)' <=> Farewell(q))
  BY <1>1, <1>2 DEF Stream, Told, Farewell
<1>5. PICK s \in Seq(Chars) : s = Got(q)
  BY <1>1, Typing
<1>6. PICK k \in Nat, l \in Nat : k = Len(s) /\ l = Len(t)
  BY LenProperties
<1>7. /\ Len(s \o t) = k + l
      /\ \A i \in 1..k + l : (s \o t)[i] = IF i <= k THEN s[i] ELSE t[i - k]
  BY <1>6, ConcatProperties
<1>8. Stream(q)' = s \o t /\ Stream(q) = s
  <2>1. Stream(q)' = s \o t
    BY <1>1, <1>3, <1>5 DEF Stream, Got
  <2>2. Stream(q) = s \o <<>>
    BY <1>1, <1>5, Typing
  <2> QED
    BY <2>1, <2>2, ConcatEmptySeq
<1>9. ASSUME ~Stopped(q)
      PROVE  ReadsUpTo(s \o t, typed[p]) /\ Rank(s \o t, k + l) = Told(p)'
  <2>1. ReadsUpTo(s, typed[p]) /\ Rank(s, k) = taken[p]
    <3>1. Rank(s, k) = Told(p) /\ ReadsUpTo(s, typed[p])
      BY <1>1, <1>6, <1>8, <1>9 DEF InStep, NothingLost
    <3>2. Told(p) = taken[p]
      BY <1>2 DEF Told
    <3> QED
      BY <3>1, <3>2
  <2>2. \A i \in 1..k : (s \o t)[i] = s[i]
    BY <1>7
  <2>3. \A i \in 1..l : (s \o t)[k + i] = t[i]
    <3>1. \A i \in 1..l : k + i \in 1..k + l /\ ~(k + i <= k) /\ (k + i) - k = i
      OBVIOUS
    <3> QED
      BY <1>7, <3>1
  <2>4. CASE pc'[p] = "send"
    <3>1. PICK g \in {0, 1} : /\ Len(t) = n + g
                              /\ g = 1 => t[n + 1] = Garbage
                              /\ \A i \in 1..n : t[i] = taken[p] + i
      BY <2>4
    <3>2. l = n + g /\ k + l = k + n + g
      BY <1>6, <3>1
    <3>3. PICK m \in Nat : m = typed[p]
      BY <1>2
    <3>4. PICK r \in Nat : r = taken[p]
      BY <1>2
    <3>5. TextTold(t, r, n, g)
      BY <3>1, <3>4 DEF TextTold
    <3>6. m <= MaxTyped /\ r + n <= m /\ Reads(s, k, r, m)
      BY <1>2, <1>6, <2>1, <3>3, <3>4 DEF Reads
    <3>7. Reads(s \o t, k + n + g, r + n, m)
      BY <3>5, <3>6, ReadsMore
    <3>8. Told(p)' = taken[p] + n
      BY <1>2, <2>4 DEF Told
    <3> QED
      BY <3>2, <3>3, <3>4, <3>7, <3>8 DEF Reads
  <2>5. CASE pc'[p] = "bye"
    <3>1. l = 1 /\ t[1] = Bye /\ n = 0 /\ taken[p] = typed[p]
      BY <1>6, <2>5
    <3>2. Len(s \o t) = k + 1 /\ (s \o t)[k + 1] = Bye
      BY <1>7, <2>3, <3>1
    <3>3. ReadsUpTo(s \o t, typed[p]) /\ Rank(s \o t, k + 1) = typed[p] + 1
      <4>0. PICK u : u = s \o t
        OBVIOUS
      <4>1. PICK m \in Nat : m = typed[p]
        BY <1>2
      <4>2. /\ Len(s) = k /\ Len(u) = k + 1 /\ Rank(s, k) = m /\ ReadsUpTo(s, m)
            /\ u[k + 1] = Bye /\ \A i \in 1..k : u[i] = s[i]
        BY <1>6, <2>1, <2>2, <3>1, <3>2, <4>0, <4>1
      <4>3. ReadsUpTo(u, m) /\ Rank(u, k + 1) = m + 1
        BY <4>2, ReadsBye
      <4> QED
        BY <4>0, <4>1, <4>3
    <3>4. Told(p)' = typed[p] + 1
      BY <1>2, <2>5, <3>1 DEF Told
    <3> QED
      BY <3>1, <3>3, <3>4
  <2> QED
    BY <2>4, <2>5
<1>10. ASSUME NEW r \in Programs
       PROVE  /\ ReadsUpTo(Got(r)', typed'[Peer(r)])
              /\ Rank(Got(r)', Len(Got(r)')) <= taken'[Peer(r)] + (IF Farewell(Peer(r))' THEN 1 ELSE 0)
  <2>1. CASE r = q
    <3>1. ReadsUpTo(s, typed[p]) /\ Rank(s, k) <= taken[p] + (IF Farewell(p) THEN 1 ELSE 0)
      BY <1>1, <1>5, <1>6 DEF InStep
    <3>2. ~Farewell(p) /\ taken'[p] = taken[p] + n
      BY DEF Farewell, Stopped
    <3>3. Rank(s, k) \in Nat
      BY RankType
    <3>4. Rank(s, k) <= taken'[p] + (IF Farewell(p)' THEN 1 ELSE 0)
      BY <1>2, <3>1, <3>2, <3>3
    <3> QED
      BY <1>1, <1>2, <1>3, <1>5, <1>6, <2>1, <3>1, <3>4
  <2>2. CASE r = p
    BY <1>1, <1>2, <1>3, <1>4, <2>2 DEF InStep
  <2> QED
    BY <1>1, <2>1, <2>2
<1>11. ASSUME NEW r \in Programs, ~Stopped(r)', ~Stopped(Peer(r))'
       PROVE  /\ ReadsUpTo(Stream(r)', typed'[Peer(r)])
              /\ Rank(Stream(r)', Len(Stream(r)')) = Told(Peer(r))'
  <2>1. CASE r = q
    BY <1>1, <1>2, <1>3, <1>7, <1>8, <1>9, <1>11, <2>1
  <2>2. CASE r = p
    BY <1>1, <1>2, <1>3, <1>4, <1>11, <2>2 DEF InStep, NothingLost
  <2> QED
    BY <1>1, <2>1, <2>2
<1> QED
  BY <1>10, <1>11 DEF InStep, NothingLost

-----------------------------------------------------------------------------
(* The steps.                                                              *)

(* A program moves on, and nothing else changes. *)
LEMMA MovesOn ==
  ASSUME IInv, NEW p \in Programs, NEW x \in PcStates, Goto(p, x),
         rfds' \in [Programs -> SUBSET {"stdin", "net"}],
         UNCHANGED <<toSend, printed, taken, userVars, netVars>>,
         ~Farewell(p), x \notin {"bye", "killed"}, toSend[p] = <<>>,
         x = "stdin" => taken[p] < typed[p] \/ eof[p],
         x = "done" => pc[Peer(p)] \in Unconnected /\ link[p] = "up",
         pc[p] \in Unconnected /\ x \notin Unconnected /\ Stopped(Peer(p)) => link[p] # "up"
  PROVE  IInv'
<1> USE DEF userVars, netVars
<1>1. /\ pc' \in [Programs -> PcStates] /\ pc'[p] = x
      /\ \A r \in Programs : r # p => pc'[r] = pc[r]
  BY Moves DEF IInv
<1>2. TypeOK'
  BY <1>1 DEF IInv, TypeOK
<1>3. Buffered'
  <2>1. \A r \in Programs : toSend'[r] = toSend[r] /\ taken'[r] = taken[r] /\ typed'[r] = typed[r] /\ eof'[r] = eof[r]
    OBVIOUS
  <2> QED
    BY <1>1, <2>1 DEF IInv, Buffered
<1>4. InStep'
  <2>1. \A r \in Programs : Got(r)' = Got(r)
    BY DEF Got
  <2>2. ASSUME NEW r \in Programs
        PROVE  /\ Stopped(r) => Stopped(r)'
               /\ Farewell(r) => Farewell(r)'
               /\ toSend'[r] = toSend[r] /\ (pc'[r] = "bye" <=> pc[r] = "bye")
    BY <1>1 DEF Stopped, Farewell
  <2> QED
    BY <2>1, <2>2, InStepStays DEF IInv
<1>5. LinksTrue'
  <2>1. ASSUME NEW r \in Programs
        PROVE  /\ link[Peer(r)] # "up" => pc'[r] = "done"
               /\ Stopped(r)' /\ ~Stopped(Peer(r))' /\ pc'[Peer(r)] \notin Unconnected
                    => link[Peer(r)] # "up"
    <3>1. Peer(p) \in Programs /\ Peer(p) # p /\ Peer(Peer(p)) = p /\ (r = p \/ r = Peer(p))
      BY Peers
    <3>2. /\ link[Peer(r)] # "up" => pc[r] = "done"
          /\ Stopped(r) /\ ~Stopped(Peer(r)) /\ pc[Peer(r)] \notin Unconnected => link[Peer(r)] # "up"
      BY DEF IInv, LinksTrue
    <3>3. CASE r = p
      BY <1>1, <3>1, <3>2, <3>3 DEF Stopped, Farewell
    <3>4. CASE r = Peer(p)
      BY <1>1, <3>1, <3>2, <3>4 DEF Stopped, Farewell
    <3> QED
      BY <3>1, <3>3, <3>4
  <2> QED
    BY <2>1 DEF LinksTrue
<1> QED
  BY <1>2, <1>3, <1>4, <1>5 DEF IInv

(* The users. *)
LEMMA TypeStep ==
  ASSUME IInv, NEW p \in Programs, Type(p)
  PROVE  IInv'
<1>1. /\ typed' = [typed EXCEPT ![p] = typed[p] + 1] /\ typed[p] < MaxTyped /\ ~Stopped(p) /\ ~eof[p]
      /\ UNCHANGED <<pc, rfds, toSend, printed, taken, eof, wire, link>>
  BY DEF Type, netVars
<1>2. taken[p] <= typed[p] /\ ~Farewell(p)
  BY <1>1 DEF IInv, Buffered, Farewell, Stopped
<1>3. TypeOK'
  <2>1. typed' \in [Programs -> 0..MaxTyped]
    <3>1. typed[p] + 1 \in 0..MaxTyped
      BY <1>1, Sizes DEF IInv, TypeOK
    <3> QED
      BY <1>1, <3>1 DEF IInv, TypeOK
  <2> QED
    BY <1>1, <2>1 DEF IInv, TypeOK
<1>4. InStep'
  BY <1>1, <1>2, InStepTypes DEF IInv
<1>5. LinksTrue'
  BY <1>1 DEF IInv, LinksTrue, Stopped
<1>6. Buffered'
  <2>1. \A r \in Programs : typed'[r] = (IF r = p THEN typed[r] + 1 ELSE typed[r])
    BY <1>1 DEF IInv, TypeOK
  <2>2. ASSUME NEW r \in Programs
        PROVE  /\ taken[r] <= typed'[r]
               /\ pc[r] = "stdin" => taken[r] < typed'[r] \/ eof[r]
               /\ pc[r] = "bye" => taken[r] = typed'[r] /\ eof[r]
               /\ pc[r] \notin {"send", "bye", "done", "killed"} => toSend[r] = <<>>
    <3>1. taken[r] \in Nat /\ typed[r] \in Nat
      BY Typing DEF IInv
    <3> QED
      BY <1>2, <2>1, <3>1 DEF IInv, Buffered, Farewell
  <2> QED
    BY <1>1, <2>2 DEF Buffered
<1> QED
  BY <1>3, <1>4, <1>5, <1>6 DEF IInv

LEMMA CloseStdinStep ==
  ASSUME IInv, NEW p \in Programs, CloseStdin(p)
  PROVE  IInv'
<1>1. /\ eof' = [eof EXCEPT ![p] = TRUE]
      /\ UNCHANGED <<pc, rfds, toSend, printed, taken, typed, wire, link>>
  BY DEF CloseStdin, netVars
<1>2. \A r \in Programs : eof'[r] = (IF r = p THEN TRUE ELSE eof[r])
  BY <1>1 DEF IInv, TypeOK
<1>3. TypeOK'
  <2>1. eof' \in [Programs -> BOOLEAN]
    BY <1>1 DEF IInv, TypeOK
  <2> QED
    BY <1>1, <2>1 DEF IInv, TypeOK
<1>4. InStep'
  <2>1. \A r \in Programs : Got(r)' = Got(r) /\ (Stopped(r)' <=> Stopped(r)) /\ (Farewell(r)' <=> Farewell(r))
    BY <1>1 DEF Got, Stopped, Farewell
  <2> QED
    BY <1>1, <2>1, InStepStays DEF IInv
<1>5. LinksTrue'
  BY <1>1 DEF IInv, LinksTrue, Stopped
<1>6. Buffered'
  <2>1. \A r \in Programs : eof[r] => eof'[r]
    BY <1>2
  <2> QED
    BY <1>1, <2>1 DEF IInv, Buffered
<1> QED
  BY <1>3, <1>4, <1>5, <1>6 DEF IInv

(* Whatever a program does that is left alone with its connection. *)
LEMMA AloneSteps ==
  ASSUME IInv, TypeOK', NEW p \in Programs, ~Stopped(p), link[p] # "up", link'[p] # "up",
         UNCHANGED <<printed, taken, typed, eof, wire>>,
         \A r \in Programs : r # p => pc'[r] = pc[r] /\ toSend'[r] = toSend[r] /\ link'[r] = link[r],
         pc'[p] \notin {"done", "stdin"}, Farewell(p) => Farewell(p)',
         pc'[p] = "bye" => pc[p] = "bye",
         pc'[p] \notin {"send", "bye", "killed"} => toSend'[p] = <<>>
  PROVE  IInv'
<1> DEFINE q == Peer(p)
<1>1. q \in Programs /\ q # p /\ Peer(q) = p /\ \A r \in Programs : r = p \/ r = q
  BY Peers
<1>2. pc[q] = "done" /\ pc'[q] = "done" /\ link[q] = "up" /\ link'[q] = "up"
  BY <1>1 DEF IInv, LinksTrue, Stopped
<1>3. LinksTrue'
  <2>1. ASSUME NEW r \in Programs
        PROVE  /\ link'[Peer(r)] # "up" => pc'[r] = "done"
               /\ Stopped(r)' /\ ~Stopped(Peer(r))' /\ pc'[Peer(r)] \notin Unconnected
                    => link'[Peer(r)] # "up"
    BY <1>1, <1>2 DEF Stopped
  <2> QED
    BY <2>1 DEF LinksTrue
<1>4. InStep'
  <2>1. ASSUME NEW r \in Programs
        PROVE  /\ Got(r)' = Got(r)
               /\ Stopped(r) => Stopped(r)'
               /\ Farewell(r) => Farewell(r)'
               /\ ~(~Stopped(r)' /\ ~Stopped(Peer(r))')
    BY <1>1, <1>2 DEF Got, Stopped, Farewell
  <2> QED
    BY <2>1, InStepStays DEF IInv
<1>5. Buffered'
  <2>1. ASSUME NEW r \in Programs
        PROVE  /\ taken'[r] <= typed'[r]
               /\ pc'[r] = "stdin" => taken'[r] < typed'[r] \/ eof'[r]
               /\ pc'[r] = "bye" => taken'[r] = typed'[r] /\ eof'[r]
               /\ pc'[r] \notin {"send", "bye", "done", "killed"} => toSend'[r] = <<>>
    <3>1. /\ taken[r] <= typed[r]
          /\ pc[r] = "bye" => taken[r] = typed[r] /\ eof[r]
      BY DEF IInv, Buffered
    <3>2. CASE r = p
      BY <3>1, <3>2
    <3>3. CASE r = q
      BY <1>1, <1>2, <3>1, <3>3
    <3> QED
      BY <1>1, <3>2, <3>3
  <2> QED
    BY <2>1 DEF Buffered
<1> QED
  BY <1>3, <1>4, <1>5 DEF IInv

LEMMA PushLostStep ==
  ASSUME IInv, NEW p \in Programs, PushLost(p)
  PROVE  IInv'
<1>1. PICK l \in {"fin", "dead"} : link' = [link EXCEPT ![p] = l]
  BY DEF PushLost
<1>2. /\ pc[p] \in {"send", "bye"} /\ toSend[p] # <<>> /\ link[p] = "fin"
      /\ toSend' = [toSend EXCEPT ![p] = Tail(toSend[p])]
      /\ UNCHANGED <<pc, rfds, printed, taken, typed, eof, wire>>
  BY DEF PushLost, Sending, userVars
<1>3. Tail(toSend[p]) \in Seq(0..Garbage)
  BY <1>2, Typing, HeadTailProperties DEF IInv, Chars
<1>4. TypeOK'
  <2>1. link' \in [Programs -> Links]
    BY <1>1 DEF IInv, TypeOK, Links
  <2>2. toSend' \in [Programs -> Seq(0..Garbage)]
    BY <1>2, <1>3 DEF IInv, TypeOK
  <2> QED
    BY <1>2, <2>1, <2>2 DEF IInv, TypeOK
<1>5. link'[p] = l /\ \A r \in Programs : r # p => pc'[r] = pc[r] /\ toSend'[r] = toSend[r] /\ link'[r] = link[r]
  BY <1>1, <1>2 DEF IInv, TypeOK
<1>6. ~Stopped(p) /\ (Farewell(p) => Farewell(p)')
  BY <1>2 DEF Stopped, Farewell
<1> QED
  BY <1>2, <1>4, <1>5, <1>6, AloneSteps

LEMMA SendFailsStep ==
  ASSUME IInv, NEW p \in Programs, SendFails(p)
  PROVE  IInv'
<1>1. /\ pc[p] \in {"send", "bye"} /\ toSend[p] # <<>> /\ link[p] = "rst"
      /\ link' = [link EXCEPT ![p] = "dead"]
      /\ toSend' = [toSend EXCEPT ![p] = <<>>]
      /\ UNCHANGED <<pc, rfds, printed, taken, typed, eof, wire>>
  BY DEF SendFails, Sending, userVars
<1>2. TypeOK'
  <2>1. link' \in [Programs -> Links]
    BY <1>1 DEF IInv, TypeOK, Links
  <2>2. toSend' \in [Programs -> Seq(0..Garbage)]
    BY <1>1 DEF IInv, TypeOK
  <2> QED
    BY <1>1, <2>1, <2>2 DEF IInv, TypeOK
<1>3. /\ link'[p] = "dead"
      /\ \A r \in Programs : r # p => pc'[r] = pc[r] /\ toSend'[r] = toSend[r] /\ link'[r] = link[r]
  BY <1>1 DEF IInv, TypeOK
<1>4. ~Stopped(p) /\ (Farewell(p) => Farewell(p)')
  BY <1>1 DEF Stopped, Farewell
<1> QED
  BY <1>1, <1>2, <1>3, <1>4, AloneSteps

LEMMA KilledStep ==
  ASSUME IInv, NEW p \in Programs, Killed(p)
  PROVE  IInv'
<1>1. /\ pc[p] \in {"send", "bye"} /\ link[p] = "dead" /\ Goto(p, "killed") /\ Cleared(p)
      /\ UNCHANGED <<toSend, printed, taken, typed, eof, wire, link>>
  BY DEF Killed, Sending, userVars, netVars
<1>2. "killed" \in PcStates
  BY DEF PcStates
<1>3. /\ pc' \in [Programs -> PcStates] /\ pc'[p] = "killed"
      /\ \A r \in Programs : r # p => pc'[r] = pc[r]
  BY <1>1, <1>2, Moves DEF IInv
<1>4. TypeOK'
  BY <1>1, <1>3, RfdsCleared DEF IInv, TypeOK
<1>5. ~Stopped(p) /\ (Farewell(p) => Farewell(p)')
  BY <1>1, <1>3 DEF Stopped, Farewell
<1> QED
  BY <1>1, <1>3, <1>4, <1>5, AloneSteps

(* An error is reported to a program that reads, or was reported before. *)
LEMMA ErrorStep ==
  ASSUME IInv, NEW p \in Programs, NEW x \in PcStates, Goto(p, x), link[p] # "up",
         link' = [link EXCEPT ![p] = IF link[p] = "rst" THEN "dead" ELSE link[p]],
         rfds' \in [Programs -> SUBSET {"stdin", "net"}],
         UNCHANGED <<toSend, printed, taken, userVars, wire>>,
         pc[p] \notin {"send", "bye", "done", "killed"}, x \notin {"done", "stdin", "bye"}
  PROVE  IInv'
<1>1. UNCHANGED <<toSend, printed, taken, typed, eof, wire>>
  BY DEF userVars
<1>2. /\ pc' \in [Programs -> PcStates] /\ pc'[p] = x
      /\ \A r \in Programs : r # p => pc'[r] = pc[r]
  BY Moves DEF IInv
<1>3. (IF link[p] = "rst" THEN "dead" ELSE link[p]) \in Links
  BY DEF IInv, TypeOK, Links
<1>4. TypeOK'
  <2>1. link' \in [Programs -> Links]
    BY <1>3 DEF IInv, TypeOK
  <2> QED
    BY <1>1, <1>2, <2>1 DEF IInv, TypeOK
<1>5. link'[p] # "up" /\ \A r \in Programs : r # p => link'[r] = link[r]
  BY DEF IInv, TypeOK
<1>6. ~Stopped(p) /\ ~Farewell(p) /\ toSend[p] = <<>>
  BY DEF IInv, Buffered, Stopped, Farewell
<1> QED
  BY <1>1, <1>2, <1>4, <1>5, <1>6, AloneSteps

LEMMA MinOfTwo ==
  ASSUME NEW a \in Nat, NEW b \in Nat
  PROVE  /\ Min({a, b}) \in Nat /\ Min({a, b}) <= a /\ Min({a, b}) <= b
         /\ Min({a, b}) = a \/ Min({a, b}) = b
<1>1. \E x \in {a, b} : \A y \in {a, b} : x <= y
  OBVIOUS
<1>2. Min({a, b}) \in {a, b} /\ \A y \in {a, b} : Min({a, b}) <= y
  BY <1>1 DEF Min
<1> QED
  BY <1>2

(* What was under way is shown. *)
LEMMA ReceivesStep ==
  ASSUME IInv, NEW p \in Programs, NEW room \in Nat, Receives(p, room), NEW x \in PcStates, Goto(p, x),
         rfds' \in [Programs -> SUBSET {"stdin", "net"}],
         UNCHANGED <<toSend, taken, userVars, link>>,
         pc[p] \notin {"send", "bye", "done", "killed"} \cup Unconnected,
         x \notin {"stdin", "bye", "done", "killed"} \cup Unconnected
  PROVE  IInv'
<1> DEFINE n == Min({room, Len(wire[p])})
<1>1. /\ printed' = [printed EXCEPT ![p] = printed[p] \o SubSeq(wire[p], 1, n)]
      /\ wire' = [wire EXCEPT ![p] = SubSeq(wire[p], n + 1, Len(wire[p]))]
      /\ UNCHANGED <<toSend, taken, typed, eof, link>>
  BY DEF Receives, userVars
<1>2. printed[p] \in Seq(Chars) /\ wire[p] \in Seq(Chars) /\ Len(wire[p]) \in Nat /\ Len(wire[p]) <= SockCap
  BY Typing, LenProperties DEF IInv, TypeOK
<1>3. n \in 0..Len(wire[p])
  <2>1. PICK m \in Nat : m = Len(wire[p])
    BY <1>2
  <2>2. Min({room, m}) \in 0..m
    BY MinOfTwo
  <2> QED
    BY <2>1, <2>2
<1> HIDE DEF n
<1>4. PICK b : b = SubSeq(wire[p], 1, n)
  OBVIOUS
<1>5. PICK c : c = SubSeq(wire[p], n + 1, Len(wire[p]))
  OBVIOUS
<1>6. /\ b \in Seq(Chars) /\ c \in Seq(Chars) /\ Len(c) <= Len(wire[p])
      /\ (printed[p] \o b) \o c = printed[p] \o wire[p]
  <2>1. PICK w \in Seq(Chars) : w = wire[p]
    BY <1>2
  <2>2. PICK a \in Seq(Chars) : a = printed[p]
    BY <1>2
  <2>3. PICK m \in 0..Len(w) : m = n
    BY <1>3, <2>1
  <2>4. SameOnScreen(Chars, a, w, m)
    BY MovedToScreen
  <2> QED
    BY <1>4, <1>5, <2>1, <2>2, <2>3, <2>4 DEF SameOnScreen
<1>7. PICK a \in Seq(Chars) : a = printed[p] \o b
  BY <1>2, <1>6, ConcatProperties
<1>8. printed' = [printed EXCEPT ![p] = a] /\ wire' = [wire EXCEPT ![p] = c]
  BY <1>1, <1>4, <1>5, <1>7
<1>9. /\ pc' \in [Programs -> PcStates] /\ pc'[p] = x
      /\ \A r \in Programs : r # p => pc'[r] = pc[r]
  BY Moves DEF IInv
<1>10. TypeOK'
  <2>1. printed' \in [Programs -> Seq(0..Garbage)] /\ wire' \in [Programs -> Seq(0..Garbage)]
    BY <1>6, <1>8 DEF IInv, TypeOK, Chars
  <2>2. \A r \in Programs : Len(wire'[r]) <= SockCap
    <3>1. Len(c) <= SockCap
      <4>1. Len(c) \in Nat /\ SockCap \in Nat
        BY <1>6, Sizes, LenProperties
      <4> QED
        BY <1>2, <1>6, <4>1
    <3>2. \A r \in Programs : wire'[r] = IF r = p THEN c ELSE wire[r]
      BY <1>8 DEF IInv, TypeOK
    <3> QED
      BY <3>1, <3>2 DEF IInv, TypeOK
  <2> QED
    BY <1>1, <1>9, <2>1, <2>2 DEF IInv, TypeOK
<1>11. ASSUME NEW r \in Programs
       PROVE  /\ Got(r)' = Got(r)
              /\ (Stopped(r) <=> Stopped(r)') /\ (Farewell(r) <=> Farewell(r)')
              /\ (pc'[r] = "bye" <=> pc[r] = "bye")
  <2>1. Got(r)' = Got(r)
    <3>1. printed'[p] = a /\ wire'[p] = c /\ (r # p => printed'[r] = printed[r] /\ wire'[r] = wire[r])
      BY <1>8 DEF IInv, TypeOK
    <3> QED
      BY <1>6, <1>7, <3>1 DEF Got
  <2>2. r # p \/ r = p
    OBVIOUS
  <2> QED
    BY <1>9, <2>1, <2>2 DEF Stopped, Farewell
<1>12. InStep'
  BY <1>1, <1>11, InStepStays DEF IInv
<1>13. LinksTrue'
  <2>1. ASSUME NEW r \in Programs
        PROVE  /\ pc[r] = "done" => pc'[r] = "done"
               /\ pc'[r] \notin Unconnected => pc[r] \notin Unconnected
    <3>1. CASE r = p
      BY <1>9, <3>1 DEF Unconnected
    <3>2. CASE r # p
      BY <1>9, <3>2
    <3> QED
      BY <3>1, <3>2
  <2> QED
    BY <1>1, <1>11, <2>1, LinksStay DEF IInv
<1>14. Buffered'
  <2>1. ASSUME NEW r \in Programs
        PROVE  /\ taken[r] <= typed[r]
               /\ pc'[r] = "stdin" => taken[r] < typed[r] \/ eof[r]
               /\ pc'[r] = "bye" => taken[r] = typed[r] /\ eof[r]
               /\ pc'[r] \notin {"send", "bye", "done", "killed"} => toSend[r] = <<>>
    <3>1. CASE r = p
      BY <1>9, <3>1 DEF IInv, Buffered
    <3>2. CASE r # p
      BY <1>9, <3>2 DEF IInv, Buffered
    <3> QED
      BY <3>1, <3>2
  <2> QED
    BY <1>1, <2>1 DEF Buffered
<1> QED
  BY <1>10, <1>12, <1>13, <1>14 DEF IInv

(* A unit is handed over. *)
LEMMA PushStep ==
  ASSUME IInv, NEW p \in Programs, Push(p)
  PROVE  IInv'
<1> DEFINE q == Peer(p)
<1>1. q \in Programs /\ q # p /\ Peer(q) = p /\ \A r \in Programs : r = p \/ r = q
  BY Peers
<1> HIDE DEF q
<1>2. /\ pc[p] \in {"send", "bye"} /\ toSend[p] # <<>> /\ link[p] = "up" /\ Len(wire[q]) < SockCap
      /\ wire' = [wire EXCEPT ![q] = Append(wire[q], Head(toSend[p]))]
      /\ toSend' = [toSend EXCEPT ![p] = Tail(toSend[p])]
      /\ UNCHANGED <<pc, rfds, printed, taken, typed, eof, link>>
  BY DEF Push, Sending, userVars, q
<1>3. PICK t \in Seq(Chars) : t = toSend[p]
  BY Typing DEF IInv
<1>4. PICK w \in Seq(Chars) : w = wire[q]
  BY <1>1, Typing DEF IInv
<1>5. PICK a \in Seq(Chars) : a = printed[q]
  BY <1>1, Typing DEF IInv
<1>6. /\ Head(t) \in Chars /\ Tail(t) \in Seq(Chars) /\ Append(w, Head(t)) \in Seq(Chars)
      /\ a \o Append(w, Head(t)) \o Tail(t) = a \o w \o t
  <2>1. t # <<>>
    BY <1>2, <1>3
  <2>2. SameOnWire(Chars, a, w, t)
    BY <2>1, MovedToWire
  <2> QED
    BY <2>2 DEF SameOnWire
<1>7. PICK v \in Seq(Chars) : v = Append(w, Head(t))
  BY <1>6
<1>8. PICK u \in Seq(Chars) : u = Tail(t)
  BY <1>6
<1>9. wire' = [wire EXCEPT ![q] = v] /\ toSend' = [toSend EXCEPT ![p] = u]
  BY <1>2, <1>3, <1>4, <1>7, <1>8
<1>10. /\ wire'[q] = v /\ wire'[p] = wire[p] /\ toSend'[p] = u /\ toSend'[q] = toSend[q]
       /\ wire' \in [Programs -> Seq(Chars)] /\ toSend' \in [Programs -> Seq(Chars)]
  BY <1>1, <1>9 DEF IInv, TypeOK, Chars
<1>11. TypeOK'
  <2>1. Len(v) = Len(w) + 1 /\ Len(w) < SockCap /\ Len(w) \in Nat /\ SockCap \in Nat
    BY <1>2, <1>4, <1>6, <1>7, Sizes, AppendProperties, LenProperties
  <2>2. Len(v) <= SockCap
    BY <2>1
  <2>3. Len(wire[p]) <= SockCap
    BY DEF IInv, TypeOK
  <2>4. \A r \in Programs : Len(wire'[r]) <= SockCap
    BY <1>1, <1>10, <2>2, <2>3
  <2> QED
    BY <1>2, <1>10, <2>4 DEF IInv, TypeOK, Chars
<1>12. Stream(q)' = Stream(q) /\ Stream(p)' = Stream(p) /\ Got(p)' = Got(p)
  <2>1. Stream(q)' = a \o v \o u /\ Stream(q) = a \o w \o t
    BY <1>1, <1>2, <1>3, <1>4, <1>5, <1>10 DEF Stream
  <2>2. Stream(p)' = Stream(p) /\ Got(p)' = Got(p)
    BY <1>1, <1>2, <1>10 DEF Stream, Got, q
  <2> QED
    BY <1>6, <1>7, <1>8, <2>1, <2>2
<1>13. InStep'
  <2>1. ~Stopped(p) /\ ~Stopped(p)'
    BY <1>2 DEF Stopped
  <2>2. CASE Stopped(q)
    BY <1>1, <1>2, <2>1, <2>2 DEF IInv, LinksTrue, Unconnected
  <2>3. CASE ~Stopped(q)
    <3>1. ~Stopped(q)' /\ \A r \in Programs : pc'[r] = "bye" <=> pc[r] = "bye"
      BY <1>2, <2>3 DEF Stopped
    <3>2. Stream(Peer(q))' = Stream(Peer(q)) /\ Got(Peer(q))' = Got(Peer(q)) /\ Peer(q) = p
      BY <1>1, <1>12
    <3> QED
      BY <1>1, <1>2, <1>11, <1>12, <2>1, <2>3, <3>1, <3>2, InStepFlows DEF IInv
  <2> QED
    BY <2>2, <2>3
<1>14. LinksTrue'
  BY <1>2 DEF IInv, LinksTrue, Stopped
<1>15. Buffered'
  <2>1. ASSUME NEW r \in Programs
        PROVE  pc[r] \notin {"send", "bye", "done", "killed"} => toSend'[r] = <<>>
    BY <1>1, <1>2, <1>10 DEF IInv, Buffered
  <2> QED
    BY <1>2, <2>1 DEF IInv, Buffered
<1> QED
  BY <1>11, <1>13, <1>14, <1>15 DEF IInv

(* What is unread is lost, and so may be what is under way to the peer. *)
LEMMA CloseStep ==
  ASSUME IInv, NEW p \in Programs, Close(p), ~Stopped(p), pc[p] \notin Unconnected,
         rfds' \in [Programs -> SUBSET {"stdin", "net"}],
         UNCHANGED <<toSend, printed, taken, userVars>>
  PROVE  IInv'
<1> DEFINE q == Peer(p)
<1>1. q \in Programs /\ q # p /\ Peer(q) = p /\ \A r \in Programs : r = p \/ r = q
  BY Peers
<1> HIDE DEF q
<1>2. /\ Goto(p, "done") /\ "done" \in PcStates
      /\ UNCHANGED <<toSend, printed, taken, typed, eof>>
  BY DEF Close, PcStates, userVars
<1>3. /\ pc' \in [Programs -> PcStates] /\ pc'[p] = "done" /\ pc'[q] = pc[q]
  BY <1>1, <1>2, Moves DEF IInv
<1>4. /\ wire[p] \in Seq(Chars) /\ wire[q] \in Seq(Chars) /\ Len(wire[p]) \in Nat /\ Len(wire[q]) \in Nat
      /\ Len(wire[p]) <= SockCap /\ Len(wire[q]) <= SockCap /\ SockCap \in Nat
  BY <1>1, Typing, LenProperties, Sizes DEF IInv, TypeOK
<1>5. /\ link' \in [Programs -> Links] /\ link'[p] = link[p] /\ link'[q] # "up"
      /\ link[q] # "up" => link'[q] = link[q]
  <2>1. PICK l \in {"fin", "rst"} : link' = [link EXCEPT ![q] = IF link[q] = "up" THEN l ELSE link[q]]
    BY DEF Close, q
  <2> QED
    BY <1>1, <2>1 DEF IInv, TypeOK, Links
<1>6. /\ wire' \in [Programs -> Seq(Chars)]
      /\ \A r \in Programs : /\ Len(wire'[r]) <= Len(wire[r])
                             /\ \A i \in 1..Len(wire'[r]) : wire'[r][i] = wire[r][i]
  <2>1. CASE wire' = wire
    BY <2>1, <1>1, <1>4 DEF IInv, TypeOK, Chars
  <2>2. ASSUME NEW n \in 0..Len(wire[q]), wire' = [wire EXCEPT ![p] = <<>>, ![q] = SubSeq(wire[q], 1, n)]
        PROVE  /\ wire' \in [Programs -> Seq(Chars)]
               /\ \A r \in Programs : /\ Len(wire'[r]) <= Len(wire[r])
                                      /\ \A i \in 1..Len(wire'[r]) : wire'[r][i] = wire[r][i]
    <3>1. PICK w \in Seq(Chars) : w = wire[q]
      BY <1>4
    <3>2. PICK m \in Nat : m = n
      BY <1>4, <2>2
    <3>3. m <= Len(w) /\ \A i \in 1..m : w[i] \in Chars
      BY <1>4, <2>2, <3>1, <3>2, ElementOfSeq
    <3>4. PICK v : v = SubSeq(w, 1, m)
      OBVIOUS
    <3>5. v \in Seq(Chars) /\ Len(v) = m /\ \A i \in 1..m : v[i] = w[i]
      BY <3>2, <3>3, <3>4, SubSeqProperties
    <3>6. PICK e : e = <<>> /\ e \in Seq(Chars)
      BY EmptySeq
    <3>7. wire' = [wire EXCEPT ![p] = e, ![q] = v]
      BY <2>2, <3>1, <3>2, <3>4, <3>6
    <3>8. wire' = [r \in Programs |-> IF r = q THEN v ELSE IF r = p THEN e ELSE wire[r]]
      BY <1>1, <3>7 DEF IInv, TypeOK
    <3>9. wire'[p] = e /\ wire'[q] = v /\ wire' \in [Programs -> Seq(Chars)]
      <4>1. e \in Seq(Chars)
        BY <3>6
      <4> QED
        BY <1>1, <3>5, <3>8, <4>1 DEF IInv, TypeOK, Chars
    <3>10. Len(e) = 0
      BY <3>6
    <3>11. Len(v) <= Len(wire[q]) /\ \A i \in 1..Len(v) : v[i] = wire[q][i]
      BY <1>4, <3>1, <3>2, <3>3, <3>5
    <3>12. Len(e) <= Len(wire[p]) /\ \A i \in 1..Len(e) : e[i] = wire[p][i]
      BY <1>4, <3>10
    <3> QED
      BY <1>1, <3>9, <3>11, <3>12
  <2>3. wire' = wire \/ \E n \in 0..Len(wire[q]) : wire' = [wire EXCEPT ![p] = <<>>, ![q] = SubSeq(wire[q], 1, n)]
    BY DEF Close, q
  <2> QED
    BY <2>1, <2>2, <2>3
<1>7. TypeOK'
  <2>1. \A r \in Programs : Len(wire'[r]) <= SockCap
    <3>1. ASSUME NEW r \in Programs PROVE Len(wire'[r]) <= SockCap
      <4>1. Len(wire'[r]) \in Nat
        BY <1>6, LenProperties
      <4>2. Len(wire'[r]) <= Len(wire[r]) /\ Len(wire[r]) <= SockCap /\ Len(wire[r]) \in Nat
        BY <1>1, <1>4, <1>6
      <4> QED
        BY <1>4, <4>1, <4>2
    <3> QED
      BY <3>1
  <2> QED
    BY <1>2, <1>3, <1>5, <1>6, <2>1 DEF IInv, TypeOK, Chars
<1>8. InStep'
  <2>1. \A r \in Programs : Farewell(r) => Farewell(r)'
    BY <1>1, <1>3 DEF Farewell
  <2>2. Stopped(p)'
    BY <1>3 DEF Stopped
  <2> QED
    BY <1>2, <1>6, <1>7, <2>1, <2>2, InStepEnds DEF IInv
<1>9. LinksTrue'
  <2>1. ASSUME NEW r \in Programs
        PROVE  /\ link'[Peer(r)] # "up" => pc'[r] = "done"
               /\ Stopped(r)' /\ ~Stopped(Peer(r))' /\ pc'[Peer(r)] \notin Unconnected
                    => link'[Peer(r)] # "up"
    <3>1. CASE r = p
      BY <1>3, <1>5, <3>1 DEF q
    <3>2. CASE r = q
      BY <1>1, <1>3, <1>5, <3>2 DEF IInv, LinksTrue, Stopped
    <3> QED
      BY <1>1, <3>1, <3>2
  <2> QED
    BY <2>1 DEF LinksTrue
<1>10. Buffered'
  <2>1. ASSUME NEW r \in Programs
        PROVE  /\ taken[r] <= typed[r]
               /\ pc'[r] = "stdin" => taken[r] < typed[r] \/ eof[r]
               /\ pc'[r] = "bye" => taken[r] = typed[r] /\ eof[r]
               /\ pc'[r] \notin {"send", "bye", "done", "killed"} => toSend[r] = <<>>
    BY <1>1, <1>3 DEF IInv, Buffered
  <2> QED
    BY <1>2, <2>1 DEF Buffered
<1> QED
  BY <1>7, <1>8, <1>9, <1>10 DEF IInv

(* A program reads from its user. *)
LEMMA ReadsStep ==
  ASSUME IInv, NEW p \in Programs, NEW x \in {"send", "bye"}, Goto(p, x), NEW t \in Seq(Chars),
         toSend' = [toSend EXCEPT ![p] = t], NEW n \in Nat, taken[p] + n <= typed[p],
         taken' = [taken EXCEPT ![p] = taken[p] + n],
         rfds' \in [Programs -> SUBSET {"stdin", "net"}],
         UNCHANGED <<printed, userVars, netVars>>,
         pc[p] \in {"stdin", "batch"},
         \/ x = "send" /\ \E g \in {0, 1} : TextTold(t, taken[p], n, g)
         \/ x = "bye" /\ n = 0 /\ taken[p] = typed[p] /\ eof[p] /\ Len(t) = 1 /\ t[1] = Bye
  PROVE  IInv'
<1>1. /\ taken[p] \in Nat /\ typed[p] \in Nat /\ typed[p] <= MaxTyped /\ MaxTyped \in Nat
      /\ UNCHANGED <<printed, typed, eof, wire, link>>
  BY Typing, Sizes DEF IInv, userVars, netVars
<1>2. /\ pc' \in [Programs -> PcStates] /\ pc'[p] = x
      /\ \A r \in Programs : r # p => pc'[r] = pc[r]
  <2>1. x \in PcStates
    BY DEF PcStates
  <2> QED
    BY <2>1, Moves DEF IInv
<1>3. /\ toSend' \in [Programs -> Seq(Chars)] /\ toSend'[p] = t
      /\ taken' \in [Programs -> 0..MaxTyped] /\ taken'[p] = taken[p] + n
      /\ \A r \in Programs : r # p => toSend'[r] = toSend[r] /\ taken'[r] = taken[r]
  <2>1. taken[p] + n \in 0..MaxTyped
    BY <1>1
  <2> QED
    BY <2>1 DEF IInv, TypeOK, Chars
<1>4. TypeOK'
  BY <1>1, <1>2, <1>3 DEF IInv, TypeOK, Chars
<1>5. toSend[p] = <<>> /\ ~Stopped(p) /\ pc[p] # "bye"
  BY DEF IInv, Buffered, Stopped
<1>6. InStep'
  <2>1. \/ /\ pc'[p] = "send"
           /\ \E g \in {0, 1} : /\ Len(t) = n + g
                                /\ g = 1 => t[n + 1] = Garbage
                                /\ \A i \in 1..n : t[i] = taken[p] + i
        \/ /\ pc'[p] = "bye" /\ n = 0 /\ taken[p] = typed[p]
           /\ Len(t) = 1 /\ t[1] = Bye
    BY <1>2 DEF TextTold
  <2> QED
    BY <1>1, <1>2, <1>3, <1>4, <1>5, <2>1, InStepReads DEF IInv
<1>7. LinksTrue'
  <2>1. ASSUME NEW r \in Programs
        PROVE  /\ pc[r] = "done" => pc'[r] = "done"
               /\ (Stopped(r)' <=> Stopped(r))
               /\ pc'[r] \notin Unconnected => pc[r] \notin Unconnected
    <3>1. CASE r = p
      BY <1>2, <3>1 DEF Unconnected, Stopped
    <3>2. CASE r # p
      BY <1>2, <3>2 DEF Stopped
    <3> QED
      BY <3>1, <3>2
  <2> QED
    BY <1>1, <2>1, LinksStay DEF IInv
<1>8. Buffered'
  <2>1. ASSUME NEW r \in Programs
        PROVE  /\ taken'[r] <= typed[r]
               /\ pc'[r] = "stdin" => taken'[r] < typed[r] \/ eof[r]
               /\ pc'[r] = "bye" => taken'[r] = typed[r] /\ eof[r]
               /\ pc'[r] \notin {"send", "bye", "done", "killed"} => toSend'[r] = <<>>
    <3>1. CASE r = p
      <4>1. taken'[p] <= typed[p] /\ pc'[p] \in {"send", "bye"}
        BY <1>2, <1>3
      <4>2. pc'[p] = "bye" => taken'[p] = typed[p] /\ eof[p]
        BY <1>1, <1>2, <1>3
      <4> QED
        BY <3>1, <4>1, <4>2
    <3>2. CASE r # p
      BY <1>2, <1>3, <3>2 DEF IInv, Buffered
    <3> QED
      BY <3>1, <3>2
  <2> QED
    BY <1>1, <2>1 DEF Buffered
<1> QED
  BY <1>4, <1>6, <1>7, <1>8 DEF IInv

Text(r, n) == [k \in 1..n |-> r + k]

LEMMA TextRead ==
  ASSUME NEW r \in Nat, NEW n \in Nat, r + n <= MaxTyped
  PROVE  /\ Text(r, n) \in Seq(Chars) /\ Len(Text(r, n)) = n /\ TextTold(Text(r, n), r, n, 0)
         /\ Append(Text(r, n), Garbage) \in Seq(Chars) /\ TextTold(Append(Text(r, n), Garbage), r, n, 1)
<1>1. MaxTyped \in Nat /\ Garbage = MaxTyped + 1
  BY Sizes
<1>2. PICK t : t = Text(r, n)
  OBVIOUS
<1>3. t \in Seq(Chars) /\ Len(t) = n /\ \A i \in 1..n : t[i] = r + i
  <2>1. t = [k \in 1..n |-> r + k]
    BY <1>2 DEF Text
  <2>2. \A k \in 1..n : r + k \in Chars
    BY <1>1 DEF Chars
  <2>3. t \in [1..n -> Chars]
    BY <2>1, <2>2
  <2> QED
    BY <2>1, <2>3
<1>4. TextTold(t, r, n, 0)
  BY <1>3 DEF TextTold
<1>5. PICK z \in Chars : z = Garbage
  BY <1>1 DEF Chars
<1>6. PICK u : u = Append(t, z)
  OBVIOUS
<1>7. u \in Seq(Chars) /\ Len(u) = n + 1 /\ u[n + 1] = z /\ \A i \in 1..n : u[i] = t[i]
  BY <1>3, <1>6, AppendProperties
<1>8. TextTold(u, r, n, 1)
  BY <1>3, <1>5, <1>7 DEF TextTold
<1> QED
  BY <1>2, <1>3, <1>4, <1>5, <1>6, <1>7, <1>8

LEMMA ReadStdinStep ==
  ASSUME IInv, NEW p \in Programs, ReadStdin(p)
  PROVE  IInv'
<1>1. /\ taken[p] \in Nat /\ typed[p] \in Nat /\ typed[p] <= MaxTyped /\ taken[p] <= typed[p]
      /\ MaxTyped \in Nat /\ BufSize \in Nat
  BY Typing, Sizes DEF IInv, Buffered
<1>2. PICK d \in Nat : d = typed[p] - taken[p]
  BY <1>1
<1>3. PICK n \in Nat : n = Min({BufSize, d}) /\ n <= d
  BY <1>1, MinOfTwo
<1>4. PICK r \in Nat : r = taken[p]
  BY <1>1
<1>5. r + n <= MaxTyped /\ taken[p] + n <= typed[p]
  BY <1>1, <1>2, <1>3, <1>4
<1>6. PICK t \in Seq(Chars) : t = Text(r, n) /\ TextTold(t, r, n, 0)
  BY <1>5, TextRead
<1>7. /\ pc[p] = "stdin" /\ Goto(p, "send")
      /\ taken' = [taken EXCEPT ![p] = taken[p] + n]
      /\ toSend' = [toSend EXCEPT ![p] = t]
      /\ UNCHANGED <<rfds, printed, userVars, netVars>>
  BY <1>2, <1>3, <1>4, <1>6 DEF ReadStdin, Text
<1>8. rfds' \in [Programs -> SUBSET {"stdin", "net"}]
  BY <1>7 DEF IInv, TypeOK
<1>9. \E g \in {0, 1} : TextTold(t, taken[p], n, g)
  BY <1>4, <1>6
<1> QED
  BY <1>5, <1>7, <1>8, <1>9, ReadsStep

LEMMA StdinEofStep ==
  ASSUME IInv, NEW p \in Programs, StdinEof(p)
  PROVE  IInv'
<1>1. taken[p] \in Nat /\ typed[p] \in Nat
  BY Typing DEF IInv
<1>2. PICK t \in Seq(Chars) : t = <<Bye>>
  <2>1. PICK e \in Chars : e = Bye
    BY Sizes DEF Chars, Bye
  <2>2. <<e>> \in Seq(Chars)
    OBVIOUS
  <2> QED
    BY <2>1, <2>2
<1>3. Len(t) = 1 /\ t[1] = Bye
  BY <1>2
<1>4. /\ pc[p] = "stdin" /\ taken[p] = typed[p] /\ Goto(p, "bye")
      /\ toSend' = [toSend EXCEPT ![p] = t]
      /\ UNCHANGED <<rfds, printed, taken, userVars, netVars>>
  BY <1>2 DEF StdinEof
<1>5. eof[p]
  BY <1>1, <1>4 DEF IInv, Buffered
<1>6. taken' = [taken EXCEPT ![p] = taken[p] + 0] /\ taken[p] + 0 <= typed[p]
  BY <1>1, <1>4 DEF IInv, TypeOK
<1>7. rfds' \in [Programs -> SUBSET {"stdin", "net"}]
  BY <1>4 DEF IInv, TypeOK
<1> QED
  BY <1>3, <1>4, <1>5, <1>6, <1>7, ReadsStep

LEMMA EpollReadStdinStep ==
  ASSUME IInv, kind \in Kinds, EpollReadStdin
  PROVE  IInv'
<1> DEFINE p == "server"
<1>0. p \in Programs
  BY DEF Programs
<1>1. /\ taken[p] \in Nat /\ typed[p] \in Nat /\ typed[p] <= MaxTyped /\ taken[p] <= typed[p]
      /\ MaxTyped \in Nat /\ BufSize \in Nat /\ Room \in Nat
  BY <1>0, Typing, Sizes DEF IInv, Buffered, Room
<1>2. PICK d \in Nat : d = typed[p] - taken[p]
  BY <1>1
<1>3. PICK n \in Nat : n = Min({Room, d}) /\ n <= d
  BY <1>1, MinOfTwo
<1>4. PICK r \in Nat : r = taken[p]
  BY <1>1
<1>5. r + n <= MaxTyped /\ taken[p] + n <= typed[p]
  BY <1>1, <1>2, <1>3, <1>4
<1>6. /\ Text(r, n) \in Seq(Chars) /\ TextTold(Text(r, n), r, n, 0)
      /\ Append(Text(r, n), Garbage) \in Seq(Chars) /\ TextTold(Append(Text(r, n), Garbage), r, n, 1)
  BY <1>5, TextRead
<1>7. PICK t \in Strings(Text(r, n)) : toSend' = [toSend EXCEPT ![p] = t]
  BY <1>2, <1>3, <1>4 DEF EpollReadStdin, Text
<1>8. t \in Seq(Chars) /\ \E g \in {0, 1} : TextTold(t, taken[p], n, g)
  <2>1. t = Text(r, n) \/ t = Append(Text(r, n), Garbage)
    BY <1>7 DEF Strings
  <2> QED
    BY <1>4, <1>6, <2>1
<1>9. /\ pc[p] = "batch" /\ Goto(p, "send") /\ rfds' = [rfds EXCEPT ![p] = @ \ {"stdin"}]
      /\ taken' = [taken EXCEPT ![p] = taken[p] + n]
      /\ UNCHANGED <<printed, userVars, netVars>>
  BY <1>2, <1>3 DEF EpollReadStdin, HandleEvent, AtEvent
<1>10. rfds' \in [Programs -> SUBSET {"stdin", "net"}]
  BY <1>0, <1>9 DEF IInv, TypeOK
<1> HIDE DEF p
<1> QED
  BY <1>0, <1>5, <1>7, <1>8, <1>9, <1>10, ReadsStep

(* The loop of chat_server and chat_client. *)
LEMMA RoundStep ==
  ASSUME IInv, NEW p \in Programs, Round(p)
  PROVE  IInv'
<1>1. CASE Select(p)
  <2>1. PICK x \in PcStates : x = IF "stdin" \in Ready(p) THEN "stdin" ELSE "net"
    BY DEF PcStates
  <2>2. /\ pc[p] = "select" /\ Goto(p, x)
        /\ UNCHANGED <<toSend, printed, taken, userVars, netVars>>
    BY <1>1, <2>1 DEF Select
  <2>3. rfds' \in [Programs -> SUBSET {"stdin", "net"}]
    BY <1>1 DEF Select, Ready, IInv, TypeOK
  <2>4. x = "stdin" => taken[p] < typed[p] \/ eof[p]
    BY <2>1 DEF Ready
  <2>5. toSend[p] = <<>> /\ ~Farewell(p) /\ pc[p] \notin Unconnected
    BY <2>2 DEF IInv, Buffered, Farewell, Unconnected
  <2>6. x \notin {"bye", "killed", "done"}
    BY <2>1
  <2> QED
    BY <2>2, <2>3, <2>4, <2>5, <2>6, MovesOn
<1>2. CASE Sent(p)
  <2>1. PICK x \in PcStates : x = IF "net" \in rfds[p] THEN "net" ELSE "select"
    BY DEF PcStates
  <2>2. /\ pc[p] = "send" /\ toSend[p] = <<>> /\ Goto(p, x)
        /\ UNCHANGED <<toSend, printed, taken, userVars, netVars>>
    BY <1>2, <2>1 DEF Sent
  <2>3. rfds' \in [Programs -> SUBSET {"stdin", "net"}]
    BY <1>2 DEF Sent, Cleared, IInv, TypeOK
  <2>4. ~Farewell(p) /\ pc[p] \notin Unconnected
    BY <2>2 DEF Farewell, Unconnected
  <2>5. x \notin {"bye", "killed", "done", "stdin"}
    BY <2>1
  <2> QED
    BY <2>2, <2>3, <2>4, <2>5, MovesOn
<1>3. CASE Recv(p)
  <2>1. "select" \in PcStates /\ BufSize \in Nat
    BY Sizes DEF PcStates
  <2>2. /\ Receives(p, BufSize) /\ Goto(p, "select") /\ Cleared(p) /\ pc[p] = "net"
        /\ UNCHANGED <<toSend, taken, userVars, link>>
    BY <1>3 DEF Recv
  <2>3. rfds' \in [Programs -> SUBSET {"stdin", "net"}]
    BY <2>2, RfdsCleared DEF IInv
  <2>4. /\ pc[p] \notin {"send", "bye", "done", "killed"} \cup Unconnected
        /\ "select" \notin {"stdin", "bye", "done", "killed"} \cup Unconnected
    BY <2>2 DEF Unconnected
  <2> QED
    BY <2>1, <2>2, <2>3, <2>4, ReceivesStep
<1>4. CASE RecvNothing(p) \/ Leave(p)
  <2>1. /\ Close(p) /\ Cleared(p) /\ pc[p] \in {"net", "bye"}
        /\ UNCHANGED <<toSend, printed, taken, userVars>>
    BY <1>4 DEF RecvNothing, Leave
  <2>2. rfds' \in [Programs -> SUBSET {"stdin", "net"}]
    BY <2>1, RfdsCleared DEF IInv
  <2>3. ~Stopped(p) /\ pc[p] \notin Unconnected
    BY <2>1 DEF Stopped, Unconnected
  <2> QED
    BY <2>1, <2>2, <2>3, CloseStep
<1>5. CASE RecvError(p)
  <2>1. "select" \in PcStates
    BY DEF PcStates
  <2>2. /\ pc[p] = "net" /\ link[p] = "rst" /\ Goto(p, "select") /\ Cleared(p)
        /\ link' = [link EXCEPT ![p] = IF link[p] = "rst" THEN "dead" ELSE link[p]]
        /\ UNCHANGED <<toSend, printed, taken, userVars, wire>>
    BY <1>5 DEF RecvError
  <2>3. rfds' \in [Programs -> SUBSET {"stdin", "net"}]
    BY <2>2, RfdsCleared DEF IInv
  <2> QED
    BY <2>1, <2>2, <2>3, ErrorStep
<1> QED
  BY <1>1, <1>2, <1>3, <1>4, <1>5, ReadStdinStep, StdinEofStep, PushStep, PushLostStep,
     SendFailsStep, KilledStep DEF Round

(* The connection. *)
LEMMA ConnectionStep ==
  ASSUME IInv, Listen \/ Accept \/ Connect \/ ConnectRefused
  PROVE  IInv'
<1>1. "server" \in Programs /\ "client" \in Programs /\ Peer("server") = "client" /\ Peer("client") = "server"
  BY DEF Programs, Peer
<1>2. {"accept", "select", "done"} \subseteq PcStates
  BY DEF PcStates
<1>3. rfds' \in [Programs -> SUBSET {"stdin", "net"}]
  BY DEF Listen, Accept, Connect, ConnectRefused, IInv, TypeOK
<1>4. UNCHANGED <<toSend, printed, taken, userVars, netVars>>
  BY DEF Listen, Accept, Connect, ConnectRefused
<1>5. ASSUME NEW p \in Programs, pc[p] \in Unconnected
      PROVE  ~Farewell(p) /\ toSend[p] = <<>>
  BY <1>5 DEF IInv, Buffered, Farewell, Unconnected
<1>6. CASE Listen
  <2>1. pc["server"] = "start" /\ Goto("server", "accept") /\ pc["server"] \in Unconnected
    BY <1>6 DEF Listen, Unconnected
  <2>2. "accept" \in Unconnected
    BY DEF Unconnected
  <2> QED
    BY <1>1, <1>2, <1>3, <1>4, <1>5, <2>1, <2>2, MovesOn
<1>7. CASE Accept
  <2>1. pc["server"] = "accept" /\ Goto("server", "select") /\ pc["server"] \in Unconnected
    BY <1>7 DEF Accept, Unconnected
  <2>2. Stopped("client") => link["server"] # "up"
    BY <1>7 DEF Accept, Chatting
  <2> QED
    BY <1>1, <1>2, <1>3, <1>4, <1>5, <2>1, <2>2, MovesOn
<1>8. CASE Connect
  <2>1. /\ pc["client"] = "start" /\ Goto("client", "select") /\ pc["client"] \in Unconnected
        /\ ~Stopped("server")
    BY <1>8 DEF Connect, Unconnected, Stopped
  <2> QED
    BY <1>1, <1>2, <1>3, <1>4, <1>5, <2>1, MovesOn
<1>9. CASE ConnectRefused
  <2>1. /\ pc["client"] = "start" /\ Goto("client", "done") /\ pc["client"] \in Unconnected
        /\ pc["server"] = "start" /\ pc["server"] \in Unconnected /\ ~Stopped("server")
    BY <1>9 DEF ConnectRefused, Unconnected, Stopped
  <2>2. link["client"] = "up"
    BY <1>1, <2>1 DEF IInv, LinksTrue
  <2> QED
    BY <1>1, <1>2, <1>3, <1>4, <1>5, <2>1, <2>2, MovesOn
<1> QED
  BY <1>6, <1>7, <1>8, <1>9

(* The servers that wait with epoll. *)
LEMMA EpollMoves ==
  ASSUME IInv, EpollWait \/ EpollSent \/ EtDrain
  PROVE  IInv'
<1>1. "server" \in Programs
  BY DEF Programs
<1>2. {"batch", "drain"} \subseteq PcStates
  BY DEF PcStates
<1>3. PICK x \in {"batch", "drain"} : Goto("server", x)
  BY DEF EpollWait, EpollSent, EtDrain
<1>4. UNCHANGED <<toSend, printed, taken, userVars, netVars>>
  BY DEF EpollWait, EpollSent, EtDrain
<1>5. rfds' \in [Programs -> SUBSET {"stdin", "net"}]
  BY ZenonT(60) DEF EpollWait, EpollSent, EtDrain, HandleEvent, Reported, Ready, IInv, TypeOK
<1>6. pc["server"] \in {"select", "batch", "send"} /\ (pc["server"] = "send" => toSend["server"] = <<>>)
  BY DEF EpollWait, EpollSent, EtDrain, HandleEvent, AtEvent
<1>7. toSend["server"] = <<>> /\ ~Farewell("server") /\ pc["server"] \notin Unconnected
  BY <1>1, <1>6 DEF IInv, Buffered, Farewell, Unconnected
<1> QED
  BY <1>1, <1>2, <1>3, <1>4, <1>5, <1>7, MovesOn

(* recv or send reports an error, the end of the connection, or nothing. *)
LEMMA EpollErrors ==
  ASSUME IInv, EpollEof \/ EpollRecvNothing \/ EtDrained
  PROVE  IInv'
<1>1. "server" \in Programs
  BY DEF Programs
<1>2. "batch" \in PcStates /\ "killed" \in PcStates
  BY DEF PcStates
<1>3. PICK x \in {"batch", "killed"} : Goto("server", x) /\ (x = "killed" => link["server"] = "dead")
  BY DEF EpollEof, EpollRecvNothing, EtDrained
<1>4. /\ link' = [link EXCEPT !["server"] = IF link["server"] = "rst" THEN "dead" ELSE link["server"]]
      /\ UNCHANGED <<toSend, printed, taken, userVars, wire>>
  BY DEF EpollEof, EpollRecvNothing, EtDrained
<1>5. rfds' \in [Programs -> SUBSET {"stdin", "net"}]
  <2>1. UNCHANGED rfds \/ HandleEvent("stdin") \/ HandleEvent("net")
    BY DEF EpollEof, EpollRecvNothing, EtDrained
  <2> QED
    BY <2>1 DEF HandleEvent, IInv, TypeOK
<1>6. pc["server"] \in {"batch", "drain"}
  BY DEF EpollEof, EpollRecvNothing, EtDrained, HandleEvent, AtEvent
<1>7. toSend["server"] = <<>> /\ ~Farewell("server") /\ pc["server"] \notin Unconnected
  BY <1>1, <1>6 DEF IInv, Buffered, Farewell, Unconnected
<1>8. CASE link["server"] = "up"
  <2>1. x = "batch" /\ UNCHANGED <<toSend, printed, taken, userVars, netVars>>
    BY <1>3, <1>4, <1>8 DEF netVars, IInv, TypeOK
  <2> QED
    BY <1>1, <1>2, <1>3, <1>5, <1>7, <2>1, MovesOn
<1>9. CASE link["server"] # "up"
  BY <1>1, <1>2, <1>3, <1>4, <1>5, <1>6, <1>9, ErrorStep
<1> QED
  BY <1>8, <1>9

LEMMA EpollReceives ==
  ASSUME IInv, EpollRecv \/ EtRecv
  PROVE  IInv'
<1>1. "server" \in Programs /\ Room \in Nat
  BY Sizes DEF Programs, Room
<1>2. PICK x \in {"batch", "drain"} : Goto("server", x) /\ x \in PcStates
  BY DEF EpollRecv, EtRecv, AfterRecv, PcStates
<1>3. Receives("server", Room) /\ UNCHANGED <<toSend, taken, userVars, link>>
  BY DEF EpollRecv, EtRecv
<1>4. rfds' \in [Programs -> SUBSET {"stdin", "net"}]
  BY ZenonT(60) DEF EpollRecv, EtRecv, HandleEvent, IInv, TypeOK
<1>5. /\ pc["server"] \notin {"send", "bye", "done", "killed"} \cup Unconnected
      /\ x \notin {"stdin", "bye", "done", "killed"} \cup Unconnected
  BY <1>2 DEF EpollRecv, EtRecv, HandleEvent, AtEvent, Unconnected
<1> QED
  BY <1>1, <1>2, <1>3, <1>4, <1>5, ReceivesStep

LEMMA EpollCloses ==
  ASSUME IInv, EtEof \/ EpollBatchDone
  PROVE  IInv'
<1>1. "server" \in Programs /\ "select" \in PcStates
  BY DEF Programs, PcStates
<1>2. /\ pc["server"] = "batch"
      /\ rfds' \in [Programs -> SUBSET {"stdin", "net"}]
      /\ UNCHANGED <<toSend, printed, taken, userVars>>
  BY DEF EtEof, EpollBatchDone, AtEvent, Cleared, IInv, TypeOK
<1>3. toSend["server"] = <<>> /\ ~Farewell("server") /\ ~Stopped("server") /\ pc["server"] \notin Unconnected
  BY <1>1, <1>2 DEF IInv, Buffered, Farewell, Stopped, Unconnected
<1>4. CASE Close("server")
  BY <1>1, <1>2, <1>3, <1>4, CloseStep
<1>5. CASE Goto("server", "select") /\ UNCHANGED netVars
  BY <1>1, <1>2, <1>3, <1>5, MovesOn
<1> QED
  BY <1>4, <1>5 DEF EtEof, EpollBatchDone

LEMMA EpollServerStep ==
  ASSUME IInv, kind \in Kinds, EpollServer
  PROVE  IInv'
<1>1. "server" \in Programs
  BY DEF Programs
<1>2. CASE EpollSend
  BY <1>1, <1>2, PushStep, PushLostStep, SendFailsStep, KilledStep DEF EpollSend
<1> QED
  BY <1>2, EpollMoves, EpollErrors, EpollReceives, EpollCloses, EpollReadStdinStep DEF EpollServer

LEMMA Step ==
  ASSUME IInv, EdgeKept, ChatNext
  PROVE  IInv'
<1>1. "server" \in Programs /\ "client" \in Programs /\ kind \in Kinds
  BY DEF Programs, EdgeKept
<1>2. CASE ServerStep
  BY <1>1, <1>2, ConnectionStep, RoundStep, EpollServerStep DEF ServerStep
<1>3. CASE ClientStep
  BY <1>1, <1>3, ConnectionStep, RoundStep DEF ClientStep
<1>4. CASE UserStep
  BY <1>4, TypeStep, CloseStdinStep DEF UserStep
<1> QED
  BY <1>2, <1>3, <1>4 DEF ChatNext

(* Nothing changes. *)
LEMMA Stutter ==
  ASSUME IInv, EdgeKept, UNCHANGED chatVars
  PROVE  IInv' /\ EdgeKept'
<1>1. /\ UNCHANGED <<pc, rfds, toSend, printed, typed, taken, eof, wire, link>>
      /\ UNCHANGED <<kind, flag, edge>>
  BY DEF chatVars, vars, userVars, netVars, kindVars
<1>2. TypeOK'
  BY <1>1 DEF IInv, TypeOK
<1>3. LinksTrue'
  BY <1>1 DEF IInv, LinksTrue, Stopped
<1>4. Buffered'
  BY <1>1 DEF IInv, Buffered
<1>5. InStep'
  <2>1. \A r \in Programs : /\ Got(r)' = Got(r) /\ (Stopped(r) <=> Stopped(r)')
                            /\ (Farewell(r) <=> Farewell(r)')
    BY <1>1 DEF Got, Stopped, Farewell
  <2> QED
    BY <1>1, <2>1, InStepStays DEF IInv
<1>6. EdgeKept'
  BY <1>1 DEF EdgeKept
<1> QED
  BY <1>2, <1>3, <1>4, <1>5, <1>6 DEF IInv

-----------------------------------------------------------------------------
(* The edge.                                                               *)

(* The server stands where it stood, and is told of what arrives. *)
LEMMA EdgeArrives ==
  ASSUME EdgeKept, Arrival, UNCHANGED <<kind, flag>>,
         pc'["server"] = pc["server"], rfds'["server"] = rfds["server"]
  PROVE  EdgeKept'
<1>1. edge' \in BOOLEAN /\ (edge => edge')
  BY DEF Arrival, EdgeKept
<1>2. wire'["server"] # wire["server"] => edge'
  BY DEF Arrival
<1>3. kind' # "et" => edge'
  BY <1>1 DEF EdgeKept
<1>4. wire'["server"] # <<>> => edge' \/ wire["server"] # <<>>
  BY <1>2
<1>5. /\ pc["server"] = "select" /\ wire["server"] # <<>> /\ kind = "et" => edge
      /\ pc["server"] \in {"batch", "send"} /\ wire["server"] # <<>> /\ kind = "et" =>
           edge \/ "net" \in rfds["server"]
      /\ pc["server"] \in Unconnected /\ kind = "et" => edge
      /\ kind = "et" =>
           pc["server"] \in {"start", "accept", "select", "batch", "send", "drain", "done", "killed"}
  BY DEF EdgeKept
<1>6. kind \in Kinds /\ flag \in BOOLEAN
  BY DEF EdgeKept
<1> QED
  BY <1>1, <1>3, <1>4, <1>5, <1>6 DEF EdgeKept

LEMMA ClientApart ==
  ASSUME TypeOK, ClientStep
  PROVE  pc'["server"] = pc["server"] /\ rfds'["server"] = rfds["server"]
<1>1. "server" \in Programs /\ "server" # "client"
  BY DEF Programs
<1>2. UNCHANGED pc \/ \E x \in PcStates : Goto("client", x)
  BY DEF PcStates, ClientStep, Connect, ConnectRefused, Round, Select, ReadStdin, StdinEof, Push, PushLost,
     SendFails, Killed, Sent, Leave, Recv, RecvNothing, RecvError, Close
<1>3. UNCHANGED rfds \/ Cleared("client") \/ rfds' = [rfds EXCEPT !["client"] = Ready("client")]
  BY DEF ClientStep, Connect, ConnectRefused, Round, Select, ReadStdin, StdinEof, Push, PushLost,
     SendFails, Killed, Sent, Leave, Recv, RecvNothing, RecvError
<1>4. pc'["server"] = pc["server"]
  BY <1>1, <1>2 DEF Goto, TypeOK
<1>5. rfds'["server"] = rfds["server"]
  BY <1>1, <1>3 DEF Cleared, TypeOK
<1> QED
  BY <1>4, <1>5

(* The server itself. *)
LEMMA EdgeServer ==
  ASSUME TypeOK, EdgeKept, kind = "et", EpollServer
  PROVE  EdgeKept'
<1>0. "server" \in Programs /\ "client" \in Programs /\ Peer("server") = "client"
  BY DEF Programs, Peer

<1>1. CASE EpollWait
  <2>1. pc'["server"] = "batch" /\ UNCHANGED <<wire, kind, flag>> /\ edge' = FALSE
    BY <1>0, <1>1 DEF EpollWait, Goto, TypeOK, netVars
  <2>2. wire["server"] # <<>> => "net" \in rfds'["server"]
    <3>1. pc["server"] = "select" /\ rfds'["server"] = Reported
      BY <1>0, <1>1 DEF EpollWait, TypeOK
    <3>2. wire["server"] # <<>> => "net" \in Ready("server") /\ edge
      BY <3>1 DEF EdgeKept, Ready
    <3> QED
      BY <3>1, <3>2 DEF Reported
  <2> QED
    BY <2>1, <2>2 DEF EdgeKept, Unconnected
<1>2. CASE EpollReadStdin
  <2>1. /\ pc'["server"] = "send" /\ pc["server"] = "batch" /\ UNCHANGED <<wire, kind, flag, edge>>
        /\ rfds'["server"] = rfds["server"] \ {"stdin"}
    BY <1>0, <1>2 DEF EpollReadStdin, HandleEvent, AtEvent, Goto, TypeOK, netVars, kindVars
  <2> QED
    BY <2>1 DEF EdgeKept, Unconnected
<1>3. CASE EpollSend
  <2>1. CASE PushLost("server") /\ Arrival /\ UNCHANGED <<kind, flag>>
    BY <2>1, EdgeArrives DEF PushLost
  <2>2. CASE Push("server") /\ UNCHANGED kindVars
    <3>1. UNCHANGED <<pc, rfds, kind, flag, edge>> /\ wire'["server"] = wire["server"]
      BY <1>0, <2>2 DEF Push, TypeOK, kindVars
    <3> QED
      BY <3>1 DEF EdgeKept
  <2>3. CASE SendFails("server") /\ UNCHANGED kindVars
    BY <2>3 DEF SendFails, kindVars, EdgeKept
  <2>4. CASE Killed("server") /\ UNCHANGED kindVars
    <3>1. pc'["server"] = "killed" /\ UNCHANGED <<wire, kind, flag, edge>>
      BY <1>0, <2>4 DEF Killed, Goto, TypeOK, netVars, kindVars
    <3> QED
      BY <3>1 DEF EdgeKept, Unconnected
  <2> QED
    BY <1>3, <2>1, <2>2, <2>3, <2>4 DEF EpollSend
<1>4. CASE EpollSent
  <2>1. /\ pc'["server"] = "batch" /\ pc["server"] = "send"
        /\ UNCHANGED <<rfds, wire, kind, flag, edge>>
    BY <1>0, <1>4 DEF EpollSent, Goto, TypeOK, netVars, kindVars
  <2> QED
    BY <2>1 DEF EdgeKept, Unconnected
<1>5. CASE EtEof
  <2>1. pc'["server"] = "done" /\ UNCHANGED <<kind, flag, edge>>
    BY <1>0, <1>5 DEF EtEof, Close, Goto, TypeOK, kindVars
  <2> QED
    BY <2>1 DEF EdgeKept, Unconnected
<1>6. CASE EtDrain
  <2>1. pc'["server"] = "drain" /\ UNCHANGED <<kind, flag, edge>>
    BY <1>0, <1>6 DEF EtDrain, Goto, TypeOK, kindVars
  <2> QED
    BY <2>1 DEF EdgeKept, Unconnected
<1>7. CASE EtRecv
  <2>1. pc'["server"] = "drain" /\ UNCHANGED <<kind, flag, edge>>
    BY <1>0, <1>7 DEF EtRecv, AfterRecv, Goto, TypeOK, kindVars
  <2> QED
    BY <2>1 DEF EdgeKept, Unconnected
<1>8. CASE EtDrained
  <2>1. pc'["server"] = "batch" /\ wire["server"] = <<>> /\ UNCHANGED <<wire, kind, flag, edge>>
    BY <1>0, <1>8 DEF EtDrained, Goto, TypeOK, kindVars
  <2> QED
    BY <2>1 DEF EdgeKept, Unconnected
<1>9. CASE EpollBatchDone
  <2>1. CASE Close("server")
    <3>1. pc'["server"] = "done" /\ UNCHANGED <<kind, flag, edge>>
      BY <1>0, <1>9, <2>1 DEF EpollBatchDone, Close, Goto, TypeOK, kindVars
    <3> QED
      BY <3>1 DEF EdgeKept, Unconnected
  <2>2. CASE Goto("server", "select") /\ UNCHANGED netVars
    <3>1. /\ pc'["server"] = "select" /\ pc["server"] = "batch" /\ rfds["server"] = {}
          /\ UNCHANGED <<wire, kind, flag, edge>>
      BY <1>0, <1>9, <2>2 DEF EpollBatchDone, Goto, TypeOK, netVars, kindVars
    <3> QED
      BY <3>1 DEF EdgeKept, Unconnected
  <2> QED
    BY <1>9, <2>1, <2>2 DEF EpollBatchDone
<1> QED
  BY <1>1, <1>2, <1>3, <1>4, <1>5, <1>6, <1>7, <1>8, <1>9
  DEF EpollServer, EpollEof, EpollRecv, EpollRecvNothing

(* A level-triggered server is always told. *)
LEMMA EdgeLevel ==
  ASSUME EdgeKept, kind # "et", EpollServer \/ UNCHANGED kindVars
  PROVE  EdgeKept'
<1>1. edge = TRUE /\ kind \in Kinds /\ flag \in BOOLEAN
  BY DEF EdgeKept
<1>2. kind' = kind
  BY DEF EpollServer, EpollWait, EpollReadStdin, EpollSend, EpollSent, EpollEof, EpollRecv,
     EpollRecvNothing, EtEof, EtDrain, EtRecv, EtDrained, EpollBatchDone, kindVars
<1>3. flag' \in BOOLEAN
  <2>1. flag' = flag \/ flag' = FALSE \/ flag' = (flag /\ link["server"] = "rst")
    BY DEF EpollServer, EpollWait, EpollReadStdin, EpollSend, EpollSent, EpollEof, EpollRecv,
       EpollRecvNothing, EtEof, EtDrain, EtRecv, EtDrained, EpollBatchDone, kindVars
  <2> QED
    BY <1>1, <2>1
<1>4. edge' = edge \/ edge' = (kind # "et") \/ Arrival
  BY DEF EpollServer, EpollWait, EpollReadStdin, EpollSend, EpollSent, EpollEof, EpollRecv,
     EpollRecvNothing, EtEof, EtDrain, EtRecv, EtDrained, EpollBatchDone, kindVars
<1>5. edge' = TRUE
  BY <1>1, <1>4 DEF Arrival
<1> QED
  BY <1>1, <1>2, <1>3, <1>5 DEF EdgeKept

LEMMA EdgeStep ==
  ASSUME IInv, EdgeKept, ChatNext
  PROVE  EdgeKept'
<1>1. TypeOK
  BY DEF IInv
<1>2. CASE ServerStep
  <2>1. CASE kind # "et"
    BY <1>2, <2>1, EdgeLevel DEF ServerStep
  <2>2. CASE kind = "et"
    <3>1. CASE (Listen \/ Accept) /\ UNCHANGED kindVars
      <4>1. /\ pc["server"] \in Unconnected /\ pc'["server"] \in {"accept", "select"}
            /\ UNCHANGED <<wire, kind, flag, edge>>
        BY <1>1, <3>1 DEF Listen, Accept, Goto, Unconnected, TypeOK, Programs, netVars, kindVars
      <4> QED
        BY <2>2, <4>1 DEF EdgeKept
    <3>2. CASE EpollServer
      BY <1>1, <2>2, <3>2, EdgeServer
    <3> QED
      BY <1>2, <2>2, <3>1, <3>2 DEF ServerStep
  <2> QED
    BY <2>1, <2>2
<1>3. CASE ClientStep /\ Arrival /\ UNCHANGED <<kind, flag>>
  BY <1>1, <1>3, ClientApart, EdgeArrives
<1>4. CASE UserStep /\ UNCHANGED kindVars
  <2>1. UNCHANGED <<pc, rfds, wire, kind, flag, edge>>
    BY <1>4 DEF UserStep, Type, CloseStdin, netVars, kindVars
  <2> QED
    BY <2>1 DEF EdgeKept
<1> QED
  BY <1>2, <1>3, <1>4 DEF ChatNext

-----------------------------------------------------------------------------
(* The results.                                                            *)

LEMMA InitHolds ==
  ASSUME ChatInit
  PROVE  IInv /\ EdgeKept
<1>1. PICK e : e = <<>> /\ e \in Seq(Chars) /\ Len(e) = 0
  BY EmptySeq
<1>2. \A p \in Programs : /\ pc[p] = "start" /\ rfds[p] = {} /\ toSend[p] = e /\ printed[p] = e
                          /\ typed[p] = 0 /\ taken[p] = 0 /\ eof[p] = FALSE /\ wire[p] = e
                          /\ link[p] = "up"
  BY <1>1 DEF ChatInit, Init
<1>3. TypeOK
  <2>1. /\ printed = [p \in Programs |-> e] /\ wire = [p \in Programs |-> e]
        /\ toSend = [p \in Programs |-> e]
    BY <1>1 DEF ChatInit, Init
  <2>2. printed \in [Programs -> Seq(Chars)] /\ wire \in [Programs -> Seq(Chars)] /\ toSend \in [Programs -> Seq(Chars)]
    BY <1>1, <2>1
  <2>3. \A p \in Programs : Len(wire[p]) <= SockCap
    BY <1>1, <1>2, Sizes
  <2>4. 0 \in 0..MaxTyped
    BY Sizes
  <2>5. /\ pc \in [Programs -> PcStates] /\ rfds \in [Programs -> SUBSET {"stdin", "net"}]
        /\ typed \in [Programs -> 0..MaxTyped] /\ taken \in [Programs -> 0..MaxTyped]
        /\ eof \in [Programs -> BOOLEAN] /\ link \in [Programs -> Links]
    BY <2>4 DEF ChatInit, Init, PcStates, Links
  <2> QED
    BY <2>2, <2>3, <2>5 DEF TypeOK, Chars
<1>4. LinksTrue
  BY <1>2, Peers DEF LinksTrue, Unconnected
<1>5. Buffered
  BY <1>1, <1>2 DEF Buffered
<1>6. InStep
  <2>1. ReadsUpTo(e, 0) /\ Rank(e, 0) = 0
    <3>1. ReadsUpTo(e, 0)
      BY <1>1 DEF ReadsUpTo
    <3> QED
      BY <3>1, RankOfNone
  <2>2. ASSUME NEW p \in Programs
        PROVE  /\ Got(p) = e /\ Stream(p) = e /\ typed[Peer(p)] = 0 /\ taken[Peer(p)] = 0
               /\ Told(Peer(p)) = 0
    <3>1. Peer(p) \in Programs
      BY Peers
    <3>2. e \o e = e /\ (e \o e) \o e = e
      BY <1>1, ConcatEmptySeq
    <3>3. pc[Peer(p)] # "bye"
      BY <1>2, <3>1
    <3>4. Got(p) = e
      BY <1>2, <3>2 DEF Got
    <3>5. Stream(p) = e
      BY <1>2, <3>1, <3>2 DEF Stream
    <3>6. typed[Peer(p)] = 0 /\ taken[Peer(p)] = 0
      BY <1>2, <3>1
    <3> QED
      BY <3>3, <3>4, <3>5, <3>6 DEF Told
  <2>3. ASSUME NEW p \in Programs
        PROVE  /\ ReadsUpTo(Got(p), typed[Peer(p)])
               /\ Rank(Got(p), Len(Got(p))) <= taken[Peer(p)] + (IF Farewell(Peer(p)) THEN 1 ELSE 0)
    BY <1>1, <2>1, <2>2
  <2>4. NothingLost
    BY <1>1, <2>1, <2>2 DEF NothingLost
  <2> QED
    BY <2>3, <2>4 DEF InStep
<1>7. EdgeKept
  <2>1. pc["server"] = "start"
    BY <1>2 DEF Programs
  <2> QED
    BY <2>1 DEF ChatInit, EdgeKept
<1> QED
  BY <1>3, <1>4, <1>5, <1>6, <1>7 DEF IInv

(* The invariants hold for any length of what is typed, any buffers and any*)
(* connection (all steps of the client and of the three servers).          *)
THEOREM ChatInductive == ChatSpec => [](IInv /\ EdgeKept)
<1>1. IInv /\ EdgeKept /\ [ChatNext]_chatVars => (IInv /\ EdgeKept)'
  BY Step, EdgeStep, Stutter
<1> QED
  BY InitHolds, <1>1, PTL DEF ChatSpec

(* What is shown is a part of what was got. *)
LEMMA ShownIsTyped ==
  ASSUME IInv
  PROVE  ShowsWhatWasTyped
<1>1. ASSUME NEW p \in Programs PROVE ReadsUpTo(printed[p], typed[Peer(p)])
  <2>1. PICK a \in Seq(Chars) : a = printed[p]
    BY Typing DEF IInv
  <2>2. PICK w \in Seq(Chars) : w = wire[p]
    BY Typing DEF IInv
  <2>3. PICK k \in Nat : k = Len(a)
    BY LenProperties
  <2>4. PICK l \in Nat : l = Len(w)
    BY LenProperties
  <2>5. PICK n \in Nat : n = typed[Peer(p)]
    BY Peers, Typing DEF IInv
  <2>6. PICK g : g = a \o w
    OBVIOUS
  <2>7. PICK m \in Nat : m = k + l
    OBVIOUS
  <2>8. Len(g) = m /\ \A i \in 1..k : a[i] = g[i]
    BY <2>3, <2>4, <2>6, <2>7, ConcatProperties
  <2>9. k <= m /\ ReadsUpTo(g, n)
    <3>1. g = Got(p)
      BY <2>1, <2>2, <2>6 DEF Got
    <3>2. ReadsUpTo(Got(p), typed[Peer(p)])
      BY DEF IInv, InStep
    <3> QED
      BY <2>5, <2>7, <3>1, <3>2
  <2>10. ReadsUpTo(a, n)
    BY <2>3, <2>8, <2>9, ReadsPart
  <2> QED
    BY <2>1, <2>5, <2>10
<1> QED
  BY <1>1 DEF ShowsWhatWasTyped

(* Each program shows what the other user typed, in order and from the     *)
(* beginning; nothing is lost while both live; and the edge-triggered      *)
(* server that waits has an edge coming when data is unread (send, strlen, *)
(* recv of all programs, the drain of epoll_et.c 53-60).                   *)
THEOREM ChatIsIntact == ChatSpec => []Intact
<1>1. IInv /\ EdgeKept => Intact
  <2>1. ASSUME IInv, EdgeKept PROVE Intact
    <3>1. pc["server"] = "select" /\ wire["server"] # <<>> => edge
      BY <2>1 DEF EdgeKept
    <3>2. TypeOK /\ NothingLost /\ kind \in Kinds /\ {flag, edge} \subseteq BOOLEAN
      BY <2>1 DEF IInv, InStep, EdgeKept
    <3> QED
      BY <2>1, <3>1, <3>2, ShownIsTyped DEF Intact
  <2> QED
    BY <2>1
<1> QED
  BY ChatInductive, <1>1, PTL
==============================================================================

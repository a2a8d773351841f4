-------------------------- MODULE FileTransferProofs -------------------------
(***************************************************************************)
(* Proofs about the file transfer, for every width of an int, every size   *)
(* of the file and of the system calls' limits, and every way the stream   *)
(* is cut.                                                                 *)
(***************************************************************************)
EXTENDS FileTransfer, SequenceTheorems, TLAPS

-----------------------------------------------------------------------------
(* The stream: everything the server sends if it is not killed.            *)

Cells == {"int", "name", "data"} \X Int \X Int

(* How much of the file sendfile sends. *)
Transferred(l) == IF ToInt(l) < 0 THEN 0 ELSE Least(ToInt(l), MaxSendfile)

(* Where the contents begin, and where the four calls end. *)
Base == IntSize + NameLen + IntSize + IntSize
EndOf(l, f) ==
  IF f = 1 THEN 0
  ELSE IF f = 2 THEN IntSize + NameLen
  ELSE IF f = 3 THEN Base
  ELSE IF f = 4 THEN Base + Transferred(l)
  ELSE Base + Transferred(l) + IntSize

(* The i-th cell of the stream. *)
CellOf(l, i) ==
  IF i <= IntSize THEN <<"int", NameLen, i>>
  ELSE IF i <= IntSize + NameLen THEN <<"name", 0, i - IntSize>>
  ELSE IF i <= IntSize + NameLen + IntSize THEN <<"int", IntSize, i - (IntSize + NameLen)>>
  ELSE IF i <= Base THEN <<"int", ToInt(l), i - (IntSize + NameLen + IntSize)>>
  ELSE IF i <= Base + Transferred(l) THEN <<"data", 0, i - Base>>
  ELSE <<"int", 0, i - (Base + Transferred(l))>>

LEMMA Sizes ==
  /\ IntSize \in Nat \ {0} /\ IntHalf \in Nat \ {0} /\ NameLen \in Nat \ {0}
  /\ MaxSendfile \in Nat \ {0} /\ SpliceMax \in Nat \ {0}
  /\ IntSize < IntHalf /\ NameLen < IntHalf /\ MaxSendfile < IntHalf
  /\ FileLens \subseteq Nat
BY FileTransferAssumption

(* What the conversion of a size to an int does. *)
LEMMA Converted ==
  ASSUME NEW n \in Nat
  PROVE  /\ ToInt(n) \in -IntHalf..IntHalf - 1
         /\ n < IntHalf => ToInt(n) = n
<1>1. PICK w \in Nat \ {0} : w = 2 * IntHalf
  BY Sizes
<1>2. n % w \in 0..w - 1
  BY <1>1
<1>3. n < w => n % w = n
  BY <1>1
<1> QED
  BY <1>1, <1>2, <1>3, Sizes DEF ToInt

LEMMA TransferredType ==
  ASSUME NEW l \in Nat
  PROVE  /\ Transferred(l) \in Nat /\ Transferred(l) <= MaxSendfile
         /\ ToInt(l) > 0 => Transferred(l) <= ToInt(l)
         /\ l <= MaxSendfile => Transferred(l) = l /\ ToInt(l) = l
<1>1. ToInt(l) \in Int /\ (l < IntHalf => ToInt(l) = l)
  <2>1. ToInt(l) \in -IntHalf..IntHalf - 1 /\ (l < IntHalf => ToInt(l) = l)
    BY Converted
  <2> QED
    BY <2>1, Sizes
<1> QED
  BY <1>1, Sizes DEF Transferred, Least

-----------------------------------------------------------------------------
(* Sequences of cells.                                                     *)

LEMMA Joined ==
  ASSUME NEW s \in Seq(Cells), NEW t \in Seq(Cells), NEW m, NEW n, m = Len(s), n = Len(t)
  PROVE  /\ m \in Nat /\ n \in Nat /\ s \o t \in Seq(Cells) /\ Len(s \o t) = m + n
         /\ \A k \in 1..m : (s \o t)[k] = s[k]
         /\ \A k \in 1..n : (s \o t)[m + k] = t[k]
<1>1. m \in Nat /\ n \in Nat
  BY LenProperties
<1>2. s \o t \in Seq(Cells) /\ Len(s \o t) = m + n
      /\ \A k \in 1..m + n : (s \o t)[k] = IF k <= m THEN s[k] ELSE t[k - m]
  BY ConcatProperties
<1>3. ASSUME NEW k \in 1..m PROVE k \in 1..m + n /\ k <= m
  BY <1>1
<1>4. ASSUME NEW k \in 1..n PROVE m + k \in 1..m + n /\ ~(m + k <= m) /\ (m + k) - m = k
  BY <1>1
<1> QED
  BY <1>1, <1>2, <1>3, <1>4

(* The first n cells, and the rest. *)
LEMMA Cut ==
  ASSUME NEW s \in Seq(Cells), NEW n \in 0..Len(s)
  PROVE  /\ SubSeq(s, 1, n) \in Seq(Cells) /\ Len(SubSeq(s, 1, n)) = n
         /\ \A k \in 1..n : SubSeq(s, 1, n)[k] = s[k]
         /\ SubSeq(s, n + 1, Len(s)) \in Seq(Cells) /\ Len(SubSeq(s, n + 1, Len(s))) = Len(s) - n
         /\ \A k \in 1..Len(s) - n : SubSeq(s, n + 1, Len(s))[k] = s[n + k]
<1>1. PICK m \in Nat : m = Len(s)
  BY LenProperties
<1>2. n \in Nat /\ n <= m /\ \A k \in 1..m : s[k] \in Cells
  BY <1>1, ElementOfSeq
<1>3. /\ SubSeq(s, 1, n) \in Seq(Cells)
      /\ Len(SubSeq(s, 1, n)) = IF 1 <= n THEN n - 1 + 1 ELSE 0
      /\ \A k \in 1..n - 1 + 1 : SubSeq(s, 1, n)[k] = s[1 + k - 1]
  <2>1. \A k \in 1..n : s[k] \in Cells
    BY <1>2
  <2> QED
    BY <1>2, <2>1, SubSeqProperties
<1>4. /\ SubSeq(s, n + 1, m) \in Seq(Cells)
      /\ Len(SubSeq(s, n + 1, m)) = IF n + 1 <= m THEN m - (n + 1) + 1 ELSE 0
      /\ \A k \in 1..m - (n + 1) + 1 : SubSeq(s, n + 1, m)[k] = s[(n + 1) + k - 1]
  <2>1. \A k \in n + 1..m : s[k] \in Cells
    BY <1>2
  <2>2. n + 1 \in Int /\ m \in Int
    BY <1>2
  <2> QED
    BY <2>1, <2>2, SubSeqProperties
<1>5. \A k \in 1..n : SubSeq(s, 1, n)[k] = s[k]
  <2>1. \A k \in 1..n : k \in 1..n - 1 + 1 /\ 1 + k - 1 = k
    BY <1>2
  <2> QED
    BY <1>3, <2>1
<1>6. \A k \in 1..m - n : SubSeq(s, n + 1, m)[k] = s[n + k]
  <2>1. \A k \in 1..m - n : k \in 1..m - (n + 1) + 1 /\ (n + 1) + k - 1 = n + k
    BY <1>2
  <2> QED
    BY <1>4, <2>1
<1>7. Len(SubSeq(s, 1, n)) = n /\ Len(SubSeq(s, n + 1, m)) = m - n
  BY <1>2, <1>3, <1>4
<1> QED
  BY <1>1, <1>3, <1>4, <1>5, <1>6, <1>7

LEMMA IntOnWire ==
  ASSUME NEW v \in Int
  PROVE  /\ IntCells(v) \in Seq(Cells) /\ Len(IntCells(v)) = IntSize
         /\ \A k \in 1..IntSize : IntCells(v)[k] = <<"int", v, k>>
<1>1. IntSize \in Nat
  BY Sizes
<1>2. PICK t : t = IntCells(v)
  OBVIOUS
<1>3. \A k \in 1..IntSize : t[k] = <<"int", v, k>>
  BY <1>2 DEF IntCells
<1>4. Len(t) = IntSize
  BY <1>1, <1>2 DEF IntCells
<1>5. \A k \in 1..IntSize : <<"int", v, k>> \in Cells
  BY <1>1 DEF Cells
<1>6. t \in [1..IntSize -> Cells]
  BY <1>2, <1>5 DEF IntCells
<1> QED
  BY <1>1, <1>2, <1>3, <1>4, <1>6, SeqDef

LEMMA DataOnWire ==
  ASSUME NEW n \in Nat
  PROVE  /\ DataCells(n) \in Seq(Cells) /\ Len(DataCells(n)) = n
         /\ \A k \in 1..n : DataCells(n)[k] = <<"data", 0, k>>
<1>2. PICK t : t = DataCells(n)
  OBVIOUS
<1>3. \A k \in 1..n : t[k] = <<"data", 0, k>>
  BY <1>2 DEF DataCells
<1>4. Len(t) = n
  BY <1>2 DEF DataCells
<1>5. \A k \in 1..n : <<"data", 0, k>> \in Cells
  BY DEF Cells
<1>6. t \in [1..n -> Cells]
  BY <1>2, <1>5 DEF DataCells
<1> QED
  BY <1>2, <1>3, <1>4, <1>6, SeqDef

LEMMA NameOnWire ==
  /\ NameCells \in Seq(Cells) /\ Len(NameCells) = NameLen
  /\ \A k \in 1..NameLen : NameCells[k] = <<"name", 0, k>>
<1>1. NameLen \in Nat
  BY Sizes
<1>2. PICK t : t = NameCells
  OBVIOUS
<1>3. \A k \in 1..NameLen : t[k] = <<"name", 0, k>>
  BY <1>2 DEF NameCells
<1>4. Len(t) = NameLen
  BY <1>1, <1>2 DEF NameCells
<1>5. \A k \in 1..NameLen : <<"name", 0, k>> \in Cells
  BY <1>1 DEF Cells
<1>6. t \in [1..NameLen -> Cells]
  BY <1>2, <1>5 DEF NameCells
<1> QED
  BY <1>1, <1>2, <1>3, <1>4, <1>6, SeqDef

(* A train is the int of its length and its cells. *)
LEMMA TrainOnWire ==
  ASSUME NEW s \in Seq(Cells), NEW n \in Nat, n = Len(s)
  PROVE  /\ Train(s) \in Seq(Cells) /\ Len(Train(s)) = IntSize + n
         /\ \A k \in 1..IntSize : Train(s)[k] = <<"int", n, k>>
         /\ \A k \in 1..n : Train(s)[IntSize + k] = s[k]
<1>1. /\ IntCells(n) \in Seq(Cells) /\ Len(IntCells(n)) = IntSize
      /\ \A k \in 1..IntSize : IntCells(n)[k] = <<"int", n, k>>
  BY IntOnWire
<1>2. Train(s) = IntCells(n) \o s
  BY DEF Train
<1> QED
  BY <1>1, <1>2, Joined

(* The bytes of an int are read as that int. *)
LEMMA Decoded ==
  ASSUME NEW v \in Int, NEW s \in Seq(Cells), Len(s) = IntSize,
         \A k \in 1..IntSize : s[k] = <<"int", v, k>>
  PROVE  Decode(s) = v
<1>1. s = IntCells(v)
  BY IntOnWire, SeqEqual
<1>2. 1 \in 1..IntSize
  BY Sizes
<1>3. s[1][2] = v
  BY <1>2
<1> QED
  BY <1>1, <1>3 DEF Decode

-----------------------------------------------------------------------------
(* The invariant: whatever the pieces, the client, the wire and the server *)
(* are at positions of one stream.                                         *)

(* How much of the stream the client had received when it began the        *)
(* current recvn.                                                          *)
Before ==
  CASE cpc = "nameLen" -> 0
    [] cpc = "name"    -> IntSize
    [] cpc = "sizeLen" -> IntSize + NameLen
    [] cpc = "size"    -> IntSize + NameLen + IntSize
    [] cpc = "done"    -> Base + Len(file) + IntSize
    [] OTHER           -> Base + Len(file)

Received == Before + Len(buf)

(* s is the stream of a file of l bytes after position p. *)
From(l, s, p) == \A i \in 1..Len(s) : s[i] = CellOf(l, p + i)

Sequences == {wire, buf, file} \subseteq Seq(Cells)

(* What is on the wire is what the server has sent and the client has not  *)
(* received.                                                               *)
SentSoFar ==
  /\ server = "sending" => Received + Len(wire) = EndOf(fileLen, frame)
  /\ server = "closed" => Received + Len(wire) = EndOf(fileLen, 5)
  /\ server = "killed" => Received + Len(wire) <= EndOf(fileLen, 5)
InOrder ==
  /\ From(fileLen, wire, Received)
  /\ From(fileLen, buf, Before)
  /\ From(fileLen, file, Base)

Header == {"nameLen", "name", "sizeLen", "size"}

(* What the client knows where it is. *)
Knows ==
  /\ want = IF cpc = "name" THEN NameLen ELSE IntSize
  /\ cpc \in Header => file = <<>>
  /\ cpc \in {"data", "done", "failed"} => buf = <<>>
  /\ cpc \notin Header => fileSize = ToInt(fileLen)
  /\ cpc = "data" => Len(file) < fileSize
  /\ cpc \in {"end", "done"} => IF fileSize > 0 THEN Len(file) >= fileSize ELSE file = <<>>
  /\ cpc \in {"end", "done"} /\ method = "mmap" => Len(file) <= fileSize

StreamInv == TypeOK /\ Sequences /\ SentSoFar /\ InOrder /\ Knows

-----------------------------------------------------------------------------
(* Pieces of the stream.                                                   *)

LEMMA FromJoined ==
  ASSUME NEW l, NEW p \in Nat, NEW s \in Seq(Cells), NEW t \in Seq(Cells),
         NEW m, m = Len(s), From(l, s, p), From(l, t, p + m)
  PROVE  From(l, s \o t, p)
<1>1. PICK n : n = Len(t)
  OBVIOUS
<1>2. /\ m \in Nat /\ n \in Nat /\ Len(s \o t) = m + n
      /\ \A k \in 1..m : (s \o t)[k] = s[k]
      /\ \A k \in 1..n : (s \o t)[m + k] = t[k]
  BY <1>1, Joined
<1>3. ASSUME NEW i \in 1..m + n PROVE (s \o t)[i] = CellOf(l, p + i)
  <2>1. CASE i <= m
    <3>1. i \in 1..m
      BY <1>2, <2>1
    <3> QED
      BY <1>2, <3>1 DEF From
  <2>2. CASE i > m
    <3>1. PICK k \in 1..n : i = m + k
      <4>1. i - m \in 1..n /\ i = m + (i - m)
        BY <1>2, <2>2
      <4> QED
        BY <4>1
    <3>2. t[k] = CellOf(l, (p + m) + k)
      BY <1>1 DEF From
    <3>3. (p + m) + k = p + i
      BY <1>2, <3>1
    <3> QED
      BY <1>2, <3>1, <3>2, <3>3
  <2> QED
    BY <1>2, <2>1, <2>2
<1> QED
  BY <1>2, <1>3 DEF From

LEMMA FromCut ==
  ASSUME NEW l, NEW p \in Nat, NEW s \in Seq(Cells), NEW n \in 0..Len(s), From(l, s, p)
  PROVE  From(l, SubSeq(s, 1, n), p) /\ From(l, SubSeq(s, n + 1, Len(s)), p + n)
<1>1. PICK m \in Nat : m = Len(s)
  BY LenProperties
<1>2. n \in Nat /\ n <= m
  BY <1>1
<1>3. /\ Len(SubSeq(s, 1, n)) = n
      /\ \A k \in 1..n : SubSeq(s, 1, n)[k] = s[k]
      /\ Len(SubSeq(s, n + 1, m)) = m - n
      /\ \A k \in 1..m - n : SubSeq(s, n + 1, m)[k] = s[n + k]
  BY <1>1, Cut
<1>4. \A i \in 1..m : s[i] = CellOf(l, p + i)
  BY <1>1 DEF From
<1>5. From(l, SubSeq(s, 1, n), p)
  <2>1. \A i \in 1..n : i \in 1..m
    BY <1>2
  <2> QED
    BY <1>3, <1>4, <2>1 DEF From
<1>6. From(l, SubSeq(s, n + 1, m), p + n)
  <2>1. \A i \in 1..m - n : n + i \in 1..m /\ (p + n) + i = p + (n + i)
    BY <1>2
  <2> QED
    BY <1>3, <1>4, <2>1 DEF From
<1> QED
  BY <1>1, <1>5, <1>6

(* Each call of transFile sends its part of the stream. *)
LEMMA FrameCells ==
  ASSUME NEW f \in 1..4, fileLen \in Nat
  PROVE  /\ Frames[f] \in Seq(Cells)
         /\ Len(Frames[f]) = EndOf(fileLen, f + 1) - EndOf(fileLen, f)
         /\ From(fileLen, Frames[f], EndOf(fileLen, f))
<1> PICK l : l = fileLen
  OBVIOUS
<1> DEFINE v == ToInt(l)
           d == Transferred(l)
<1>1. /\ IntSize \in Nat \ {0} /\ NameLen \in Nat \ {0} /\ MaxSendfile \in Nat \ {0}
      /\ Base = IntSize + NameLen + IntSize + IntSize /\ Base \in Nat
  BY Sizes DEF Base
<1>2. v \in Int /\ d \in Nat
  <2>1. v \in -IntHalf..IntHalf - 1
    BY Converted
  <2> QED
    BY <2>1, Sizes, TransferredType
<1> HIDE DEF v, d
<1>3. CASE f = 1
  <2>1. PICK t : t = Train(NameCells)
    OBVIOUS
  <2>2. /\ t \in Seq(Cells) /\ Len(t) = IntSize + NameLen
        /\ \A k \in 1..IntSize : t[k] = <<"int", NameLen, k>>
        /\ \A k \in 1..NameLen : t[IntSize + k] = <<"name", 0, k>>
    BY ZenonT(60), <1>1, <2>1, NameOnWire, TrainOnWire
  <2>3. ASSUME NEW i \in 1..IntSize + NameLen PROVE t[i] = CellOf(l, 0 + i)
    <3>1. CASE i <= IntSize
      BY <1>1, <2>2, <3>1 DEF CellOf
    <3>2. CASE i > IntSize
      <4>1. i - IntSize \in 1..NameLen /\ i = IntSize + (i - IntSize)
        BY <1>1, <3>2
      <4>2. t[i] = <<"name", 0, i - IntSize>>
        BY <2>2, <4>1
      <4> QED
        BY <1>1, <3>2, <4>2 DEF CellOf
    <3> QED
      BY <1>1, <3>1, <3>2
  <2>4. EndOf(l, 2) - EndOf(l, 1) = IntSize + NameLen /\ EndOf(l, 1) = 0
    BY <1>1 DEF EndOf
  <2>5. Frames[f] = t /\ f + 1 = 2
    BY <1>3, <2>1 DEF Frames
  <2> QED
    BY <1>3, <2>2, <2>3, <2>4, <2>5 DEF From
<1>4. CASE f = 2
  <2>1. PICK t : t = Train(IntCells(v))
    OBVIOUS
  <2>2. /\ t \in Seq(Cells) /\ Len(t) = IntSize + IntSize
        /\ \A k \in 1..IntSize : t[k] = <<"int", IntSize, k>>
        /\ \A k \in 1..IntSize : t[IntSize + k] = <<"int", v, k>>
    <3>1. PICK c : c = IntCells(v)
      OBVIOUS
    <3>2. /\ c \in Seq(Cells) /\ Len(c) = IntSize /\ IntSize \in Nat
          /\ \A k \in 1..IntSize : c[k] = <<"int", v, k>>
      BY <1>1, <1>2, <3>1, IntOnWire
    <3>3. /\ t \in Seq(Cells) /\ Len(t) = IntSize + IntSize
          /\ \A k \in 1..IntSize : t[k] = <<"int", IntSize, k>>
          /\ \A k \in 1..IntSize : t[IntSize + k] = c[k]
      BY <2>1, <3>1, <3>2, TrainOnWire
    <3> QED
      BY <3>2, <3>3
  <2>3. ASSUME NEW i \in 1..IntSize + IntSize PROVE t[i] = CellOf(l, (IntSize + NameLen) + i)
    <3>1. CASE i <= IntSize
      <4>1. t[i] = <<"int", IntSize, i>>
        BY <1>1, <2>2, <3>1
      <4> QED
        BY <1>1, <3>1, <4>1 DEF CellOf
    <3>2. CASE i > IntSize
      <4>1. i - IntSize \in 1..IntSize /\ i = IntSize + (i - IntSize)
        BY <1>1, <3>2
      <4>2. t[i] = <<"int", v, i - IntSize>>
        BY <2>2, <4>1
      <4> QED
        BY <1>1, <3>2, <4>2 DEF CellOf, v
    <3> QED
      BY <1>1, <3>1, <3>2
  <2>4. EndOf(l, 3) - EndOf(l, 2) = IntSize + IntSize /\ EndOf(l, 2) = IntSize + NameLen
    BY <1>1 DEF EndOf
  <2>5. Frames[f] = t /\ f + 1 = 3
    BY <1>4, <2>1 DEF Frames, v
  <2> QED
    BY <1>4, <2>2, <2>3, <2>4, <2>5 DEF From
<1>5. CASE f = 3
  <2>1. PICK t : t = DataCells(d)
    OBVIOUS
  <2>2. /\ t \in Seq(Cells) /\ Len(t) = d
        /\ \A k \in 1..d : t[k] = <<"data", 0, k>>
    BY <1>2, <2>1, DataOnWire
  <2>3. ASSUME NEW i \in 1..d PROVE t[i] = CellOf(l, Base + i)
    <3>1. t[i] = <<"data", 0, i>>
      BY <2>2
    <3> QED
      BY <1>1, <1>2, <3>1 DEF CellOf, d
  <2>4. EndOf(l, 4) - EndOf(l, 3) = d /\ EndOf(l, 3) = Base
    BY <1>1, <1>2 DEF EndOf, d
  <2>5. Frames[f] = t /\ f + 1 = 4
    BY <1>5, <2>1 DEF Frames, Sendfile, Transferred, d
  <2> QED
    BY <1>5, <2>2, <2>3, <2>4, <2>5 DEF From
<1>6. CASE f = 4
  <2>1. PICK t : t = Train(<<>>)
    OBVIOUS
  <2>2. t \in Seq(Cells) /\ Len(t) = IntSize + 0 /\ \A k \in 1..IntSize : t[k] = <<"int", 0, k>>
    <3>1. PICK e : e = <<>>
      OBVIOUS
    <3>2. e \in Seq(Cells) /\ 0 = Len(e) /\ 0 \in Nat
      BY <3>1, EmptySeq
    <3> QED
      BY <2>1, <3>1, <3>2, TrainOnWire
  <2>3. ASSUME NEW i \in 1..IntSize PROVE t[i] = CellOf(l, (Base + d) + i)
    <3>1. t[i] = <<"int", 0, i>>
      BY <2>2
    <3> QED
      BY <1>1, <1>2, <3>1 DEF CellOf, d
  <2>4. EndOf(l, 5) - EndOf(l, 4) = IntSize /\ EndOf(l, 4) = Base + d
    BY <1>1, <1>2 DEF EndOf, d
  <2>5. Frames[f] = t /\ f + 1 = 5
    BY <1>6, <2>1 DEF Frames
  <2>6. Len(t) = IntSize
    BY <1>1, <2>2
  <2> QED
    BY <1>6, <2>2, <2>3, <2>4, <2>5, <2>6 DEF From
<1> QED
  BY <1>3, <1>4, <1>5, <1>6

-----------------------------------------------------------------------------
(* The invariant is inductive.                                             *)

LEMMA Positions ==
  ASSUME StreamInv
  PROVE  /\ Len(wire) \in Nat /\ Len(buf) \in Nat /\ Len(file) \in Nat
         /\ fileLen \in Nat /\ Base \in Nat
         /\ Before \in Nat /\ Received \in Nat /\ Received = Before + Len(buf)
         /\ fileSize \in Int
<1>1. Len(wire) \in Nat /\ Len(buf) \in Nat /\ Len(file) \in Nat
  BY LenProperties DEF StreamInv, Sequences
<1>2. fileLen \in Nat /\ Base \in Nat
  BY Sizes DEF StreamInv, TypeOK, Base
<1>3. Before \in Nat
  BY <1>1, <1>2, Sizes, SMTT(30) DEF Before
<1>4. fileSize \in Int
  BY Sizes DEF StreamInv, TypeOK
<1> QED
  BY <1>1, <1>2, <1>3, <1>4 DEF Received

LEMMA EndOfType ==
  ASSUME NEW l \in Nat, NEW f \in 1..5
  PROVE  EndOf(l, f) \in Nat /\ EndOf(l, f) <= EndOf(l, 5)
<1>1. PICK d \in Nat : d = Transferred(l)
  BY TransferredType
<1> QED
  BY <1>1, Sizes DEF EndOf, Base

LEMMA StreamBegins ==
  ASSUME Init
  PROVE  StreamInv
<1>1. PICK e : e = <<>>
  OBVIOUS
<1>2. e \in Seq(Cells) /\ Len(e) = 0
  BY <1>1, EmptySeq
<1>3. TypeOK
  BY <1>1, <1>2, Sizes DEF Init, TypeOK, ClientStates
<1>4. wire = e /\ buf = e /\ file = e
  BY <1>1 DEF Init
<1>5. Before = 0 /\ Received = 0
  BY <1>2, <1>4 DEF Init, Before, Received
<1>6. Sequences
  BY <1>2, <1>4 DEF Sequences
<1>7. SentSoFar
  BY <1>2, <1>4, <1>5 DEF Init, SentSoFar, EndOf
<1>8. InOrder
  BY <1>2, <1>4 DEF InOrder, From
<1>9. Knows
  BY DEF Init, Knows, Header
<1> QED
  BY <1>3, <1>6, <1>7, <1>8, <1>9 DEF StreamInv

(* What a step of the server must do: append to the wire the stream from   *)
(* where the wire ends.                                                    *)
LEMMA ServerKeeps ==
  ASSUME StreamInv, NEW s \in Seq(Cells), wire' = wire \o s,
         From(fileLen, s, Received + Len(wire)),
         UNCHANGED <<method, fileLen, cpc, want, buf, fileSize, file>>,
         server' \in {"sending", "closed", "killed"}, frame' \in 1..5,
         NEW n, n = Len(s),
         server' = "sending" => Received + Len(wire) + n = EndOf(fileLen, frame'),
         server' = "closed" => Received + Len(wire) + n = EndOf(fileLen, 5),
         server' = "killed" => Received + Len(wire) + n <= EndOf(fileLen, 5)
  PROVE  StreamInv'
<1>1. /\ Len(wire) \in Nat /\ Before \in Nat /\ Received \in Nat
  BY Positions
<1>2. wire \in Seq(Cells) /\ buf \in Seq(Cells) /\ file \in Seq(Cells)
  BY DEF StreamInv, Sequences
<1>3. wire' \in Seq(Cells) /\ Len(wire') = Len(wire) + n /\ n \in Nat
  BY <1>2, Joined
<1>4. Before' = Before /\ Received' = Received
  BY DEF Before, Received
<1>5. From(fileLen, wire', Received)
  BY <1>1, <1>2, FromJoined DEF StreamInv, InOrder
<1>6. TypeOK'
  BY DEF StreamInv, TypeOK
<1>7. Sequences'
  BY <1>2, <1>3 DEF Sequences
<1>8. SentSoFar'
  <2>1. Received' + Len(wire') = Received + Len(wire) + n
    BY <1>1, <1>3, <1>4
  <2>2. fileLen' = fileLen
    OBVIOUS
  <2> QED
    BY <2>1, <2>2 DEF SentSoFar
<1>9. InOrder'
  BY <1>4, <1>5 DEF StreamInv, InOrder
<1>10. Knows'
  BY DEF StreamInv, Knows, Header
<1> QED
  BY <1>6, <1>7, <1>8, <1>9, <1>10 DEF StreamInv

LEMMA SendStep ==
  ASSUME StreamInv, Send
  PROVE  StreamInv'
<1>1. /\ server = "sending" /\ frame \in 1..4 /\ fileLen \in Nat
      /\ wire' = wire \o Frames[frame] /\ frame' = frame + 1 /\ server' = "sending"
      /\ UNCHANGED <<method, fileLen, cpc, want, buf, fileSize, file>>
  BY Sizes DEF StreamInv, TypeOK, Send
<1>2. /\ Frames[frame] \in Seq(Cells)
      /\ Len(Frames[frame]) = EndOf(fileLen, frame + 1) - EndOf(fileLen, frame)
      /\ From(fileLen, Frames[frame], EndOf(fileLen, frame))
  BY <1>1, FrameCells
<1>3. Received + Len(wire) = EndOf(fileLen, frame)
  BY <1>1 DEF StreamInv, SentSoFar
<1>4. EndOf(fileLen, frame) \in Nat /\ EndOf(fileLen, frame + 1) \in Nat /\ frame + 1 \in 1..5
  <2>1. frame \in 1..5 /\ frame + 1 \in 1..5
    BY <1>1
  <2> QED
    BY <1>1, <2>1, EndOfType
<1>5. Received + Len(wire) + Len(Frames[frame]) = EndOf(fileLen, frame')
  BY <1>1, <1>2, <1>3, <1>4
<1>6. From(fileLen, Frames[frame], Received + Len(wire))
  BY <1>2, <1>3
<1> QED
  BY <1>1, <1>2, <1>4, <1>5, <1>6, ServerKeeps

LEMMA CloseConnectionStep ==
  ASSUME StreamInv, CloseConnection
  PROVE  StreamInv'
<1>1. /\ server = "sending" /\ frame = 5 /\ server' = "closed"
      /\ UNCHANGED <<method, fileLen, frame, wire, cpc, want, buf, fileSize, file>>
  BY DEF CloseConnection
<1>2. Before' = Before /\ Received' = Received
  BY <1>1 DEF Before, Received
<1>3. TypeOK'
  BY <1>1 DEF StreamInv, TypeOK
<1>4. SentSoFar'
  BY <1>1, <1>2 DEF StreamInv, SentSoFar
<1>5. Sequences' /\ InOrder' /\ Knows'
  BY <1>1, <1>2 DEF StreamInv, Sequences, InOrder, Knows, Header
<1> QED
  BY <1>3, <1>4, <1>5 DEF StreamInv

LEMMA KillStep ==
  ASSUME StreamInv, Kill
  PROVE  StreamInv'
<1>1. /\ server = "sending" /\ frame \in 1..4 /\ fileLen \in Nat /\ server' = "killed"
      /\ UNCHANGED <<method, fileLen, frame, cpc, want, buf, fileSize, file>>
  BY Sizes DEF StreamInv, TypeOK, Kill
<1> PICK c : c = Frames[frame]
  OBVIOUS
<1>2. /\ c \in Seq(Cells)
      /\ Len(c) = EndOf(fileLen, frame + 1) - EndOf(fileLen, frame)
      /\ From(fileLen, c, EndOf(fileLen, frame))
  BY <1>1, FrameCells
<1>3. PICK n \in 0..Len(c) : wire' = wire \o SubSeq(c, 1, n)
  BY DEF Kill
<1>4. Received + Len(wire) = EndOf(fileLen, frame)
  BY <1>1 DEF StreamInv, SentSoFar
<1>5. EndOf(fileLen, frame) \in Nat /\ EndOf(fileLen, frame + 1) \in Nat
      /\ EndOf(fileLen, frame + 1) <= EndOf(fileLen, 5) /\ EndOf(fileLen, 5) \in Nat
  <2>1. frame \in 1..5 /\ frame + 1 \in 1..5 /\ 5 \in 1..5
    BY <1>1
  <2> QED
    BY <1>1, <2>1, EndOfType
<1>6. SubSeq(c, 1, n) \in Seq(Cells) /\ Len(SubSeq(c, 1, n)) = n
  BY <1>2, Cut
<1>7. From(fileLen, SubSeq(c, 1, n), Received + Len(wire))
  BY <1>2, <1>4, <1>5, FromCut
<1>8. Received + Len(wire) + n <= EndOf(fileLen, 5)
  BY <1>2, <1>3, <1>4, <1>5
<1>9. frame' \in 1..5
  BY <1>1
<1> QED
  BY <1>1, <1>3, <1>6, <1>7, <1>8, <1>9, ServerKeeps

(* What the client must do with the n cells it takes from the wire: move   *)
(* on by as many in the stream, and keep every cell at its place.          *)
LEMMA ClientKeeps ==
  ASSUME StreamInv, NEW n \in 1..Len(wire), wire' = SubSeq(wire, n + 1, Len(wire)),
         UNCHANGED serverVars, TypeOK', Knows',
         buf' \in Seq(Cells), file' \in Seq(Cells),
         Received' = Received + n,
         From(fileLen, buf', Before'), From(fileLen, file', Base)
  PROVE  StreamInv'
<1>1. wire \in Seq(Cells) /\ Len(wire) \in Nat /\ Received \in Nat /\ n \in Nat /\ n \in 0..Len(wire)
  BY Positions DEF StreamInv, Sequences
<1>2. wire' \in Seq(Cells) /\ Len(wire') = Len(wire) - n
  BY <1>1, Cut
<1>3. From(fileLen, wire', Received + n)
  BY <1>1, FromCut DEF StreamInv, InOrder
<1>4. Sequences'
  BY <1>2 DEF Sequences
<1>5. UNCHANGED <<method, fileLen, server, frame>>
  BY DEF serverVars
<1>6. SentSoFar'
  <2>1. PICK m \in Nat, r \in Nat : m = Len(wire) /\ r = Received
    BY <1>1
  <2>2. (r + n) + (m - n) = r + m
    BY <1>1
  <2>3. Received' + Len(wire') = Received + Len(wire)
    BY <1>2, <2>1, <2>2
  <2> QED
    BY <1>5, <2>3 DEF StreamInv, SentSoFar
<1>7. InOrder'
  BY <1>3, <1>5 DEF InOrder
<1> QED
  BY <1>4, <1>6, <1>7 DEF StreamInv

(* The cells of a recvn are those of the stream after its beginning. *)
LEMMA RecvnReads ==
  ASSUME StreamInv, NEW n \in 1..Len(wire)
  PROVE  /\ buf \o SubSeq(wire, 1, n) \in Seq(Cells)
         /\ Len(buf \o SubSeq(wire, 1, n)) = Len(buf) + n
         /\ From(fileLen, buf \o SubSeq(wire, 1, n), Before)
<1>1. /\ wire \in Seq(Cells) /\ buf \in Seq(Cells) /\ n \in 0..Len(wire)
      /\ Before \in Nat /\ Received = Before + Len(buf) /\ Received \in Nat
  BY Positions DEF StreamInv, Sequences
<1>2. PICK t : t = SubSeq(wire, 1, n)
  OBVIOUS
<1>3. t \in Seq(Cells) /\ Len(t) = n
  BY <1>1, <1>2, Cut
<1>4. From(fileLen, t, Received)
  BY <1>1, <1>2, FromCut DEF StreamInv, InOrder
<1>5. buf \o t \in Seq(Cells) /\ Len(buf \o t) = Len(buf) + n
  BY <1>1, <1>3, Joined
<1>6. From(fileLen, buf \o t, Before)
  <2>1. From(fileLen, buf, Before) /\ From(fileLen, t, Before + Len(buf))
    BY <1>1, <1>4 DEF StreamInv, InOrder
  <2> QED
    BY <1>1, <1>3, <2>1, FromJoined
<1> QED
  BY <1>2, <1>5, <1>6

(* A recvn that has part of what it wants. *)
LEMMA RecvnPart ==
  ASSUME StreamInv, NEW n \in 1..Len(wire), Len(buf) + n < want,
         cpc \notin {"data", "done", "failed"},
         wire' = SubSeq(wire, n + 1, Len(wire)), buf' = buf \o SubSeq(wire, 1, n),
         UNCHANGED <<cpc, want, fileSize, serverVars, file>>
  PROVE  StreamInv'
<1>1. UNCHANGED <<method, fileLen, server, frame>>
  BY DEF serverVars
<1>2. /\ buf' \in Seq(Cells) /\ Len(buf') = Len(buf) + n
      /\ From(fileLen, buf', Before)
  BY RecvnReads
<1>3. Before' = Before
  BY DEF Before
<1>4. Received' = Received + n
  <2>1. Received' = Before + (Len(buf) + n)
    BY <1>2, <1>3 DEF Received
  <2>2. Before \in Nat /\ Len(buf) \in Nat /\ Len(wire) \in Nat /\ Received = Before + Len(buf)
    BY Positions
  <2> QED
    BY <2>1, <2>2
<1>5. TypeOK'
  BY <1>1, <1>2 DEF StreamInv, TypeOK
<1>6. Knows'
  BY <1>1 DEF StreamInv, Knows, Header
<1>7. file' \in Seq(Cells) /\ From(fileLen, file', Base)
  BY DEF StreamInv, Sequences, InOrder
<1> QED
  BY <1>2, <1>3, <1>4, <1>5, <1>6, <1>7, ClientKeeps

(* What a recvn of an int or of the name has read when it is complete. *)
LEMMA RecvnMeans ==
  ASSUME StreamInv, NEW s \in Seq(Cells), Len(s) = want, From(fileLen, s, Before)
  PROVE  /\ cpc = "nameLen" => Decode(s) = NameLen
         /\ cpc = "sizeLen" => Decode(s) = IntSize
         /\ cpc = "size" => Decode(s) = ToInt(fileLen)
<1>1. /\ IntSize \in Nat \ {0} /\ NameLen \in Nat \ {0}
      /\ Base = IntSize + NameLen + IntSize + IntSize
  BY Sizes DEF Base
<1>2. fileLen \in Nat /\ ToInt(fileLen) \in Int
  <2>1. fileLen \in Nat
    BY Positions
  <2>2. ToInt(fileLen) \in -IntHalf..IntHalf - 1
    BY <2>1, Converted
  <2> QED
    BY <2>1, <2>2, Sizes
<1>3. cpc \in {"nameLen", "sizeLen", "size"} => Len(s) = IntSize
  BY DEF StreamInv, Knows
<1>4. CASE cpc = "nameLen"
  <2>1. ASSUME NEW i \in 1..IntSize PROVE s[i] = <<"int", NameLen, i>>
    <3>1. s[i] = CellOf(fileLen, 0 + i) /\ 0 + i = i /\ i <= IntSize
      BY <1>1, <1>3, <1>4 DEF From, Before
    <3> QED
      BY <3>1 DEF CellOf
  <2>2. Decode(s) = NameLen
    BY <1>1, <1>3, <1>4, <2>1, Decoded
  <2> QED
    BY <1>4, <2>2
<1>5. CASE cpc = "sizeLen"
  <2>1. ASSUME NEW i \in 1..IntSize PROVE s[i] = <<"int", IntSize, i>>
    <3>1. s[i] = CellOf(fileLen, (IntSize + NameLen) + i)
      BY <1>1, <1>3, <1>5 DEF From, Before
    <3> QED
      BY <1>1, <3>1 DEF CellOf
  <2>2. Decode(s) = IntSize
    BY <1>1, <1>3, <1>5, <2>1, Decoded
  <2> QED
    BY <1>5, <2>2
<1>6. CASE cpc = "size"
  <2>1. ASSUME NEW i \in 1..IntSize PROVE s[i] = <<"int", ToInt(fileLen), i>>
    <3>1. s[i] = CellOf(fileLen, (IntSize + NameLen + IntSize) + i)
      BY <1>1, <1>3, <1>6 DEF From, Before
    <3> QED
      BY <1>1, <3>1 DEF CellOf
  <2>2. Decode(s) = ToInt(fileLen)
    BY <1>2, <1>3, <1>6, <2>1, Decoded
  <2> QED
    BY <1>6, <2>2
<1> QED
  BY <1>4, <1>5, <1>6

(* A recvn that is complete, in each of the client's states. *)
LEMMA RecvnWhole ==
  ASSUME StreamInv, NEW n \in 1..Len(wire), Len(buf) + n = want,
         wire' = SubSeq(wire, n + 1, Len(wire)), AfterRecvn(buf \o SubSeq(wire, 1, n)),
         UNCHANGED <<serverVars, file>>
  PROVE  StreamInv'
<1> PICK s : s = buf \o SubSeq(wire, 1, n)
  OBVIOUS
<1>1. UNCHANGED <<method, fileLen, server, frame>>
  BY DEF serverVars
<1>2. s \in Seq(Cells) /\ Len(s) = want /\ From(fileLen, s, Before)
  BY RecvnReads
<1>3. /\ cpc = "nameLen" => Decode(s) = NameLen
      /\ cpc = "sizeLen" => Decode(s) = IntSize
      /\ cpc = "size" => Decode(s) = ToInt(fileLen)
  BY <1>2, RecvnMeans
<1>4. /\ IntSize \in Nat \ {0} /\ NameLen \in Nat \ {0} /\ IntHalf \in Nat
      /\ Base = IntSize + NameLen + IntSize + IntSize
      /\ Before \in Nat /\ Received = Before + Len(buf) /\ Len(buf) \in Nat /\ Len(file) \in Nat
      /\ Len(wire) \in Nat
  BY Sizes, Positions DEF Base
<1>5. ToInt(fileLen) \in -IntHalf..IntHalf - 1 /\ ToInt(fileLen) \in Int
  <2>1. ToInt(fileLen) \in -IntHalf..IntHalf - 1
    BY Positions, Converted
  <2> QED
    BY <1>4, <2>1
<1>6. buf' = <<>> /\ Len(<<>>) = 0 /\ <<>> \in Seq(Cells) /\ AfterRecvn(s)
  BY EmptySeq DEF AfterRecvn, Goto
<1>7. file' = file /\ file \in Seq(Cells) /\ From(fileLen, file, Base)
  BY DEF StreamInv, Sequences, InOrder
<1>8. From(fileLen, buf', Before')
  BY <1>6 DEF From
<1>9. cpc = "name" => want = NameLen
  BY DEF StreamInv, Knows
<1>10. cpc # "name" => want = IntSize
  BY DEF StreamInv, Knows
<1>11. cpc \in Header => file = <<>>
  BY DEF StreamInv, Knows
<1>12. /\ method \in {"mmap", "splice"} /\ fileLen \in FileLens
       /\ server \in {"sending", "closed", "killed"} /\ frame \in 1..5
       /\ fileSize \in -IntHalf..IntHalf - 1
  BY DEF StreamInv, TypeOK
<1>13. SUFFICES TypeOK' /\ Knows' /\ Before' = Before + want
  <2>1. Received' = Before' + 0
    BY <1>6 DEF Received
  <2>2. Received' = Received + n
    BY <1>4, <1>13, <2>1
  <2> QED
    BY <1>6, <1>7, <1>8, <1>13, <2>2, ClientKeeps
<1>14. CASE cpc = "nameLen"
  <2>1. cpc' = "name" /\ want' = NameLen /\ fileSize' = fileSize
    BY <1>3, <1>6, <1>14 DEF AfterRecvn, Goto
  <2>2. Before' = Before + want
    BY <1>4, <1>10, <1>14, <2>1 DEF Before
  <2>3. TypeOK'
    BY <1>1, <1>4, <1>6, <1>7, <1>12, <2>1 DEF TypeOK, ClientStates
  <2>4. Knows'
    BY <1>7, <1>11, <1>14, <2>1 DEF Knows, Header
  <2> QED
    BY <2>2, <2>3, <2>4
<1>15. CASE cpc = "name"
  <2>1. cpc' = "sizeLen" /\ want' = IntSize /\ fileSize' = fileSize
    BY <1>6, <1>15 DEF AfterRecvn, Goto
  <2>2. Before' = Before + want
    BY <1>4, <1>9, <1>15, <2>1 DEF Before
  <2>3. TypeOK'
    BY <1>1, <1>4, <1>6, <1>7, <1>12, <2>1 DEF TypeOK, ClientStates
  <2>4. Knows'
    BY <1>7, <1>11, <1>15, <2>1 DEF Knows, Header
  <2> QED
    BY <2>2, <2>3, <2>4
<1>16. CASE cpc = "sizeLen"
  <2>1. cpc' = "size" /\ want' = IntSize /\ fileSize' = fileSize
    BY <1>3, <1>6, <1>16 DEF AfterRecvn, Goto
  <2>2. Before' = Before + want
    BY <1>4, <1>10, <1>16, <2>1 DEF Before
  <2>3. TypeOK'
    BY <1>1, <1>4, <1>6, <1>7, <1>12, <2>1 DEF TypeOK, ClientStates
  <2>4. Knows'
    BY <1>7, <1>11, <1>16, <2>1 DEF Knows, Header
  <2> QED
    BY <2>2, <2>3, <2>4
<1>17. CASE cpc = "size"
  <2>1. /\ fileSize' = ToInt(fileLen) /\ want' = IntSize
        /\ \/ ToInt(fileLen) > 0 /\ cpc' = "data"
           \/ ToInt(fileLen) <= 0 /\ method = "mmap" /\ cpc' = "failed"
           \/ ToInt(fileLen) <= 0 /\ method = "splice" /\ cpc' = "end"
    BY <1>3, <1>6, <1>17 DEF AfterRecvn, Goto
  <2>2. Len(file) = 0 /\ file = <<>>
    BY <1>6, <1>11, <1>17 DEF Header
  <2>3. Before' = Before + want
    <3>1. Before = IntSize + NameLen + IntSize
      BY <1>17 DEF Before
    <3>2. Before' = Base + Len(file)
      BY <1>7, <2>1 DEF Before
    <3> QED
      BY <1>4, <1>10, <1>17, <2>2, <3>1, <3>2
  <2>4. TypeOK'
    BY <1>1, <1>4, <1>5, <1>6, <1>7, <1>12, <2>1 DEF TypeOK, ClientStates
  <2>5. Knows'
    <3>1. cpc' # "name" /\ cpc' \notin Header /\ cpc' # "done"
      BY <2>1 DEF Header
    <3>2. fileSize' = ToInt(fileLen')
      BY <1>1, <2>1
    <3>3. cpc' = "data" => Len(file') < fileSize'
      BY <1>5, <1>7, <2>1, <2>2
    <3>4. cpc' = "end" => ~(fileSize' > 0) /\ file' = <<>> /\ method' = "splice"
      BY <1>1, <1>5, <1>7, <2>1, <2>2
    <3> QED
      BY <1>6, <2>1, <3>1, <3>2, <3>3, <3>4 DEF Knows
  <2> QED
    BY <2>3, <2>4, <2>5
<1>18. CASE cpc = "end"
  <2>1. cpc' = "done" /\ want' = IntSize /\ fileSize' = fileSize
    BY <1>6, <1>18 DEF AfterRecvn, Goto
  <2>2. Before' = Before + want
    BY <1>4, <1>7, <1>10, <1>18, <2>1 DEF Before
  <2>3. TypeOK'
    BY <1>1, <1>4, <1>6, <1>7, <1>12, <2>1 DEF TypeOK, ClientStates
  <2>4. Knows'
    BY <1>1, <1>6, <1>7, <1>18, <2>1 DEF StreamInv, Knows, Header
  <2> QED
    BY <2>2, <2>3, <2>4
<1> QED
  BY <1>6, <1>14, <1>15, <1>16, <1>17, <1>18 DEF AfterRecvn

LEMMA RecvnStep ==
  ASSUME StreamInv, Recvn
  PROVE  StreamInv'
<1>1. cpc \in {"nameLen", "name", "sizeLen", "size", "end"} /\ UNCHANGED <<serverVars, file>>
  BY DEF Recvn
<1>2. PICK n \in 1..Least(want - Len(buf), Len(wire)) :
        /\ wire' = SubSeq(wire, n + 1, Len(wire))
        /\ \/ /\ ~Complete(n)
              /\ buf' = buf \o SubSeq(wire, 1, n)
              /\ UNCHANGED <<cpc, want, fileSize>>
           \/ Complete(n) /\ AfterRecvn(buf \o SubSeq(wire, 1, n))
  BY DEF Recvn
<1>3. n \in 1..Len(wire) /\ Len(buf) + n <= want /\ n \in Nat /\ want \in Nat /\ Len(buf) \in Nat
  BY Positions DEF StreamInv, TypeOK, Least
<1>4. CASE Complete(n)
  <2>1. Len(buf) + n = want
    BY <1>3, <1>4 DEF Complete
  <2> QED
    BY <1>1, <1>2, <1>3, <1>4, <2>1, RecvnWhole
<1>5. CASE ~Complete(n)
  <2>1. Len(buf) + n < want
    BY <1>3, <1>5 DEF Complete
  <2> QED
    BY <1>1, <1>2, <1>3, <1>5, <2>1, RecvnPart
<1> QED
  BY <1>4, <1>5

(* A round of the loop that receives the contents. *)
LEMMA RecvDataStep ==
  ASSUME StreamInv, RecvData
  PROVE  StreamInv'
<1>1. PICK n \in 1..Least(Limit, Len(wire)) :
        file' = file \o SubSeq(wire, 1, n) /\ wire' = SubSeq(wire, n + 1, Len(wire))
  BY DEF RecvData
<1>2. /\ cpc = "data" /\ UNCHANGED <<serverVars, fileSize>>
      /\ \/ Len(file') < fileSize /\ UNCHANGED <<cpc, want, buf>>
         \/ Len(file') >= fileSize /\ cpc' = "end" /\ want' = IntSize /\ buf' = <<>>
  BY DEF RecvData, Goto
<1>3. /\ Len(wire) \in Nat /\ Len(file) \in Nat /\ fileSize \in Int /\ Base \in Nat
      /\ Received = Before + Len(buf)
  BY Positions
<1>4. n \in 1..Len(wire) /\ n \in Nat /\ n \in 0..Len(wire)
      /\ (method = "mmap" => Len(file) + n <= fileSize)
  <2>1. Limit \in Int /\ (method = "mmap" => Limit = fileSize - Len(file))
    BY <1>3, Sizes DEF Limit
  <2> QED
    BY <1>1, <1>3, <2>1 DEF Least
<1>5. buf = <<>> /\ want = IntSize /\ fileSize = ToInt(fileLen) /\ Len(file) < fileSize
  BY <1>2 DEF StreamInv, Knows, Header
<1>6. buf' = <<>> /\ want' = IntSize /\ cpc' \in {"data", "end"}
  BY <1>2, <1>5
<1>7. Len(<<>>) = 0 /\ <<>> \in Seq(Cells)
  BY EmptySeq
<1>8. Before = Base + Len(file) /\ Before' = Base + Len(file')
  BY <1>2, <1>6 DEF Before
<1>9. Received = Base + Len(file) /\ Received' = Base + Len(file')
  <2>1. Received' = Before' + Len(buf')
    BY DEF Received
  <2>2. Len(file') \in Nat
    <3>1. SubSeq(wire, 1, n) \in Seq(Cells)
      BY <1>4, Cut DEF StreamInv, Sequences
    <3>2. file' \in Seq(Cells)
      BY <1>1, <3>1, Joined DEF StreamInv, Sequences
    <3> QED
      BY <3>2, LenProperties
  <2> QED
    BY <1>3, <1>5, <1>6, <1>7, <1>8, <2>1, <2>2
<1>10. file' \in Seq(Cells) /\ Len(file') = Len(file) + n /\ From(fileLen, file', Base)
  <2>1. wire \in Seq(Cells) /\ file \in Seq(Cells)
    BY DEF StreamInv, Sequences
  <2>2. PICK t : t = SubSeq(wire, 1, n)
    OBVIOUS
  <2>3. t \in Seq(Cells) /\ Len(t) = n
    BY <1>4, <2>1, <2>2, Cut
  <2>4. From(fileLen, t, Base + Len(file))
    <3>1. From(fileLen, wire, Base + Len(file)) /\ Base + Len(file) \in Nat
      BY <1>3, <1>9 DEF StreamInv, InOrder
    <3> QED
      BY <1>4, <2>1, <2>2, <3>1, FromCut
  <2>5. file \o t \in Seq(Cells) /\ Len(file \o t) = Len(file) + n
    BY <2>1, <2>3, Joined
  <2>6. From(fileLen, file \o t, Base)
    BY <1>3, <2>1, <2>3, <2>4, FromJoined DEF StreamInv, InOrder
  <2> QED
    BY <1>1, <2>2, <2>5, <2>6
<1>11. UNCHANGED <<method, fileLen, server, frame, fileSize>>
  BY <1>2 DEF serverVars
<1>12. Received' = Received + n
  BY <1>3, <1>4, <1>9, <1>10
<1>13. TypeOK'
  <2>1. Len(buf') < want' /\ want' \in Nat
    BY <1>6, <1>7, Sizes
  <2>2. Len(file') \in Nat
    BY <1>3, <1>4, <1>10
  <2>3. cpc' \in ClientStates
    BY <1>6 DEF ClientStates
  <2> QED
    BY <1>11, <2>1, <2>2, <2>3 DEF StreamInv, TypeOK
<1>14. Knows'
  <2>1. cpc' # "name" /\ cpc' \notin Header /\ cpc' # "done"
    BY <1>6 DEF Header
  <2>2. fileSize' = ToInt(fileLen')
    BY <1>5, <1>11
  <2>3. cpc' = "data" => Len(file') < fileSize'
    BY <1>2, <1>11
  <2>4. cpc' = "end" => fileSize' > 0 /\ Len(file') >= fileSize'
    BY <1>2, <1>3, <1>5, <1>11
  <2>5. method' = "mmap" => Len(file') <= fileSize'
    BY <1>4, <1>10, <1>11
  <2> QED
    BY <1>6, <2>1, <2>2, <2>3, <2>4, <2>5 DEF Knows
<1>15. From(fileLen, buf', Before') /\ buf' \in Seq(Cells)
  BY <1>6, <1>7 DEF From
<1> QED
  BY <1>1, <1>4, <1>10, <1>11, <1>12, <1>13, <1>14, <1>15, ClientKeeps DEF serverVars

(* However TCP cuts the stream, however long the system calls are and      *)
(* whenever the server dies, what is on the wire, in the client's buffer   *)
(* and in its file are consecutive pieces of what transFile sends          *)
(* (transFile.c transFile, client.c recvn and recvFile, splice.c).         *)
THEOREM StreamInductive == Spec => []StreamInv
<1>1. Init => StreamInv
  BY StreamBegins
<1>2. StreamInv /\ [Next]_vars => StreamInv'
  <2> SUFFICES ASSUME StreamInv, [Next]_vars PROVE StreamInv'
    OBVIOUS
  <2>1. CASE Send
    BY <2>1, SendStep
  <2>2. CASE CloseConnection
    BY <2>2, CloseConnectionStep
  <2>3. CASE Kill
    BY <2>3, KillStep
  <2>4. CASE Recvn
    BY <2>4, RecvnStep
  <2>5. CASE RecvData
    BY <2>5, RecvDataStep
  <2>6. CASE UNCHANGED vars
    <3>1. UNCHANGED <<method, fileLen, server, frame, wire, cpc, want, buf, fileSize, file>>
      BY <2>6 DEF vars, serverVars
    <3>2. Before' = Before /\ Received' = Received
      BY <3>1 DEF Before, Received
    <3> QED
      BY <3>1, <3>2 DEF StreamInv, TypeOK, Sequences, SentSoFar, InOrder, Knows
  <2> QED
    BY <2>1, <2>2, <2>3, <2>4, <2>5, <2>6 DEF Next
<1> QED
  BY <1>1, <1>2, PTL DEF Spec

-----------------------------------------------------------------------------
(* What follows from it.                                                   *)

(* The client never receives more than the server can send. *)
LEMMA NotBeyondTheEnd ==
  ASSUME StreamInv
  PROVE  Received <= EndOf(fileLen, 5)
<1>1. Received \in Nat /\ Len(wire) \in Nat /\ fileLen \in Nat
  BY Positions
<1>2. frame \in 1..5 /\ server \in {"sending", "closed", "killed"}
  BY DEF StreamInv, TypeOK
<1>3. EndOf(fileLen, frame) \in Nat /\ EndOf(fileLen, frame) <= EndOf(fileLen, 5)
      /\ EndOf(fileLen, 5) \in Nat
  <2>1. 5 \in 1..5
    OBVIOUS
  <2> QED
    BY <1>1, <1>2, <2>1, EndOfType
<1>4. Received + Len(wire) <= EndOf(fileLen, 5)
  BY <1>2, <1>3 DEF StreamInv, SentSoFar
<1> QED
  BY <1>1, <1>3, <1>4

LEMMA CompletedIsWhole ==
  ASSUME StreamInv, cpc = "done", fileLen < IntHalf
  PROVE  file = DataCells(fileLen)
<1>1. /\ Len(file) \in Nat /\ fileLen \in Nat /\ Base \in Nat /\ IntSize \in Nat /\ IntHalf \in Nat
      /\ Received = Before + Len(buf) /\ Base = IntSize + NameLen + IntSize + IntSize
      /\ NameLen \in Nat
  BY Positions, Sizes DEF Base
<1>2. fileSize = fileLen /\ ToInt(fileLen) = fileLen
  BY <1>1, Converted DEF StreamInv, Knows, Header
<1>3. PICK d \in Nat : d = Transferred(fileLen)
  BY <1>1, TransferredType
<1>4. /\ buf = <<>>
      /\ IF fileLen > 0 THEN Len(file) >= fileLen ELSE file = <<>>
  BY <1>2 DEF StreamInv, Knows
<1>5. Base + Len(file) + IntSize <= Base + d + IntSize
  <2>1. Received = Base + Len(file) + IntSize
    <3>1. Len(buf) = 0
      BY <1>4
    <3>2. Before = Base + Len(file) + IntSize
      BY DEF Before
    <3> QED
      BY <1>1, <3>1, <3>2
  <2>2. EndOf(fileLen, 5) = Base + d + IntSize
    BY <1>3 DEF EndOf
  <2> QED
    BY <2>1, <2>2, NotBeyondTheEnd
<1>6. CASE fileLen > 0
  <2>1. d <= fileLen
    BY <1>1, <1>2, <1>3, <1>6, TransferredType
  <2>2. Len(file) = fileLen /\ d = fileLen
    BY <1>1, <1>4, <1>5, <1>6, <2>1
  <2>3. ASSUME NEW i \in 1..fileLen PROVE file[i] = <<"data", 0, i>>
    <3>1. file[i] = CellOf(fileLen, Base + i)
      BY <2>2 DEF StreamInv, InOrder, From
    <3>2. /\ ~(Base + i <= IntSize) /\ ~(Base + i <= IntSize + NameLen)
          /\ ~(Base + i <= IntSize + NameLen + IntSize) /\ ~(Base + i <= Base)
          /\ Base + i <= Base + Transferred(fileLen) /\ (Base + i) - Base = i
      BY <1>1, <1>3, <2>2
    <3> QED
      BY <3>1, <3>2 DEF CellOf
  <2>4. file \in Seq(Cells)
    BY DEF StreamInv, Sequences
  <2>5. PICK t : t = DataCells(fileLen)
    OBVIOUS
  <2>6. /\ t \in Seq(Cells) /\ Len(t) = fileLen
        /\ \A k \in 1..fileLen : t[k] = <<"data", 0, k>>
    BY <1>1, <2>5, DataOnWire
  <2>7. \A i \in 1..Len(file) : file[i] = t[i]
    BY <2>2, <2>3, <2>6
  <2> QED
    BY <2>2, <2>4, <2>5, <2>6, <2>7, SeqEqual
<1>7. CASE ~(fileLen > 0)
  <2>1. file = <<>> /\ fileLen = 0
    BY <1>1, <1>4, <1>7
  <2>2. DataCells(0) \in Seq(Cells) /\ Len(DataCells(0)) = 0
    BY DataOnWire
  <2> QED
    BY <2>1, <2>2, EmptySeq
<1> QED
  BY <1>6, <1>7

(* A client that completes has the file, whole and exact, for every way    *)
(* the stream is cut and every moment the server dies, as long as the size *)
(* of the file fits an int (client.c recvFile, transFile.c transFile).     *)
THEOREM CompletionIsIntegrity == Spec => []CompletionImpliesIntegrity
<1>1. StreamInv => CompletionImpliesIntegrity
  BY CompletedIsWhole DEF CompletionImpliesIntegrity, StreamInv
<1> QED
  BY <1>1, StreamInductive, PTL

LEMMA HungIsExplained ==
  ASSUME StreamInv, Hung, server # "killed", ~(fileLen > MaxSendfile)
  PROVE  method = "splice" /\ Len(file) > fileSize
<1>1. /\ server = "closed" /\ wire = <<>> /\ cpc \notin {"done", "failed"}
      /\ cpc \in ClientStates /\ method \in {"mmap", "splice"} /\ want \in Nat /\ Len(buf) < want
  BY DEF StreamInv, TypeOK, Hung
<1>2. /\ Len(file) \in Nat /\ fileLen \in Nat /\ Base \in Nat /\ IntSize \in Nat
      /\ Received = Before + Len(buf) /\ Base = IntSize + NameLen + IntSize + IntSize
      /\ NameLen \in Nat /\ Received \in Nat /\ Len(buf) \in Nat /\ MaxSendfile \in Nat
      /\ Before \in Nat
  BY Positions, Sizes DEF Base
<1>3. Transferred(fileLen) = fileLen /\ ToInt(fileLen) = fileLen
  BY <1>2, TransferredType
<1>4. Received = Base + fileLen + IntSize
  <2>1. Received + Len(wire) = EndOf(fileLen, 5)
    BY <1>1 DEF StreamInv, SentSoFar
  <2>2. Len(wire) = 0
    BY <1>1
  <2>3. EndOf(fileLen, 5) = Base + fileLen + IntSize
    BY <1>3 DEF EndOf
  <2> QED
    BY <1>2, <2>1, <2>2, <2>3
<1>5. cpc \notin Header
  <2>1. cpc = "name" => want = NameLen
    BY DEF StreamInv, Knows
  <2>2. cpc # "name" => want = IntSize
    BY DEF StreamInv, Knows
  <2>3. ASSUME cpc \in Header PROVE Before + want <= Base
    <3>1. CASE cpc = "nameLen"
      <4>1. Before = 0 /\ want = IntSize
        BY <2>2, <3>1 DEF Before
      <4> QED
        BY <1>2, <4>1
    <3>2. CASE cpc = "name"
      <4>1. Before = IntSize /\ want = NameLen
        BY <2>1, <3>2 DEF Before
      <4> QED
        BY <1>2, <4>1
    <3>3. CASE cpc = "sizeLen"
      <4>1. Before = IntSize + NameLen /\ want = IntSize
        BY <2>2, <3>3 DEF Before
      <4> QED
        BY <1>2, <4>1
    <3>4. CASE cpc = "size"
      <4>1. Before = IntSize + NameLen + IntSize /\ want = IntSize
        BY <2>2, <3>4 DEF Before
      <4> QED
        BY <1>2, <4>1
    <3> QED
      BY <2>3, <3>1, <3>2, <3>3, <3>4 DEF Header
  <2> QED
    BY <1>1, <1>2, <1>4, <2>3
<1>6. fileSize = fileLen
  BY <1>3, <1>5 DEF StreamInv, Knows
<1>7. Before = Base + Len(file)
  BY <1>1, <1>5 DEF Before, Header
<1>8. cpc # "data"
  <2>1. cpc = "data" => Len(file) < fileSize /\ Len(buf) = 0
    BY DEF StreamInv, Knows
  <2> QED
    BY <1>2, <1>4, <1>6, <1>7, <2>1
<1>9. cpc = "end"
  BY <1>1, <1>5, <1>8 DEF ClientStates, Header
<1>10. Len(buf) < IntSize
  BY <1>1, <1>9 DEF StreamInv, Knows
<1>11. Len(file) > fileSize
  BY <1>2, <1>4, <1>6, <1>7, <1>10
<1>12. method # "mmap"
  <2>1. method = "mmap" => Len(file) <= fileSize
    BY <1>9 DEF StreamInv, Knows
  <2> QED
    BY <1>2, <1>6, <1>11, <2>1
<1> QED
  BY <1>1, <1>11, <1>12

(* A client is left spinning at the end of the stream only by a server     *)
(* that died, by a sendfile that stopped short, or by a splice that took   *)
(* the last frame for contents (splice.c lines 39-44 and 51).              *)
THEOREM HangsAreExplained == Spec => []HangsExplained
<1>1. StreamInv => HangsExplained
  BY HungIsExplained DEF HangsExplained
<1> QED
  BY <1>1, StreamInductive, PTL
==============================================================================

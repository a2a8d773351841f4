-------------------------- MODULE EpollServersProofs -------------------------
(***************************************************************************)
(* Proofs about the chat room and the reconnecting server, for any clients *)
(* and users, any length of the arrays and any size of the buffers.        *)
(***************************************************************************)
EXTENDS EpollServers, FiniteSetTheorems, SequenceTheorems, TLAPS

-----------------------------------------------------------------------------
(* Sequences of units.                                                     *)

(* The units of d in s are consecutive; the last one is a. *)
Contiguous(s, d) ==
  \A k, l \in 1..Len(s) : s[k][1] = d /\ NextOf(s, k, l) => s[l][2] = s[k][2] + 1
EndsAt(s, d, a) ==
  \A k \in 1..Len(s) : LastOf(s, k) /\ s[k][1] = d => s[k][2] = a

(* The places of s \o t. *)
LEMMA Joined ==
  ASSUME NEW M, NEW s \in Seq(M), NEW t \in Seq(M), NEW m, NEW n, m = Len(s), n = Len(t)
  PROVE  /\ m \in Nat /\ n \in Nat /\ Len(s \o t) = m + n
         /\ \A k \in 1..m : (s \o t)[k] = s[k] /\ k \in 1..m + n
         /\ \A k \in m + 1..m + n : (s \o t)[k] = t[k - m] /\ k - m \in 1..n
<1>1. m \in Nat /\ n \in Nat
  BY LenProperties
<1>2. Len(s \o t) = m + n
      /\ \A k \in 1..m + n : (s \o t)[k] = IF k <= m THEN s[k] ELSE t[k - m]
  BY ConcatProperties
<1>3. ASSUME NEW k \in 1..m PROVE k \in 1..m + n /\ k <= m
  BY <1>1
<1>4. ASSUME NEW k \in m + 1..m + n PROVE k \in 1..m + n /\ ~(k <= m) /\ k - m \in 1..n
  BY <1>1
<1> QED
  BY <1>1, <1>2, <1>3, <1>4

(* Units of others at the end of a sequence. *)
LEMMA OthersAppended ==
  ASSUME NEW M, NEW s \in Seq(M), NEW t \in Seq(M), NEW d,
         \A k \in 1..Len(t) : t[k][1] # d
  PROVE  /\ Contiguous(s, d) => Contiguous(s \o t, d)
         /\ \A a : EndsAt(s, d, a) => EndsAt(s \o t, d, a)
<1> DEFINE u == s \o t
<1>0. PICK m \in Nat, n \in Nat : m = Len(s) /\ n = Len(t)
  BY LenProperties
<1>1. /\ m = Len(s) /\ n = Len(t)
      /\ Len(u) = m + n
      /\ \A k \in 1..m : u[k] = s[k] /\ k \in 1..m + n
      /\ \A k \in m + 1..m + n : u[k] = t[k - m] /\ k - m \in 1..n
  BY <1>0, Joined
<1> HIDE DEF u
<1>2. ASSUME NEW k \in 1..m + n, u[k][1] = d PROVE k \in 1..m
  <2>1. k \notin m + 1..m + n
    BY <1>1, <1>2
  <2> QED
    BY <2>1
<1>3. ASSUME Contiguous(s, d), NEW k \in 1..m + n, NEW l \in 1..m + n, u[k][1] = d, NextOf(u, k, l)
      PROVE  u[l][2] = u[k][2] + 1
  <2>1. k < l /\ u[l][1] = d /\ \A x \in k + 1..l - 1 : u[x][1] # d
    BY <1>3 DEF NextOf
  <2>2. k \in 1..m /\ l \in 1..m
    BY <1>2, <1>3, <2>1
  <2>3. \A x \in k + 1..l - 1 : x \in 1..m
    BY <2>2
  <2>4. NextOf(s, k, l) /\ s[k][1] = d
    BY <1>1, <1>3, <2>1, <2>2, <2>3 DEF NextOf
  <2> QED
    BY <1>1, <1>3, <2>2, <2>4 DEF Contiguous
<1>4. ASSUME NEW a, EndsAt(s, d, a), NEW k \in 1..m + n, LastOf(u, k), u[k][1] = d
      PROVE  u[k][2] = a
  <2>1. k \in 1..m
    BY <1>2, <1>4
  <2>2. \A x \in k + 1..m : x \in k + 1..m + n /\ x \in 1..m
    BY <2>1
  <2>3. LastOf(s, k) /\ s[k][1] = d
    BY <1>1, <1>4, <2>1, <2>2 DEF LastOf
  <2> QED
    BY <1>1, <1>4, <2>1, <2>3 DEF EndsAt
<1>5. Contiguous(s, d) => Contiguous(u, d)
  BY <1>1, <1>3 DEF Contiguous
<1>6. ASSUME NEW a, EndsAt(s, d, a) PROVE EndsAt(u, d, a)
  <2>1. \A k \in 1..m + n : LastOf(u, k) /\ u[k][1] = d => u[k][2] = a
    BY <1>4, <1>6
  <2> QED
    BY <1>1, <2>1 DEF EndsAt
<1> QED
  BY <1>5, <1>6 DEF u

(* The next n units of d at the end of a sequence, with others behind.     *)
LEMMA RunAppended ==
  ASSUME NEW M, NEW s \in Seq(M), NEW t \in Seq(M), NEW d, NEW a \in Nat, NEW n \in Nat,
         n <= Len(t), \A k \in 1..n : t[k] = <<d, a + k>>,
         \A k \in n + 1..Len(t) : t[k][1] # d,
         Contiguous(s, d), EndsAt(s, d, a)
  PROVE  Contiguous(s \o t, d) /\ EndsAt(s \o t, d, a + n)
<1> DEFINE u == s \o t
<1>0. PICK m \in Nat, r \in Nat : m = Len(s) /\ r = Len(t)
  BY LenProperties
<1>1. /\ m = Len(s) /\ r = Len(t)
      /\ Len(u) = m + r
      /\ \A k \in 1..m : u[k] = s[k] /\ k \in 1..m + r
      /\ \A k \in m + 1..m + r : u[k] = t[k - m] /\ k - m \in 1..r
  BY <1>0, Joined
<1> HIDE DEF u
<1>2. n <= r /\ \A k \in n + 1..r : t[k][1] # d
  BY <1>1
<1>3. ASSUME NEW k \in m + 1..m + n PROVE u[k] = <<d, a + (k - m)>>
  <2>1. k \in m + 1..m + r /\ k - m \in 1..n
    BY <1>2
  <2> QED
    BY <1>1, <2>1
<1>4. ASSUME NEW k \in 1..m + r, u[k][1] = d PROVE k \in 1..m \/ k \in m + 1..m + n
  <2>1. CASE k > m + n
    <3>1. k \in m + 1..m + r /\ k - m \in n + 1..r
      BY <2>1
    <3> QED
      BY <1>1, <1>2, <1>4, <3>1
  <2> QED
    BY <2>1
<1>5. ASSUME NEW k \in 1..m + r, NEW l \in 1..m + r, u[k][1] = d, NextOf(u, k, l)
      PROVE  u[l][2] = u[k][2] + 1
  <2>1. k < l /\ u[l][1] = d /\ \A x \in k + 1..l - 1 : u[x][1] # d
    BY <1>5 DEF NextOf
  <2>2. (k \in 1..m \/ k \in m + 1..m + n) /\ (l \in 1..m \/ l \in m + 1..m + n)
    BY <1>4, <1>5, <2>1
  <2>3. CASE l \in 1..m
    <3>1. k \in 1..m /\ \A x \in k + 1..l - 1 : x \in 1..m
      BY <2>1, <2>3
    <3>2. NextOf(s, k, l) /\ s[k][1] = d
      BY <1>1, <1>5, <2>1, <2>3, <3>1 DEF NextOf
    <3> QED
      BY <1>1, <2>3, <3>1, <3>2 DEF Contiguous
  <2>4. CASE k \in 1..m /\ l \in m + 1..m + n
    <3>1. u[l] = <<d, a + (l - m)>> /\ u[m + 1][1] = d
      <4>1. m + 1 \in m + 1..m + n
        BY <2>4
      <4> QED
        BY <1>3, <2>4, <4>1
    <3>2. l = m + 1
      <4>1. l # m + 1 => m + 1 \in k + 1..l - 1
        BY <2>4
      <4> QED
        BY <2>1, <3>1, <4>1
    <3>3. LastOf(s, k) /\ s[k][1] = d
      <4>1. \A x \in k + 1..m : x \in k + 1..l - 1 /\ x \in 1..m
        BY <2>4, <3>2
      <4> QED
        BY <1>1, <1>5, <2>1, <2>4, <4>1 DEF LastOf
    <3>4. s[k][2] = a
      BY <1>1, <2>4, <3>3 DEF EndsAt
    <3> QED
      BY <1>1, <2>4, <3>1, <3>2, <3>4
  <2>5. CASE k \in m + 1..m + n /\ l \in m + 1..m + n
    <3>1. k + 1 \in m + 1..m + n
      BY <2>1, <2>5
    <3>2. u[k] = <<d, a + (k - m)>> /\ u[l] = <<d, a + (l - m)>> /\ u[k + 1][1] = d
      BY <1>3, <2>5, <3>1
    <3>3. l = k + 1
      <4>1. l # k + 1 => k + 1 \in k + 1..l - 1
        BY <2>1, <2>5
      <4> QED
        BY <2>1, <3>2, <4>1
    <3> QED
      BY <2>5, <3>2, <3>3
  <2> QED
    BY <2>1, <2>2, <2>3, <2>4, <2>5
<1>6. ASSUME NEW k \in 1..m + r, LastOf(u, k), u[k][1] = d PROVE u[k][2] = a + n
  <2>1. \A x \in k + 1..m + r : u[x][1] # d
    BY <1>1, <1>6 DEF LastOf
  <2>2. CASE k \in 1..m
    <3>1. n = 0
      <4>1. n # 0 => m + 1 \in m + 1..m + n /\ m + 1 \in k + 1..m + r
        BY <1>2, <2>2
      <4>2. n # 0 => u[m + 1][1] = d
        BY <1>3, <4>1
      <4> QED
        BY <2>1, <4>1, <4>2
    <3>2. \A x \in k + 1..m : x \in k + 1..m + r /\ x \in 1..m
      BY <2>2
    <3>3. LastOf(s, k) /\ s[k][1] = d
      BY <1>1, <1>6, <2>1, <2>2, <3>2 DEF LastOf
    <3> QED
      BY <1>1, <2>2, <3>1, <3>3 DEF EndsAt
  <2>3. CASE k \in m + 1..m + n
    <3>1. m + n \in m + 1..m + n /\ (k # m + n => m + n \in k + 1..m + r)
      BY <1>2, <2>3
    <3>2. u[m + n] = <<d, a + ((m + n) - m)>>
      BY <1>3, <3>1
    <3>3. k = m + n
      BY <2>1, <3>1, <3>2
    <3> QED
      BY <3>2, <3>3
  <2> QED
    BY <1>4, <1>6, <2>2, <2>3
<1>7. Contiguous(u, d)
  BY <1>1, <1>5 DEF Contiguous
<1>8. EndsAt(u, d, a + n)
  BY <1>1, <1>6 DEF EndsAt
<1> QED
  BY <1>7, <1>8 DEF u

-----------------------------------------------------------------------------
(* What both servers use.                                                  *)

LEMMA MinOfTwo ==
  ASSUME NEW a \in Nat, NEW b \in Nat
  PROVE  /\ Min({a, b}) \in Nat /\ Min({a, b}) <= a /\ Min({a, b}) <= b
         /\ Min({a, b}) = a \/ Min({a, b}) = b
<1>1. \E x \in {a, b} : \A y \in {a, b} : x <= y
  OBVIOUS
<1>2. Min({a, b}) \in {a, b} /\ \A y \in {a, b} : Min({a, b}) <= y
  BY <1>1 DEF Min
<1> QED
  BY <1>2

(* The n units of c behind the first h. *)
Text(c, h, n) == [k \in 1..n |-> <<c, h + k>>]

(* What strlen takes for the message, when n units were received. *)
LEMMA StringOf ==
  ASSUME NEW c \in Clients \cup {NoClient}, NEW h \in Nat, NEW n \in Nat, n <= BufSize,
         NEW s \in Strings(Text(c, h, n))
  PROVE  /\ s \in Seq(Unit) /\ Len(s) \in Nat
         /\ n <= Len(s) /\ n = (IF Len(s) > BufSize THEN BufSize ELSE Len(s))
         /\ \A k \in 1..n : s[k] = <<c, h + k>>
         /\ \A k \in n + 1..Len(s) : s[k] = Garbage
<1>0. PICK t : t = Text(c, h, n)
  OBVIOUS
<1>1. t \in Seq(Unit) /\ Len(t) = n /\ \A k \in 1..n : t[k] = <<c, h + k>>
  <2>1. \A k \in 1..n : <<c, h + k>> \in Unit
    BY DEF Unit
  <2>2. \A k \in 1..n : t[k] = <<c, h + k>>
    BY <1>0 DEF Text
  <2>3. Len(t) = n
    BY <1>0 DEF Text
  <2>4. t \in [1..n -> Unit]
    BY <1>0, <2>1 DEF Text
  <2>5. t \in Seq(Unit)
    BY <2>4, SeqDef
  <2> QED
    BY <2>2, <2>3, <2>5
<1>2. s = t \/ (n = BufSize /\ s = Append(t, Garbage))
  BY <1>0, <1>1 DEF Strings
<1>3. CASE s = t
  <2>1. BufSize \in Nat /\ \A k \in n + 1..n : FALSE
    BY EpollClientsAssumption
  <2> QED
    BY <1>1, <1>3, <2>1
<1>4. CASE n = BufSize /\ s = Append(t, Garbage)
  <2>1. Garbage \in Unit
    BY DEF Garbage, Unit
  <2>2. /\ s \in Seq(Unit) /\ Len(s) = n + 1 /\ s[n + 1] = Garbage
        /\ \A k \in 1..n : s[k] = t[k]
    BY <1>1, <1>4, <2>1, AppendProperties
  <2>3. \A k \in n + 1..n + 1 : k = n + 1
    OBVIOUS
  <2> QED
    BY <1>1, <1>4, <2>2, <2>3
<1> QED
  BY <1>2, <1>3, <1>4

(* A client connects, says something or leaves. *)
LEMMA ClientsMove ==
  ASSUME ClientsTypeOK, ClientStep
  PROVE  /\ ClientsTypeOK' /\ Open' = Open /\ Backlog \subseteq Backlog'
         /\ \A c \in Clients : /\ Readable(c) => Readable(c)'
                               /\ left[c] # "no" => left'[c] # "no"
                               /\ left[c] = "rst" => left'[c] = "rst"
                               /\ conn[c] = "closed" => conn'[c] = "closed"
         /\ UNCHANGED <<prog, pc, ready, heard, out>> /\ Running
<1>1. UNCHANGED <<prog, pc, ready, heard, out>> /\ Running
  BY DEF ClientStep
<1>2. PICK c \in Clients : Connect(c) \/ Say(c) \/ Leave(c)
  BY DEF ClientStep
<1>3. MaxSaid[c] \in Nat
  BY EpollClientsAssumption
<1>4. CASE Connect(c)
  <2>1. /\ conn[c] = "idle" /\ conn' = [conn EXCEPT ![c] = "backlog"] /\ UNCHANGED <<said, left>>
    BY <1>4 DEF Connect
  <2>2. Open' = Open /\ Backlog \subseteq Backlog' /\ (\A d \in Clients : conn[d] = "closed" => conn'[d] = "closed")
    BY <2>1 DEF ClientsTypeOK, Open, Backlog
  <2> QED
    BY <1>1, <2>1, <2>2 DEF ClientsTypeOK, Readable, Unit
<1>5. CASE Say(c)
  <2>1. /\ said[c] < MaxSaid[c] /\ said' = [said EXCEPT ![c] = said[c] + 1] /\ UNCHANGED <<conn, left>>
    BY <1>5 DEF Say
  <2>2. said[c] \in Nat
    BY DEF ClientsTypeOK
  <2>3. \A d \in Clients : said[d] <= said'[d] /\ said'[d] <= MaxSaid[d] /\ said'[d] \in Nat
    BY <1>3, <2>1, <2>2 DEF ClientsTypeOK
  <2>4. said' \in [Clients -> Nat]
    BY <2>1, <2>2 DEF ClientsTypeOK
  <2>5. \A d \in Clients : heard[d] \in Nat /\ said[d] \in Nat /\ heard[d] <= said[d]
    BY DEF ClientsTypeOK
  <2>6. \A d \in Clients : heard[d] <= said'[d] /\ (heard[d] < said[d] => heard[d] < said'[d])
    BY <2>3, <2>5
  <2>7. ClientsTypeOK'
    BY <1>1, <2>1, <2>3, <2>4, <2>6 DEF ClientsTypeOK, Unit
  <2> QED
    BY <1>1, <2>1, <2>6, <2>7 DEF Readable, Open, Backlog
<1>6. CASE Leave(c)
  <2>1. PICK how \in {"fin", "rst"} : /\ left[c] = "no" /\ left' = [left EXCEPT ![c] = how]
                                      /\ UNCHANGED <<conn, said>>
    BY <1>6 DEF Leave
  <2>2. \A d \in Clients : left[d] # "no" => left'[d] = left[d]
    BY <2>1 DEF ClientsTypeOK
  <2>3. left' \in [Clients -> {"no", "fin", "rst"}]
    BY <2>1 DEF ClientsTypeOK
  <2> QED
    BY <1>1, <2>1, <2>2, <2>3 DEF ClientsTypeOK, Readable, Open, Backlog, Unit
<1> QED
  BY <1>1, <1>2, <1>4, <1>5, <1>6

(* A send that is taken. *)
LEMMA SendTyped ==
  ASSUME ClientsTypeOK, NEW c \in Clients, NEW s \in Seq(Unit), SendTakes(c, s)
  PROVE  /\ left[c] # "rst" /\ out' = [out EXCEPT ![c] = out[c] \o s]
         /\ out[c] \in Seq(Unit) /\ out' \in [Clients -> Seq(Unit)]
         /\ out'[c] = out[c] \o s /\ \A d \in Clients : d # c => out'[d] = out[d]
         /\ left' \in [Clients -> {"no", "fin", "rst"}]
         /\ \A d \in Clients : /\ left'[d] # "rst" => left[d] # "rst"
                               /\ left'[d] = "no" <=> left[d] = "no"
<1>1. left[c] # "rst" /\ out' = [out EXCEPT ![c] = out[c] \o s]
  BY DEF SendTakes
<1>2. out[c] \in Seq(Unit) /\ out[c] \o s \in Seq(Unit)
  <2>1. out[c] \in Seq(Unit)
    BY DEF ClientsTypeOK
  <2> QED
    BY <2>1, ConcatProperties
<1>3. PICK how \in {"no", "fin", "rst"} :
         /\ left' = [left EXCEPT ![c] = how] /\ (how = "no" <=> left[c] = "no")
  BY DEF SendTakes, ClientsTypeOK
<1>4. /\ left' \in [Clients -> {"no", "fin", "rst"}]
      /\ \A d \in Clients : left'[d] # "rst" => left[d] # "rst"
      /\ \A d \in Clients : left'[d] = "no" <=> left[d] = "no"
  BY <1>1, <1>3 DEF ClientsTypeOK
<1> QED
  BY <1>1, <1>2, <1>4 DEF ClientsTypeOK

-----------------------------------------------------------------------------
(* The room: its array.                                                    *)

InArray(c) == \E k \in 1..Len(netFdArr) : netFdArr[k] = c

RoomArray ==
  /\ RoomTypeOK
  /\ pc # "overrun" => Len(netFdArr) <= MaxConn
  /\ pc = "overrun" => Len(netFdArr) = MaxConn + 1
  /\ Cardinality(Open) = Len(netFdArr)
  /\ \A c \in Clients : c \in Open <=> InArray(c)
  /\ \A k, l \in 1..Len(netFdArr) : netFdArr[k] = netFdArr[l] => k = l
  /\ \A c \in Clients \cap ready : c \in Open /\ Readable(c)
  /\ Listen \in ready => Backlog # {}
  /\ pc = "relay" => /\ speaker \in Open /\ (heard[speaker] > 0 \/ left[speaker] # "no")
                     /\ j \in 1..Len(netFdArr) + 1

LEMMA InitRoomArray == Init => RoomArray
<1> SUFFICES ASSUME Init PROVE RoomArray
  OBVIOUS
<1>1. RoomTypeOK
  <2>1. \A c \in Clients : MaxSaid[c] \in Nat /\ 0 <= MaxSaid[c]
    BY EpollClientsAssumption
  <2>2. <<>> \in Seq(Unit) /\ <<>> \in Seq(Clients) /\ 0 \in 0..MaxConn + 1
    BY ChatRoomAssumption
  <2> QED
    BY <2>1, <2>2 DEF Init, ClientsInit, RoomInit, RoomTypeOK, ClientsTypeOK
<1>2. Open = {} /\ Cardinality(Open) = 0 /\ Len(netFdArr) = 0
  BY FS_EmptySet DEF Init, ClientsInit, RoomInit, Open
<1>3. ready = {} /\ pc = "wait"
  BY DEF Init, ClientsInit
<1> QED
  BY <1>1, <1>2, <1>3, ChatRoomAssumption DEF RoomArray, InArray

LEMMA RoomArrayClients ==
  ASSUME RoomArray, ClientStep, UNCHANGED <<netFdArr, relayVars>>
  PROVE  RoomArray'
<1>1. /\ ClientsTypeOK' /\ Open' = Open /\ Backlog \subseteq Backlog'
      /\ \A c \in Clients : Readable(c) => Readable(c)'
      /\ \A c \in Clients : left[c] # "no" => left'[c] # "no"
      /\ UNCHANGED <<prog, pc, ready, heard, out>>
  BY ClientsMove DEF RoomArray, RoomTypeOK
<1>2. RoomTypeOK'
  BY <1>1 DEF RoomArray, RoomTypeOK, relayVars
<1>3. pc' = "relay" => /\ speaker' \in Open' /\ (heard'[speaker'] > 0 \/ left'[speaker'] # "no")
                       /\ j' \in 1..Len(netFdArr') + 1
  BY <1>1 DEF RoomArray, relayVars, Open
<1> QED
  BY <1>1, <1>2, <1>3 DEF RoomArray, InArray

(* Nothing is accepted or received. *)
LEMMA RoomArrayLoops ==
  ASSUME RoomArray,
         RoomWait \/ RoomBatchDone \/ RoomAcceptFails \/ RoomSkip \/ RoomSend \/ RoomSendFails \/ RoomRelayed,
         UNCHANGED prog
  PROVE  RoomArray'
<1>t. /\ RoomTypeOK /\ ClientsTypeOK /\ MaxConn \in Nat
      /\ pc # "overrun" /\ Len(netFdArr) \in Nat /\ Len(netFdArr) <= MaxConn
      /\ \A c \in Clients \cap ready : c \in Open /\ Readable(c)
      /\ Listen \in ready => Backlog # {}
  <2>1. pc # "overrun"
    BY DEF RoomWait, RoomBatchDone, RoomAcceptFails, RoomSkip, RoomSend, RoomSendFails, RoomRelayed,
           Relaying
  <2> QED
    BY <2>1, ChatRoomAssumption, LenProperties DEF RoomArray, RoomTypeOK
<1>1. UNCHANGED <<conn, said, heard, netFdArr>>
  BY DEF RoomWait, RoomBatchDone, RoomAcceptFails, RoomSkip, RoomSend, RoomSendFails, RoomRelayed,
         clientVars, relayVars
<1>2. ready' = ready \/ ready' = ReadySockets
  BY DEF RoomWait, RoomBatchDone, RoomAcceptFails, RoomSkip, RoomSend, RoomSendFails, RoomRelayed,
         ReadyArr
<1>3. /\ left' \in [Clients -> {"no", "fin", "rst"}] /\ out' \in [Clients -> Seq(Unit)]
      /\ \A c \in Clients : left'[c] = "no" <=> left[c] = "no"
  <2>1. CASE RoomSend
    <3> DEFINE c == netFdArr[j]
    <3>1. SendTakes(c, buf) /\ pc = "relay" /\ j <= Len(netFdArr)
      BY <2>1 DEF RoomSend, Relaying
    <3>2. c \in Clients
      BY <1>t, <3>1 DEF RoomArray, RoomTypeOK
    <3> HIDE DEF c
    <3> QED
      BY <1>t, <3>1, <3>2, SendTyped DEF RoomTypeOK
  <2>2. CASE ~RoomSend
    <3>1. UNCHANGED <<left, out>>
      BY <2>2 DEF RoomWait, RoomBatchDone, RoomAcceptFails, RoomSkip, RoomSendFails, RoomRelayed,
                  SendRefused, clientVars
    <3> QED
      BY <1>t, <3>1 DEF ClientsTypeOK
  <2> QED
    BY <2>1, <2>2
<1>4. /\ Open' = Open /\ Backlog' = Backlog /\ \A c \in Clients : Readable(c)' <=> Readable(c)
  BY <1>1, <1>3 DEF Open, Backlog, Readable
<1>5. /\ ready' \subseteq Clients \cup {Listen, Stdin}
      /\ \A c \in Clients \cap ready' : c \in Open' /\ Readable(c)'
      /\ Listen \in ready' => Backlog' # {}
  <2>1. CASE ready' = ready
    BY <1>4, <1>t, <2>1 DEF ClientsTypeOK
  <2>2. CASE ready' = ReadySockets
    <3>1. Listen \notin Clients
      BY EpollClientsAssumption DEF Listen
    <3> QED
      BY <1>4, <2>2, <3>1 DEF ReadySockets, Open
  <2> QED
    BY <1>2, <2>1, <2>2
<1>6. /\ pc' \in {"wait", "dispatch", "relay", "exited", "killed"}
      /\ speaker' \in Clients \cup {NoClient} /\ buf' \in Seq(Unit) /\ j' \in 0..MaxConn + 1
      /\ pc' = "relay" => /\ pc = "relay" /\ speaker' = speaker
                          /\ j' \in 1..Len(netFdArr) + 1
  <2>1. CASE RoomWait \/ RoomBatchDone \/ RoomAcceptFails
    BY <1>t, <2>1 DEF RoomWait, RoomBatchDone, RoomAcceptFails, relayVars, RoomTypeOK
  <2>2. CASE RoomRelayed
    BY <1>t, <2>2 DEF RoomRelayed
  <2>3. CASE RoomSkip \/ RoomSend \/ RoomSendFails
    <3>1. /\ pc = "relay" /\ j <= Len(netFdArr) /\ UNCHANGED <<speaker, buf>>
          /\ j' = j \/ j' = j + 1
          /\ pc' = pc \/ pc' = "killed"
      BY <2>3 DEF RoomSkip, RoomSend, RoomSendFails, Relaying
    <3>2. j \in 1..Len(netFdArr) + 1
      BY <3>1 DEF RoomArray
    <3> QED
      BY <1>t, <3>1, <3>2 DEF RoomTypeOK
  <2> QED
    BY <2>1, <2>2, <2>3
<1>7. RoomTypeOK'
  BY <1>1, <1>3, <1>5, <1>6, <1>t DEF RoomTypeOK, ClientsTypeOK, Unit
<1>8. pc' = "relay" => /\ speaker' \in Open' /\ (heard'[speaker'] > 0 \/ left'[speaker'] # "no")
                       /\ j' \in 1..Len(netFdArr') + 1
  <2>1. pc' = "relay" => speaker \in Open /\ (heard[speaker] > 0 \/ left[speaker] # "no")
    BY <1>6 DEF RoomArray
  <2> QED
    BY <1>1, <1>3, <1>4, <1>6, <2>1 DEF Open
<1> QED
  BY <1>1, <1>4, <1>5, <1>6, <1>7, <1>8, <1>t DEF RoomArray, InArray

(* A connection gets the next slot. *)
LEMMA RoomArrayAccepts == ASSUME RoomArray, RoomAccept, UNCHANGED prog PROVE RoomArray'
<1>t. RoomTypeOK /\ ClientsTypeOK /\ MaxConn \in Nat
  BY ChatRoomAssumption DEF RoomArray, RoomTypeOK
<1>1. PICK c \in Clients : /\ conn[c] = "backlog" /\ conn' = [conn EXCEPT ![c] = "open"]
                           /\ netFdArr' = Append(netFdArr, c)
  BY DEF RoomAccept, Backlog
<1>2. /\ pc = "dispatch" /\ ready' = ready \ {Listen}
      /\ pc' = IF Len(netFdArr) >= MaxConn THEN "overrun" ELSE "dispatch"
      /\ UNCHANGED <<said, left, heard, out, speaker, buf, j>>
  BY DEF RoomAccept, relayVars
<1>3. PICK m \in Nat : m = Len(netFdArr) /\ m <= MaxConn
  BY <1>2, <1>t, LenProperties DEF RoomArray, RoomTypeOK
<1>4. /\ netFdArr' \in Seq(Clients) /\ Len(netFdArr') = m + 1 /\ netFdArr'[m + 1] = c
      /\ \A k \in 1..m : netFdArr'[k] = netFdArr[k] /\ k \in 1..m + 1
      /\ \A k \in 1..m + 1 : k = m + 1 \/ k \in 1..m
  <2>1. netFdArr \in Seq(Clients)
    BY <1>t DEF RoomTypeOK
  <2> QED
    BY <1>1, <1>3, <2>1, AppendProperties
<1>5. /\ c \notin Open /\ Open' = Open \cup {c}
      /\ conn' \in [Clients -> {"idle", "backlog", "open", "closed"}]
  BY <1>1, <1>t DEF ClientsTypeOK, Open
<1>6. \A d \in Clients : d \in Open <=> \E k \in 1..m : netFdArr[k] = d
  BY <1>3 DEF RoomArray, InArray
<1>7. \A d \in Clients : d \in Open' <=> InArray(d)'
  <2>1. \A d \in Clients : InArray(d)' <=> d = c \/ \E k \in 1..m : netFdArr[k] = d
    <3>1. m + 1 \in 1..m + 1
      OBVIOUS
    <3> QED
      BY <1>4, <3>1 DEF InArray
  <2> QED
    BY <1>5, <1>6, <2>1
<1>8. \A k, l \in 1..m + 1 : netFdArr'[k] = netFdArr'[l] => k = l
  <2>1. \A k \in 1..m : netFdArr[k] # c
    BY <1>1, <1>5, <1>6
  <2>2. \A k, l \in 1..m : netFdArr[k] = netFdArr[l] => k = l
    BY <1>3 DEF RoomArray
  <2> QED
    BY <1>4, <2>1, <2>2
<1>9. Cardinality(Open') = m + 1
  <2>1. IsFiniteSet(Open)
    BY EpollClientsAssumption, FS_Subset DEF Open
  <2>2. Cardinality(Open) = m
    BY <1>3 DEF RoomArray
  <2> QED
    BY <1>5, <2>1, <2>2, FS_AddElement
<1>10. RoomTypeOK'
  BY <1>2, <1>4, <1>5, <1>t DEF RoomTypeOK, ClientsTypeOK, Unit
<1>11. /\ \A d \in Clients \cap ready' : d \in Open' /\ Readable(d)'
       /\ Listen \notin ready'
  BY <1>2, <1>5 DEF RoomArray, Readable
<1>12. /\ pc' # "overrun" => Len(netFdArr') <= MaxConn
       /\ pc' = "overrun" => Len(netFdArr') = MaxConn + 1
       /\ Cardinality(Open') = Len(netFdArr') /\ pc' # "relay"
  <2>1. CASE m = MaxConn
    BY <1>2, <1>3, <1>4, <1>9, <1>t, <2>1
  <2>2. CASE m # MaxConn
    <3>1. m + 1 <= MaxConn /\ ~(m >= MaxConn)
      BY <1>3, <1>t, <2>2
    <3> QED
      BY <1>2, <1>3, <1>4, <1>9, <3>1
  <2> QED
    BY <2>1, <2>2
<1>13. \A k, l \in 1..Len(netFdArr') : netFdArr'[k] = netFdArr'[l] => k = l
  BY <1>4, <1>8
<1> QED
  BY <1>7, <1>10, <1>11, <1>12, <1>13 DEF RoomArray

(* Somebody who can be heard speaks, or has left. *)
LEMMA RoomArrayRecvs ==
  ASSUME RoomArray, NEW c \in Clients, RoomRecv(c), UNCHANGED prog
  PROVE  RoomArray'
<1>t. /\ RoomTypeOK /\ ClientsTypeOK /\ MaxConn \in Nat /\ BufSize \in Nat \ {0}
      /\ \A d \in Clients \cap ready : d \in Open /\ Readable(d)
      /\ Listen \in ready => Backlog # {}
  BY ChatRoomAssumption, EpollClientsAssumption DEF RoomArray, RoomTypeOK
<1> DEFINE n == Min({BufSize, said[c] - heard[c]})
<1>1. /\ pc = "dispatch" /\ pc' = "relay" /\ c \in ready /\ ready' = ready \ {c}
      /\ heard' = [heard EXCEPT ![c] = heard[c] + n]
      /\ buf' \in Strings([k \in 1..n |-> <<c, heard[c] + k>>])
      /\ speaker' = c /\ j' = 1 /\ UNCHANGED <<conn, said, left, out, netFdArr>>
  BY DEF RoomRecv, clientVars
<1>2. heard[c] \in Nat /\ said[c] \in Nat /\ said[c] - heard[c] \in Nat
  <2>1. heard[c] \in Nat /\ said[c] \in Nat /\ heard[c] <= said[c]
    BY <1>t DEF ClientsTypeOK
  <2> QED
    BY <2>1
<1>3. /\ n \in Nat /\ n <= said[c] - heard[c] /\ n <= BufSize
      /\ heard[c] < said[c] => n > 0
  BY <1>2, <1>t, MinOfTwo
<1> HIDE DEF n
<1>4. buf' \in Seq(Unit)
  <2>1. PICK h \in Nat : h = heard[c]
    BY <1>2
  <2>2. c \in Clients \cup {NoClient} /\ buf' \in Strings(Text(c, h, n))
    BY <1>1, <2>1 DEF Text
  <2> QED
    BY <1>3, <2>2, StringOf
<1>5. /\ heard' \in [Clients -> Nat] /\ heard'[c] = heard[c] + n
      /\ \A d \in Clients : d # c => heard'[d] = heard[d]
  BY <1>1, <1>2, <1>3, <1>t, SMTT(30) DEF ClientsTypeOK
<1>6. \A d \in Clients : heard'[d] <= said[d]
  <2>1. heard'[c] <= said[c]
    BY <1>2, <1>3, <1>5
  <2> QED
    BY <1>5, <1>t, <2>1 DEF ClientsTypeOK
<1>7. RoomTypeOK'
  BY <1>1, <1>4, <1>5, <1>6, <1>t, SMTT(30) DEF RoomTypeOK, ClientsTypeOK, Unit
<1>8. /\ c \in Open /\ Open' = Open /\ Backlog' = Backlog
      /\ heard'[c] > 0 \/ left[c] # "no"
  BY <1>1, <1>2, <1>3, <1>5, <1>t DEF Open, Backlog, Readable
<1>9. \A d \in Clients \cap ready' : d \in Open' /\ Readable(d)'
  BY <1>1, <1>5, <1>8, <1>t DEF Readable
<1>10. 1 \in 1..Len(netFdArr) + 1
  BY <1>t, LenProperties DEF RoomTypeOK
<1> QED
  BY <1>1, <1>7, <1>8, <1>9, <1>10 DEF RoomArray, InArray

(* Until the room has written behind its array, every connection is in a   *)
(* slot of it, once, and who is reported or relayed is open                *)
(* (server_room.c lines 45-62).                                            *)
THEOREM RoomInductive == Spec => [](prog.server = "room" => RoomArray)
<1>1. Init => (prog.server = "room" => RoomArray)
  BY InitRoomArray
<1>2. (prog.server = "room" => RoomArray) /\ [Next]_vars => (prog.server = "room" => RoomArray)'
  <2> SUFFICES ASSUME prog.server = "room" => RoomArray, [Next]_vars, prog'.server = "room" PROVE RoomArray'
    OBVIOUS
  <2>1. CASE Room
    <3>1. UNCHANGED prog /\ RoomArray
      BY <2>1 DEF Room, RoomStep
    <3> QED
      BY <2>1, <3>1, RoomArrayLoops, RoomArrayAccepts, RoomArrayRecvs DEF Room, RoomStep
  <2>2. CASE Environment
    <3>1. CASE ClientStep /\ UNCHANGED <<netFdArr, relayVars, connectVars, userVars>>
      BY <3>1, RoomArrayClients DEF ClientStep
    <3>2. CASE UserStep
      BY <3>2 DEF UserStep
    <3> QED
      BY <2>2, <3>1, <3>2 DEF Environment
  <2>3. CASE Reconnect
    BY <2>3 DEF Reconnect, ReconnectStep
  <2>4. CASE UNCHANGED vars
    <3>1. UNCHANGED <<prog, pc, ready, conn, said, left, heard, out, netFdArr, speaker, buf, j>>
      BY <2>4 DEF vars, roomVars, relayVars, clientVars
    <3>2. RoomArray /\ Open' = Open /\ Backlog' = Backlog /\ \A c \in Clients : Readable(c)' = Readable(c)
      BY <3>1 DEF Open, Backlog, Readable
    <3>3. RoomTypeOK'
      BY <3>1, <3>2 DEF RoomArray, RoomTypeOK, ClientsTypeOK
    <3> QED
      BY <3>1, <3>2, <3>3 DEF RoomArray, InArray
  <2> QED
    BY <2>1, <2>2, <2>3, <2>4 DEF Next
<1> QED
  BY <1>1, <1>2, PTL DEF Spec

-----------------------------------------------------------------------------
(* The room: what it relays.                                               *)

(* Those who have still to be sent what was just heard. *)
Pending(c) == pc = "relay" /\ \E k \in j..Len(netFdArr) : netFdArr[k] = c

(* How much of the message was received: strlen may count one more. *)
Fresh == IF Len(buf) > BufSize THEN BufSize ELSE Len(buf)

UpTo(c, d) == IF Pending(c) /\ d = speaker THEN heard[d] - Fresh ELSE heard[d]

Buffered ==
  pc = "relay" =>
    /\ Fresh <= heard[speaker]
    /\ \A k \in 1..Fresh : buf[k] = <<speaker, (heard[speaker] - Fresh) + k>>
    /\ \A k \in Fresh + 1..Len(buf) : buf[k] = Garbage

RoomRelay ==
  /\ Buffered
  /\ \A c \in Clients :
       /\ c \notin Open => out[c] = <<>>
       /\ \A k \in 1..Len(out[c]) : /\ out[c][k][1] # c
                                    /\ out[c][k][1] = NoClient => out[c][k] = Garbage
       /\ \A d \in Clients : Contiguous(out[c], d)
       /\ left[c] # "rst" /\ pc \in {"wait", "dispatch", "relay"} =>
            \A d \in Clients : EndsAt(out[c], d, UpTo(c, d))

(* Steps in which nothing is heard or sent. *)
LEMMA RoomQuiet ==
  ASSUME RoomRelay, UNCHANGED <<heard, out>>, Open \subseteq Open',
         \A c \in Clients : left'[c] # "rst" => left[c] # "rst",
         pc' \in {"wait", "dispatch", "relay"} => pc \in {"wait", "dispatch", "relay"},
         \/ pc # "relay" /\ pc' # "relay"
         \/ UNCHANGED <<pc, j, buf, speaker, netFdArr>>
  PROVE  RoomRelay'
<1>1. Buffered'
  BY DEF RoomRelay, Buffered, Fresh
<1>2. \A c, d \in Clients : UpTo(c, d)' = UpTo(c, d)
  BY DEF UpTo, Pending, Fresh
<1>3. ASSUME NEW c \in Clients, left'[c] # "rst", pc' \in {"wait", "dispatch", "relay"},
             NEW d \in Clients
      PROVE  EndsAt(out[c], d, UpTo(c, d)')
  BY <1>2, <1>3 DEF RoomRelay
<1>4. ASSUME NEW c \in Clients
      PROVE  /\ c \notin Open' => out'[c] = <<>>
             /\ \A k \in 1..Len(out'[c]) : /\ out'[c][k][1] # c
                                           /\ out'[c][k][1] = NoClient => out'[c][k] = Garbage
             /\ \A d \in Clients : Contiguous(out'[c], d)
  BY DEF RoomRelay
<1> QED
  BY <1>1, <1>3, <1>4 DEF RoomRelay

(* What is received is the next the speaker said. *)
LEMMA RoomReceives ==
  ASSUME RoomArray, RoomRelay, NEW c \in Clients, RoomRecv(c)
  PROVE  RoomRelay'
<1>t. /\ RoomTypeOK /\ ClientsTypeOK /\ BufSize \in Nat \ {0}
      /\ \A d \in Clients : d \in Open <=> InArray(d)
  BY EpollClientsAssumption DEF RoomArray, RoomTypeOK
<1> DEFINE n == Min({BufSize, said[c] - heard[c]})
<1>1. /\ pc = "dispatch" /\ pc' = "relay"
      /\ heard' = [heard EXCEPT ![c] = heard[c] + n]
      /\ buf' \in Strings([k \in 1..n |-> <<c, heard[c] + k>>])
      /\ speaker' = c /\ j' = 1 /\ UNCHANGED <<conn, said, left, out, netFdArr>>
  BY DEF RoomRecv, clientVars
<1>2. PICK h \in Nat : h = heard[c]
  BY <1>t DEF ClientsTypeOK
<1>3. n \in Nat /\ n <= BufSize
  <2>1. said[c] - heard[c] \in Nat
    <3>1. heard[c] \in Nat /\ said[c] \in Nat /\ heard[c] <= said[c]
      BY <1>t DEF ClientsTypeOK
    <3> QED
      BY <3>1
  <2> QED
    BY <1>t, <2>1, MinOfTwo
<1> HIDE DEF n
<1>4. /\ n = Fresh'
      /\ \A k \in 1..n : buf'[k] = <<c, h + k>>
      /\ \A k \in n + 1..Len(buf') : buf'[k] = Garbage
  <2>1. c \in Clients \cup {NoClient} /\ buf' \in Strings(Text(c, h, n))
    BY <1>1, <1>2 DEF Text
  <2>2. /\ n = (IF Len(buf') > BufSize THEN BufSize ELSE Len(buf'))
        /\ \A k \in 1..n : buf'[k] = <<c, h + k>>
        /\ \A k \in n + 1..Len(buf') : buf'[k] = Garbage
    BY <1>3, <2>1, StringOf
  <2> QED
    BY <2>2 DEF Fresh
<1>5. heard'[c] = h + n /\ \A d \in Clients : d # c => heard'[d] = heard[d]
  BY <1>1, <1>2, <1>3, <1>t DEF ClientsTypeOK
<1>6. Buffered'
  <2>1. n <= heard'[c] /\ heard'[c] - n = h
    BY <1>2, <1>3, <1>5
  <2> QED
    BY <1>1, <1>4, <2>1 DEF Buffered
<1>7. ASSUME NEW d \in Clients, d \in Open, NEW e \in Clients
      PROVE  UpTo(d, e)' = UpTo(d, e)
  <2>1. Pending(d)' /\ ~Pending(d)
    BY <1>1, <1>7, <1>t DEF Pending, InArray
  <2>2. (h + n) - n = h
    BY <1>3
  <2> QED
    BY <1>1, <1>2, <1>4, <1>5, <2>1, <2>2 DEF UpTo
<1>8. ASSUME NEW d \in Clients, left'[d] # "rst", NEW e \in Clients
      PROVE  EndsAt(out'[d], e, UpTo(d, e)')
  <2>1. CASE d \in Open
    <3>1. EndsAt(out[d], e, UpTo(d, e))
      BY <1>1, <1>8 DEF RoomRelay
    <3> QED
      BY <1>1, <1>7, <2>1, <3>1
  <2>2. CASE d \notin Open
    <3>1. out'[d] = <<>>
      BY <1>1, <2>2 DEF RoomRelay
    <3> QED
      BY <3>1 DEF EndsAt
  <2> QED
    BY <2>1, <2>2
<1>9. ASSUME NEW d \in Clients
      PROVE  /\ d \notin Open' => out'[d] = <<>>
             /\ \A k \in 1..Len(out'[d]) : /\ out'[d][k][1] # d
                                           /\ out'[d][k][1] = NoClient => out'[d][k] = Garbage
             /\ \A e \in Clients : Contiguous(out'[d], e)
  BY <1>1 DEF RoomRelay, Open
<1> QED
  BY <1>6, <1>8, <1>9 DEF RoomRelay

(* The loop of sends goes on to the next slot. *)
LEMMA NextSlot ==
  ASSUME RoomArray, Relaying, j' = j + 1, UNCHANGED <<pc, netFdArr, speaker, buf, heard>>
  PROVE  /\ netFdArr[j] \in Clients /\ netFdArr[j] \in Open /\ Pending(netFdArr[j])
         /\ \A c \in Clients : Pending(c)' <=> Pending(c) /\ c # netFdArr[j]
         /\ \A c, d \in Clients :
              UpTo(c, d)' = IF Pending(c)' /\ d = speaker THEN heard[d] - Fresh ELSE heard[d]
<1>1. PICK m \in Nat : m = Len(netFdArr)
  BY LenProperties DEF RoomArray, RoomTypeOK
<1>2. pc = "relay" /\ j \in 1..m
  BY <1>1 DEF Relaying, RoomArray
<1>3. netFdArr[j] \in Clients /\ netFdArr[j] \in Open /\ Pending(netFdArr[j])
  <2>1. netFdArr[j] \in Clients
    BY <1>1, <1>2 DEF RoomArray, RoomTypeOK
  <2>2. j \in j..m
    BY <1>2
  <2> QED
    BY <1>1, <1>2, <2>1, <2>2 DEF RoomArray, InArray, Pending
<1>4. ASSUME NEW c \in Clients PROVE Pending(c)' <=> Pending(c) /\ c # netFdArr[j]
  <2>1. Pending(c)' <=> \E k \in j + 1..m : netFdArr[k] = c
    BY <1>1, <1>2 DEF Pending
  <2>2. Pending(c) <=> \E k \in j..m : netFdArr[k] = c
    BY <1>1, <1>2 DEF Pending
  <2>3. /\ \A k \in j + 1..m : k \in 1..m /\ k \in j..m /\ k # j
        /\ \A k \in j..m : k = j \/ k \in j + 1..m
    BY <1>2
  <2>4. \A k \in j + 1..m : netFdArr[k] # netFdArr[j]
    BY <1>1, <1>2, <2>3 DEF RoomArray
  <2> QED
    BY <2>1, <2>2, <2>3, <2>4
<1>5. \A c, d \in Clients :
        UpTo(c, d)' = IF Pending(c)' /\ d = speaker THEN heard[d] - Fresh ELSE heard[d]
  BY DEF UpTo, Fresh
<1> QED
  BY <1>3, <1>4, <1>5

(* A slot is passed over: that of the speaker, or one that was reset. *)
LEMMA RoomPasses ==
  ASSUME RoomArray, RoomRelay, RoomSkip \/ RoomSendFails
  PROVE  RoomRelay'
<1>1. Relaying /\ pc = "relay" /\ UNCHANGED <<netFdArr, heard, conn, left, out, speaker, buf>>
  BY DEF RoomSkip, RoomSendFails, SendRefused, Relaying, clientVars
<1>2. CASE pc' = "killed"
  BY <1>1, <1>2 DEF RoomRelay, Buffered, Open
<1>3. CASE j' = j + 1 /\ UNCHANGED pc
  <2> DEFINE v == netFdArr[j]
  <2>1. /\ \A c \in Clients : Pending(c)' <=> Pending(c) /\ c # v
        /\ \A c, d \in Clients :
              UpTo(c, d)' = IF Pending(c)' /\ d = speaker THEN heard[d] - Fresh ELSE heard[d]
    BY <1>1, <1>3, NextSlot
  <2>2. v = speaker \/ left[v] = "rst"
    BY DEF RoomSkip, RoomSendFails, SendRefused, IsSpeaker
  <2> HIDE DEF v
  <2>3. ASSUME NEW c \in Clients, left'[c] # "rst", NEW d \in Clients
        PROVE  EndsAt(out'[c], d, UpTo(c, d)')
    <3>1. EndsAt(out[c], d, UpTo(c, d))
      BY <1>1, <2>3 DEF RoomRelay
    <3>2. CASE c = v /\ d = c
      BY <1>1, <3>2 DEF RoomRelay, EndsAt
    <3>3. CASE ~(c = v /\ d = c)
      <4>1. UpTo(c, d)' = UpTo(c, d)
        BY <1>1, <2>1, <2>2, <2>3, <3>3 DEF UpTo
      <4> QED
        BY <1>1, <3>1, <4>1
    <3> QED
      BY <3>2, <3>3
  <2>4. Buffered'
    BY <1>1, <1>3 DEF RoomRelay, Buffered, Fresh
  <2>5. ASSUME NEW c \in Clients
        PROVE  /\ c \notin Open' => out'[c] = <<>>
               /\ \A k \in 1..Len(out'[c]) : /\ out'[c][k][1] # c
                                             /\ out'[c][k][1] = NoClient => out'[c][k] = Garbage
               /\ \A d \in Clients : Contiguous(out'[c], d)
    BY <1>1 DEF RoomRelay, Open
  <2> QED
    BY <2>3, <2>4, <2>5 DEF RoomRelay
<1> QED
  BY <1>2, <1>3 DEF RoomSkip, RoomSendFails

(* A client is sent what has just been heard, behind what it was sent. *)
LEMMA RoomSends == ASSUME RoomArray, RoomRelay, RoomSend PROVE RoomRelay'
<1>t. RoomTypeOK /\ ClientsTypeOK /\ BufSize \in Nat
  BY EpollClientsAssumption DEF RoomArray, RoomTypeOK
<1> DEFINE v == netFdArr[j]
<1>1. /\ Relaying /\ pc = "relay" /\ v # speaker /\ SendTakes(v, buf) /\ j' = j + 1
      /\ UNCHANGED <<pc, conn, heard, netFdArr, speaker, buf>>
  BY DEF RoomSend, Relaying, IsSpeaker
<1>2. /\ v \in Clients /\ v \in Open /\ Pending(v)
      /\ \A c \in Clients : Pending(c)' <=> Pending(c) /\ c # v
      /\ \A c, d \in Clients :
            UpTo(c, d)' = IF Pending(c)' /\ d = speaker THEN heard[d] - Fresh ELSE heard[d]
  BY <1>1, NextSlot
<1> HIDE DEF v
<1>3. /\ left[v] # "rst" /\ out[v] \in Seq(Unit) /\ buf \in Seq(Unit)
      /\ out'[v] = out[v] \o buf /\ \A c \in Clients : c # v => out'[c] = out[c]
      /\ \A c \in Clients : left'[c] # "rst" => left[c] # "rst"
  <2>1. buf \in Seq(Unit)
    BY <1>t DEF RoomTypeOK
  <2> QED
    BY <1>1, <1>2, <1>t, <2>1, SendTyped
<1>4. PICK l \in Nat : l = Len(buf)
  BY <1>3, LenProperties
<1>5. PICK n \in Nat : n = Fresh /\ n <= l
  BY <1>4, <1>t DEF Fresh
<1>6. speaker \in Clients /\ heard[speaker] \in Nat
  BY <1>1, <1>t DEF RoomArray, Open, ClientsTypeOK
<1>7. PICK a \in Nat : a = heard[speaker] - n /\ a + n = heard[speaker]
  <2>1. n <= heard[speaker]
    BY <1>1, <1>5 DEF RoomRelay, Buffered
  <2> QED
    BY <1>6, <2>1
<1>8. /\ \A k \in 1..n : buf[k] = <<speaker, a + k>>
      /\ \A k \in n + 1..l : buf[k] = Garbage
  BY <1>1, <1>4, <1>5, <1>7 DEF RoomRelay, Buffered
<1>9. NoClient \notin Clients /\ Garbage[1] = NoClient
  BY EpollClientsAssumption DEF Garbage
<1>10. \A k \in 1..l : buf[k][1] = speaker \/ buf[k] = Garbage
  <2>1. \A k \in 1..l : k \in 1..n \/ k \in n + 1..l
    OBVIOUS
  <2> QED
    BY <1>8, <2>1
<1>11. /\ \A d \in Clients : Contiguous(out[v], d) /\ EndsAt(out[v], d, UpTo(v, d))
       /\ \A k \in 1..Len(out[v]) : /\ out[v][k][1] # v
                                    /\ out[v][k][1] = NoClient => out[v][k] = Garbage
  BY <1>1, <1>2, <1>3 DEF RoomRelay
<1>12. /\ EndsAt(out[v], speaker, a)
       /\ \A d \in Clients : d # speaker => EndsAt(out[v], d, heard[d])
  <2>1. UpTo(v, speaker) = a /\ \A d \in Clients : d # speaker => UpTo(v, d) = heard[d]
    BY <1>2, <1>5, <1>6, <1>7 DEF UpTo
  <2> QED
    BY <1>6, <1>11, <2>1
<1>13. Contiguous(out'[v], speaker) /\ EndsAt(out'[v], speaker, heard[speaker])
  <2>1. n <= Len(buf) /\ \A k \in n + 1..Len(buf) : buf[k][1] # speaker
    BY <1>4, <1>5, <1>6, <1>8, <1>9
  <2>2. Contiguous(out[v], speaker)
    BY <1>6, <1>11
  <2>3. Contiguous(out[v] \o buf, speaker) /\ EndsAt(out[v] \o buf, speaker, a + n)
    BY <1>3, <1>8, <1>12, <2>1, <2>2, RunAppended
  <2> QED
    BY <1>3, <1>7, <2>3
<1>14. ASSUME NEW d \in Clients, d # speaker
       PROVE  Contiguous(out'[v], d) /\ EndsAt(out'[v], d, heard[d])
  <2>1. \A k \in 1..Len(buf) : buf[k][1] # d
    BY <1>4, <1>9, <1>10, <1>14
  <2>2. Contiguous(out[v], d) /\ EndsAt(out[v], d, heard[d])
    BY <1>11, <1>12, <1>14
  <2> QED
    BY <1>3, <2>1, <2>2, OthersAppended
<1>15. \A k \in 1..Len(out'[v]) : /\ out'[v][k][1] # v
                                  /\ out'[v][k][1] = NoClient => out'[v][k] = Garbage
  <2>1. PICK m \in Nat : m = Len(out[v])
    BY <1>3, LenProperties
  <2>2. /\ Len(out'[v]) = m + l
        /\ \A k \in 1..m : out'[v][k] = out[v][k]
        /\ \A k \in m + 1..m + l : out'[v][k] = buf[k - m] /\ k - m \in 1..l
    BY <1>3, <1>4, <2>1, Joined
  <2>3. \A k \in 1..m + l : k \in 1..m \/ k \in m + 1..m + l
    OBVIOUS
  <2>4. \A k \in m + 1..m + l : out'[v][k][1] = speaker \/ out'[v][k] = Garbage
    BY ZenonT(60), <1>10, <2>2
  <2>5. \A k \in 1..m : /\ out'[v][k][1] # v
                        /\ out'[v][k][1] = NoClient => out'[v][k] = Garbage
    BY <1>11, <2>1, <2>2
  <2> QED
    BY <1>1, <1>2, <1>6, <1>9, <2>2, <2>3, <2>4, <2>5
<1>16. ASSUME NEW c \in Clients
       PROVE  /\ c \notin Open' => out'[c] = <<>>
              /\ \A k \in 1..Len(out'[c]) : /\ out'[c][k][1] # c
                                            /\ out'[c][k][1] = NoClient => out'[c][k] = Garbage
              /\ \A d \in Clients : Contiguous(out'[c], d)
  <2>1. CASE c = v
    BY <1>1, <1>2, <1>13, <1>14, <1>15, <2>1 DEF Open
  <2>2. CASE c # v
    BY <1>1, <1>3, <2>2 DEF RoomRelay, Open
  <2> QED
    BY <2>1, <2>2
<1>17. ASSUME NEW c \in Clients, left'[c] # "rst", NEW d \in Clients
       PROVE  EndsAt(out'[c], d, UpTo(c, d)')
  <2>1. CASE c = v
    <3>1. UpTo(c, d)' = heard[d]
      BY <1>2, <2>1
    <3> QED
      BY <1>13, <1>14, <2>1, <3>1
  <2>2. CASE c # v
    <3>1. UpTo(c, d)' = UpTo(c, d)
      BY <1>2, <2>2 DEF UpTo
    <3>2. EndsAt(out[c], d, UpTo(c, d))
      BY <1>1, <1>3, <1>17 DEF RoomRelay
    <3> QED
      BY <1>3, <2>2, <3>1, <3>2
  <2> QED
    BY <2>1, <2>2
<1>18. Buffered'
  BY <1>1 DEF RoomRelay, Buffered, Fresh
<1> QED
  BY <1>16, <1>17, <1>18 DEF RoomRelay

(* What a client is sent of another one is what that one said, without a   *)
(* gap from when the first was accepted, and nothing of itself, for any    *)
(* number of clients and however messages are cut, joined and read too far *)
(* (server_room.c lines 45-62).                                            *)
THEOREM RoomIsIntact == Spec => []RoomIntact
<1>1. Init => (prog.server = "room" => RoomRelay)
  <2> SUFFICES ASSUME Init PROVE RoomRelay
    OBVIOUS
  <2>1. pc = "wait" /\ \A c \in Clients : out[c] = <<>>
    BY DEF Init, ClientsInit
  <2>2. \A c, d \in Clients : Contiguous(out[c], d) /\ EndsAt(out[c], d, UpTo(c, d))
    BY <2>1 DEF Contiguous, EndsAt
  <2> QED
    BY <2>1, <2>2 DEF RoomRelay, Buffered
<1>2. (prog.server = "room" => RoomArray /\ RoomRelay) /\ [Next]_vars => (prog.server = "room" => RoomRelay)'
  <2> SUFFICES ASSUME prog.server = "room" => RoomArray /\ RoomRelay, [Next]_vars, prog'.server = "room"
               PROVE  RoomRelay'
    OBVIOUS
  <2>1. CASE Room
    <3>1. RoomArray /\ RoomRelay
      BY <2>1 DEF Room, RoomStep
    <3>2. CASE RoomWait \/ RoomBatchDone \/ RoomAcceptFails
      <4>1. /\ UNCHANGED <<heard, out, conn, left>> /\ pc \in {"wait", "dispatch"}
            /\ pc' \in {"wait", "dispatch", "exited"}
        BY <3>2 DEF RoomWait, RoomBatchDone, RoomAcceptFails, clientVars
      <4> QED
        BY <3>1, <4>1, RoomQuiet DEF Open
    <3>3. CASE RoomAccept
      <4>1. UNCHANGED <<heard, out, left>> /\ pc = "dispatch" /\ pc' \in {"dispatch", "overrun"}
        BY <3>3 DEF RoomAccept
      <4>2. Open \subseteq Open'
        BY <3>1, <3>3 DEF RoomAccept, RoomArray, RoomTypeOK, ClientsTypeOK, Open
      <4> QED
        BY <3>1, <4>1, <4>2, RoomQuiet
    <3>4. CASE RoomRelayed
      <4>1. /\ pc = "relay" /\ pc' = "dispatch" /\ j > Len(netFdArr)
            /\ UNCHANGED <<heard, out, conn, left>>
        BY <3>4 DEF RoomRelayed, clientVars
      <4>2. j \in Nat /\ Len(netFdArr) \in Nat
        BY <3>1, LenProperties DEF RoomArray, RoomTypeOK
      <4>3. \A k \in j..Len(netFdArr) : FALSE
        BY <4>1, <4>2
      <4>4. \A c, d \in Clients : UpTo(c, d)' = UpTo(c, d)
        BY <4>1, <4>3 DEF UpTo, Pending
      <4> QED
        BY <3>1, <4>1, <4>4 DEF RoomRelay, Buffered, Open
    <3>5. CASE RoomSkip \/ RoomSendFails \/ RoomSend
      BY <3>1, <3>5, RoomPasses, RoomSends
    <3>6. CASE \E c \in Clients : RoomRecv(c)
      BY <3>1, <3>6, RoomReceives
    <3> QED
      BY <2>1, <3>2, <3>3, <3>4, <3>5, <3>6 DEF Room, RoomStep
  <2>2. CASE Environment
    <3>1. CASE ClientStep /\ UNCHANGED <<netFdArr, relayVars, connectVars, userVars>>
      <4>1. prog.server = "room" /\ ClientsTypeOK
        BY <3>1 DEF ClientStep, RoomArray, RoomTypeOK
      <4>2. /\ Open' = Open /\ UNCHANGED <<pc, heard, out>>
            /\ \A c \in Clients : left[c] = "rst" => left'[c] = "rst"
        BY <3>1, <4>1, ClientsMove
      <4> QED
        BY <3>1, <4>1, <4>2, RoomQuiet DEF relayVars
    <3>2. CASE UserStep
      BY <3>2 DEF UserStep
    <3> QED
      BY <2>2, <3>1, <3>2 DEF Environment
  <2>3. CASE Reconnect
    BY <2>3 DEF Reconnect, ReconnectStep
  <2>4. CASE UNCHANGED vars
    <3>1. UNCHANGED <<prog, pc, conn, left, heard, out, netFdArr, speaker, buf, j>>
      BY <2>4 DEF vars, roomVars, relayVars, clientVars
    <3> QED
      BY <3>1, RoomQuiet DEF Open
  <2> QED
    BY <2>1, <2>2, <2>3, <2>4 DEF Next
<1>3. (prog.server = "room" => RoomArray /\ RoomRelay) => RoomIntact
  <2> SUFFICES ASSUME RoomArray, RoomRelay PROVE
         /\ RoomTypeOK
         /\ ToSet(netFdArr) = Open /\ Cardinality(Open) = Len(netFdArr)
         /\ \A c \in Clients :
              /\ \A k \in DOMAIN out[c] : out[c][k][1] # c
              /\ \A k, l \in DOMAIN out[c] :
                   NextOf(out[c], k, l) /\ out[c][k] # Garbage => out[c][l][2] = out[c][k][2] + 1
              /\ left[c] # "rst" /\ pc \in {"wait", "dispatch"} =>
                   \A k \in DOMAIN out[c] : LastOf(out[c], k) /\ out[c][k] # Garbage =>
                                             out[c][k][2] = heard[out[c][k][1]]
    BY DEF RoomIntact
  <2>1. /\ RoomTypeOK /\ Cardinality(Open) = Len(netFdArr)
        /\ netFdArr \in Seq(Clients)
    BY DEF RoomArray, RoomTypeOK
  <2>2. ToSet(netFdArr) = Open
    <3>1. DOMAIN netFdArr = 1..Len(netFdArr) /\ \A k \in 1..Len(netFdArr) : netFdArr[k] \in Clients
      BY <2>1, LenProperties, ElementOfSeq
    <3>2. \A c \in Clients : c \in Open <=> \E k \in 1..Len(netFdArr) : netFdArr[k] = c
      BY DEF RoomArray, InArray
    <3>3. ToSet(netFdArr) \subseteq Open
      BY <3>1, <3>2 DEF ToSet
    <3>4. Open \subseteq ToSet(netFdArr)
      BY <3>1, <3>2 DEF ToSet, Open
    <3> QED
      BY <3>3, <3>4
  <2>3. ASSUME NEW c \in Clients
        PROVE  /\ \A k \in DOMAIN out[c] : out[c][k][1] # c
               /\ \A k, l \in DOMAIN out[c] :
                    NextOf(out[c], k, l) /\ out[c][k] # Garbage => out[c][l][2] = out[c][k][2] + 1
               /\ left[c] # "rst" /\ pc \in {"wait", "dispatch"} =>
                    \A k \in DOMAIN out[c] : LastOf(out[c], k) /\ out[c][k] # Garbage =>
                                              out[c][k][2] = heard[out[c][k][1]]
    <3>1. out[c] \in Seq(Unit) /\ DOMAIN out[c] = 1..Len(out[c])
      BY LenProperties DEF RoomArray, RoomTypeOK, ClientsTypeOK
    <3>2. \A k \in 1..Len(out[c]) : out[c][k] # Garbage => out[c][k][1] \in Clients
      <4>1. \A k \in 1..Len(out[c]) : out[c][k] \in Unit
        BY <3>1, ElementOfSeq
      <4>2. \A k \in 1..Len(out[c]) : out[c][k][1] \in Clients \cup {NoClient}
        BY <4>1 DEF Unit
      <4> QED
        BY <4>2 DEF RoomRelay
    <3>3. pc # "relay" => \A d \in Clients : UpTo(c, d) = heard[d]
      BY DEF UpTo, Pending
    <3> QED
      BY <3>1, <3>2, <3>3 DEF RoomRelay, Contiguous, EndsAt
  <2> QED
    BY <2>1, <2>2, <2>3
<1> QED
  BY <1>1, <1>2, <1>3, RoomInductive, PTL DEF Spec

(* The room ends by one connection more than the array has slots, by one   *)
(* whose accept fails, or by somebody who speaks or leaves after the reset *)
(* of another, for any length of the array (server_room.c lines 45, 46 and *)
(* 61).                                                                    *)
THEOREM RoomStopIsExplained == Spec => []RoomStopExplained
<1>1. Init => RoomStopExplained
  BY DEF Init, ClientsInit, RoomStopExplained
<1>2. (prog.server = "room" => RoomArray) /\ RoomStopExplained /\ [Next]_vars => RoomStopExplained'
  <2> SUFFICES ASSUME prog.server = "room" => RoomArray, RoomStopExplained, [Next]_vars, prog'.server = "room"
               PROVE  /\ pc' = "overrun" => Cardinality(Open') = MaxConn + 1
                      /\ pc' = "exited" => Backlog' # {}
                      /\ pc' = "killed" => \E c, d \in Open' : /\ c # d /\ left'[c] = "rst"
                                                               /\ heard'[d] > 0 \/ left'[d] # "no"
    BY DEF RoomStopExplained
  <2>1. CASE Room
    <3>1. RoomArray /\ pc \in {"wait", "dispatch", "relay"}
      BY <2>1 DEF Room, RoomStep, RoomWait, RoomBatchDone, RoomAccept, RoomAcceptFails, RoomSkip,
                  RoomSend, RoomSendFails, RoomRelayed, RoomRecv, Relaying
    <3>2. CASE RoomAccept
      <4>1. RoomArray' /\ pc' \in {"dispatch", "overrun"}
        BY <2>1, <3>1, <3>2, RoomArrayAccepts DEF Room, RoomStep, RoomAccept
      <4> QED
        BY <4>1 DEF RoomArray
    <3>5. CASE RoomAcceptFails
      <4>1. Backlog # {} /\ Backlog' = Backlog /\ pc' = "exited"
        BY <3>1, <3>5 DEF RoomAcceptFails, RoomArray, Backlog, clientVars
      <4> QED
        BY <4>1
    <3>3. CASE RoomSendFails /\ pc' = "killed"
      <4> DEFINE c == netFdArr[j]
      <4>1. /\ pc = "relay" /\ j <= Len(netFdArr) /\ c # speaker /\ left[c] = "rst"
            /\ UNCHANGED <<conn, left, heard>>
        BY <3>3 DEF RoomSendFails, Relaying, IsSpeaker, SendRefused
      <4>2. c \in Clients /\ InArray(c)
        <5>1. j \in 1..Len(netFdArr)
          BY <3>1, <4>1, LenProperties DEF RoomArray, RoomTypeOK
        <5> QED
          BY <3>1, <5>1 DEF RoomArray, RoomTypeOK, InArray
      <4>3. c \in Open /\ speaker \in Open /\ (heard[speaker] > 0 \/ left[speaker] # "no")
        BY <3>1, <4>1, <4>2 DEF RoomArray
      <4> HIDE DEF c
      <4> QED
        BY <3>3, <4>1, <4>3 DEF Open
    <3>4. CASE ~RoomAccept /\ ~RoomAcceptFails /\ ~(RoomSendFails /\ pc' = "killed")
      <4>1. pc' \in {"wait", "dispatch", "relay"}
        BY <2>1, <3>1, <3>4 DEF Room, RoomStep, RoomWait, RoomBatchDone, RoomSkip, RoomSend,
                    RoomSendFails, RoomRelayed, RoomRecv
      <4> QED
        BY <4>1
    <3> QED
      BY <3>2, <3>3, <3>4, <3>5
  <2>2. CASE Environment
    BY <2>2 DEF Environment, ClientStep, UserStep, Running
  <2>3. CASE Reconnect
    BY <2>3 DEF Reconnect, ReconnectStep
  <2>4. CASE UNCHANGED vars
    <3>1. UNCHANGED <<prog, pc, conn, left, heard>>
      BY <2>4 DEF vars, roomVars, clientVars
    <3> QED
      BY <3>1 DEF RoomStopExplained, Open, Backlog
  <2> QED
    BY <2>1, <2>2, <2>3, <2>4 DEF Next
<1> QED
  BY <1>1, <1>2, RoomInductive, PTL DEF Spec

-----------------------------------------------------------------------------
(* The reconnecting server: its connection.                                *)

Connection ==
  /\ ReconnectTypeOK
  /\ Running => (isConnected <=> netFd \in Open)
  /\ netFd \in ready => isConnected
  /\ pc \in {"wait", "farewell"} => ready = {}
  /\ pc = "farewell" => isConnected

LEMMA InitConnection == Init => Connection
<1> SUFFICES ASSUME Init PROVE Connection
  OBVIOUS
<1>1. ReconnectTypeOK
  <2>1. \A c \in Clients : MaxSaid[c] \in Nat /\ 0 <= MaxSaid[c]
    BY EpollClientsAssumption
  <2>2. <<>> \in Seq(Unit) /\ 0 \in 0..Limit /\ 0 \in 0..MaxTyped
    BY ReconnectAssumption
  <2>3. ClientsTypeOK
    BY <2>1, <2>2 DEF Init, ClientsInit, ClientsTypeOK
  <2>4. {isConnected, flag, eof} \subseteq BOOLEAN
    BY DEF Init, ReconnectInit
  <2> QED
    BY <2>2, <2>3, <2>4 DEF Init, ClientsInit, ReconnectInit, ReconnectTypeOK
<1>2. netFd \notin Open /\ ready = {} /\ pc = "wait" /\ isConnected = FALSE
  BY EpollClientsAssumption DEF Init, ClientsInit, ReconnectInit, Open
<1> QED
  BY <1>1, <1>2 DEF Connection

(* The clients and the user. *)
LEMMA ConnectionEnvironment ==
  ASSUME Connection,
         \/ ClientStep /\ UNCHANGED <<connectVars, userVars>>
         \/ UserStep
  PROVE  Connection'
<1>t. ReconnectTypeOK /\ ClientsTypeOK
  BY DEF Connection, ReconnectTypeOK
<1>1. CASE ClientStep /\ UNCHANGED <<connectVars, userVars>>
  <2>1. /\ ClientsTypeOK' /\ Open' = Open /\ UNCHANGED <<pc, ready>>
        /\ UNCHANGED <<netFd, isConnected, flag, age, typed, taken, eof>>
    BY <1>1, <1>t, ClientsMove DEF connectVars, userVars
  <2>2. ReconnectTypeOK'
    BY <1>t, <2>1 DEF ReconnectTypeOK
  <2> QED
    BY <2>1, <2>2 DEF Connection, Running
<1>2. CASE UserStep
  <2>1. UNCHANGED <<prog, pc, ready, conn, said, left, heard, out, netFd, isConnected, flag, age, taken>>
    BY <1>2 DEF UserStep, Type, CloseStdin, clientVars, connectVars
  <2>2. typed' \in 0..MaxTyped /\ taken \in 0..typed' /\ eof' \in BOOLEAN
    <3>1. typed \in 0..MaxTyped /\ taken \in 0..typed /\ eof \in BOOLEAN /\ MaxTyped \in Nat
      BY <1>t, ReconnectAssumption DEF ReconnectTypeOK
    <3>2. CASE typed < MaxTyped /\ typed' = typed + 1 /\ eof' = eof
      BY <3>1, <3>2
    <3>3. CASE typed' = typed /\ eof' = TRUE
      BY <3>1, <3>3
    <3> QED
      BY <1>2, <3>2, <3>3 DEF UserStep, Type, CloseStdin
  <2>3. ReconnectTypeOK'
    BY <1>t, <2>1, <2>2 DEF ReconnectTypeOK, ClientsTypeOK
  <2> QED
    BY <2>1, <2>3 DEF Connection, Running, Open
<1> QED
  BY <1>1, <1>2

(* What can be read of the user's text. *)
LEMMA ReadTyped ==
  ASSUME ReconnectTypeOK, NEW n, ReadStdin(n)
  PROVE  /\ n \in Nat /\ n <= BufSize /\ taken \in Nat /\ taken' = taken + n
         /\ taken' \in 0..typed /\ taken' <= MaxTyped /\ MaxTyped \in Nat
<1>1. typed \in 0..MaxTyped /\ taken \in 0..typed /\ MaxTyped \in Nat /\ BufSize \in Nat
  BY ReconnectAssumption, EpollClientsAssumption DEF ReconnectTypeOK
<1>2. typed - taken \in Nat
  BY <1>1
<1>3. n \in Nat /\ n <= BufSize /\ n <= typed - taken
  BY <1>1, <1>2, MinOfTwo DEF ReadStdin
<1>4. taken' = taken + n
  BY DEF ReadStdin
<1> QED
  BY <1>1, <1>3, <1>4

(* Nothing is connected, closed or sent. *)
LEMMA ConnectionQuiet ==
  ASSUME Connection, UNCHANGED prog,
         \/ ReconnectWait \/ WaitedInVain \/ TooOld \/ FarewellKills \/ CallAccept
         \/ CallAcceptNoFd \/ NoBranch \/ StdinDropped \/ BatchDone
  PROVE  Connection'
<1>t. ReconnectTypeOK /\ ClientsTypeOK
  BY DEF Connection, ReconnectTypeOK
<1>1. UNCHANGED <<conn, said, left, heard, out, netFd, isConnected, flag, typed, eof>>
  BY DEF ReconnectWait, WaitedInVain, TooOld, FarewellKills, CallAccept, CallAcceptNoFd, NoBranch,
         StdinDropped, BatchDone, SendRefused, clientVars, connectVars, userVars
<1>2. Open' = Open
  BY <1>1 DEF Open
<1>3. /\ Running
      /\ pc' \in {"wait", "farewell", "dispatch", "accept", "noFd", "done", "exited", "killed"}
      /\ pc' = "farewell" => isConnected
      /\ pc' \in {"wait", "farewell"} => ready' = {}
  BY DEF ReconnectWait, WaitedInVain, TooOld, FarewellKills, CallAccept, CallAcceptNoFd, NoBranch,
         StdinDropped, ReadStdin, BatchDone, Connection, Running
<1>4. ready' \subseteq Clients \cup {Listen, Stdin} /\ (netFd \in ready' => isConnected)
  <2>1. CASE ready' \subseteq ready
    BY <1>t, <2>1 DEF Connection, ClientsTypeOK
  <2>2. CASE ReconnectWait
    <3>1. ready' \subseteq Ready
      BY <2>2 DEF ReconnectWait, Reports, kSubset
    <3>2. Ready \subseteq Open \cup {Listen, Stdin}
      BY DEF Ready, ReadySockets
    <3>3. netFd \notin {Listen, Stdin}
      BY <1>t, EpollClientsAssumption DEF ReconnectTypeOK, Listen, Stdin
    <3>4. Open \subseteq Clients
      BY DEF Open
    <3> QED
      BY <1>3, <3>1, <3>2, <3>3, <3>4 DEF Connection
  <2> QED
    BY <2>1, <2>2 DEF WaitedInVain, TooOld, FarewellKills, CallAccept, CallAcceptNoFd, NoBranch,
                      StdinDropped, BatchDone
<1>5. age' \in 0..Limit
  <2>1. age \in 0..Limit /\ Limit \in Nat
    BY <1>t, ReconnectAssumption DEF ReconnectTypeOK
  <2>2. CASE WaitedInVain
    BY <2>1, <2>2 DEF WaitedInVain
  <2> QED
    BY <2>1, <2>2 DEF ReconnectWait, TooOld, FarewellKills, CallAccept, CallAcceptNoFd, NoBranch,
                      StdinDropped, BatchDone, connectVars
<1>6. taken' \in 0..typed
  <2>1. CASE StdinDropped
    BY <1>t, <2>1, ReadTyped DEF StdinDropped
  <2> QED
    BY <1>t, <2>1 DEF ReconnectTypeOK, ReconnectWait, WaitedInVain, TooOld, FarewellKills,
                      CallAccept, CallAcceptNoFd, NoBranch, BatchDone, connectVars
<1>7. ReconnectTypeOK'
  BY <1>1, <1>3, <1>4, <1>5, <1>6, <1>t DEF ReconnectTypeOK, ClientsTypeOK
<1> QED
  BY <1>1, <1>2, <1>3, <1>4, <1>7 DEF Connection, Running

(* accept returns, for netFd or for a descriptor that is closed at once,   *)
(* or the program ends.                                                    *)
LEMMA ConnectionAccepts ==
  ASSUME Connection, UNCHANGED prog, Accepted \/ ClosedNoFd \/ LoopLeft
  PROVE  Connection'
<1>t. ReconnectTypeOK /\ ClientsTypeOK
  BY DEF Connection, ReconnectTypeOK
<1>1. UNCHANGED <<ready, said, left, heard, out, flag, typed, taken, eof>>
  BY DEF Accepted, ClosedNoFd, LoopLeft, connectVars, userVars
<1>2. CASE Accepted
  <2>1. PICK c \in Clients : /\ conn[c] = "backlog" /\ conn' = [conn EXCEPT ![c] = "open"]
                             /\ netFd' = c
    BY <1>2 DEF Accepted, Backlog
  <2>2. isConnected' = TRUE /\ age' = 0 /\ pc' = "dispatch"
    BY <1>2 DEF Accepted
  <2>3. conn' \in [Clients -> {"idle", "backlog", "open", "closed"}] /\ netFd' \in Open'
    BY <1>t, <2>1 DEF ClientsTypeOK, Open
  <2>4. ReconnectTypeOK'
    BY <1>1, <1>t, <2>1, <2>2, <2>3, ReconnectAssumption DEF ReconnectTypeOK, ClientsTypeOK
  <2> QED
    BY <2>2, <2>3, <2>4 DEF Connection
<1>3. CASE ClosedNoFd
  <2>1. PICK c \in Clients : conn[c] = "backlog" /\ conn' = [conn EXCEPT ![c] = "closed"]
    BY <1>3 DEF ClosedNoFd, Backlog
  <2>2. UNCHANGED <<netFd, isConnected, age>> /\ pc' = "dispatch" /\ Running
    BY <1>3 DEF ClosedNoFd, connectVars, Running
  <2>3. conn' \in [Clients -> {"idle", "backlog", "open", "closed"}] /\ Open' = Open
    BY <1>t, <2>1 DEF ClientsTypeOK, Open
  <2>4. ReconnectTypeOK'
    BY <1>1, <1>t, <2>2, <2>3 DEF ReconnectTypeOK, ClientsTypeOK
  <2> QED
    BY <1>1, <2>2, <2>3, <2>4 DEF Connection
<1>4. CASE LoopLeft
  <2>1. /\ UNCHANGED <<netFd, isConnected, age>> /\ pc' = "done"
        /\ conn' \in [Clients -> {"idle", "backlog", "open", "closed"}]
    BY <1>4, <1>t DEF LoopLeft, connectVars
  <2>2. ReconnectTypeOK'
    BY <1>1, <1>t, <2>1 DEF ReconnectTypeOK, ClientsTypeOK
  <2> QED
    BY <1>1, <2>1, <2>2 DEF Connection, Running
<1> QED
  BY <1>2, <1>3, <1>4

(* Something is sent, to a connection that is closed after it or not. *)
LEMMA ConnectionSends ==
  ASSUME Connection, UNCHANGED prog, TimesOut \/ StdinSent
  PROVE  Connection'
<1>t. /\ ReconnectTypeOK /\ ClientsTypeOK
      /\ Running /\ isConnected /\ netFd \in Open /\ netFd \in Clients
  BY DEF Connection, ReconnectTypeOK, TimesOut, StdinSent, ReadStdin, Running, Open
<1>1. UNCHANGED <<said, heard, netFd, typed, eof>>
  BY DEF TimesOut, StdinSent, userVars
<1>2. CASE TimesOut
  <2>1. TimeOut \in Unit /\ <<TimeOut>> \in Seq(Unit)
    <3>1. TimeOut \in Unit
      BY ReconnectAssumption DEF TimeOut, Unit
    <3> QED
      BY <3>1
  <2>2. out' \in [Clients -> Seq(Unit)] /\ left' \in [Clients -> {"no", "fin", "rst"}]
    <3>1. CASE SendTakes(netFd, <<TimeOut>>)
      BY <1>t, <2>1, <3>1, SendTyped
    <3>2. CASE SendRefused(netFd)
      BY <1>t, <3>2 DEF SendRefused, ClientsTypeOK
    <3> QED
      BY <1>2, <3>1, <3>2 DEF TimesOut
  <2>3. /\ conn' = [conn EXCEPT ![netFd] = "closed"] /\ isConnected' = FALSE /\ age' = 0
        /\ pc = "farewell" /\ pc' = "wait" /\ UNCHANGED <<ready, flag, taken>>
    BY <1>2 DEF TimesOut
  <2>4. conn' \in [Clients -> {"idle", "backlog", "open", "closed"}] /\ netFd \notin Open'
    BY <1>t, <2>3 DEF ClientsTypeOK, Open
  <2>5. ready' = {}
    BY <2>3 DEF Connection
  <2>6. ReconnectTypeOK'
    <3>1. ClientsTypeOK'
      BY <1>1, <1>t, <2>2, <2>3, <2>4 DEF ClientsTypeOK
    <3>2. {isConnected', flag', eof'} \subseteq BOOLEAN /\ age' \in 0..Limit
      <4>1. flag \in BOOLEAN /\ eof \in BOOLEAN /\ Limit \in Nat
        BY <1>t, ReconnectAssumption DEF ReconnectTypeOK
      <4>2. isConnected' \in BOOLEAN /\ flag' \in BOOLEAN /\ eof' \in BOOLEAN
        BY <1>1, <2>3, <4>1
      <4>3. age' \in 0..Limit
        BY <2>3, <4>1
      <4> QED
        BY <4>2, <4>3
    <3> QED
      BY <1>1, <1>t, <2>3, <3>1, <3>2 DEF ReconnectTypeOK
  <2> QED
    BY <1>1, <2>3, <2>4, <2>5, <2>6 DEF Connection
<1>3. CASE StdinSent
  <2> DEFINE n == Min({BufSize, typed - taken})
  <2>1. ReadStdin(n) /\ pc = "dispatch"
    BY <1>3 DEF StdinSent, ReadStdin
  <2>2. /\ n \in Nat /\ n <= BufSize /\ taken \in Nat
        /\ taken' \in 0..typed
    BY <1>t, <2>1, ReadTyped
  <2>3. \/ \E s \in Strings(Text(NoClient, taken, n)) : SendTakes(netFd, s) /\ UNCHANGED pc
        \/ SendRefused(netFd) /\ (pc' = pc \/ pc' = "killed")
    BY <1>3 DEF StdinSent, Text, Typed
  <2>4. /\ ready' = ready \ {Stdin} /\ flag' \in BOOLEAN
        /\ UNCHANGED <<conn, isConnected, age>>
    BY <1>3, <1>t DEF StdinSent, ReconnectTypeOK
  <2> HIDE DEF n
  <2>5. out' \in [Clients -> Seq(Unit)] /\ left' \in [Clients -> {"no", "fin", "rst"}]
    <3>1. ASSUME NEW s \in Strings(Text(NoClient, taken, n)), SendTakes(netFd, s)
          PROVE  out' \in [Clients -> Seq(Unit)] /\ left' \in [Clients -> {"no", "fin", "rst"}]
      <4>1. s \in Seq(Unit)
        BY <2>2, StringOf
      <4> QED
        BY <1>t, <3>1, <4>1, SendTyped
    <3>2. CASE SendRefused(netFd)
      BY <1>t, <3>2 DEF SendRefused, ClientsTypeOK
    <3> QED
      BY <2>3, <3>1, <3>2
  <2>6. pc' \in {"dispatch", "killed"}
    BY <2>1, <2>3
  <2>7. ReconnectTypeOK'
    BY <1>1, <1>t, <2>2, <2>4, <2>5, <2>6 DEF ReconnectTypeOK, ClientsTypeOK
  <2> QED
    BY <1>1, <1>t, <2>4, <2>6, <2>7 DEF Connection, Open
<1> QED
  BY <1>2, <1>3

(* isConnected says whether netFd is open, also when the connection        *)
(* changes within a batch, so an event of netFd always finds it set and    *)
(* the branch that would receive is never reached                          *)
(* (server_reconnect.c lines 53-65, 69-75).                                *)
THEOREM ReconnectInductive == Spec => [](prog.server = "reconnect" => Connection)
<1>1. Init => (prog.server = "reconnect" => Connection)
  BY InitConnection
<1>2. (prog.server = "reconnect" => Connection) /\ [Next]_vars => (prog.server = "reconnect" => Connection)'
  <2> SUFFICES ASSUME prog.server = "reconnect" => Connection, [Next]_vars, prog'.server = "reconnect"
               PROVE  Connection'
    OBVIOUS
  <2>1. CASE Reconnect
    <3>1. UNCHANGED prog /\ Connection
      BY <2>1 DEF Reconnect, ReconnectStep
    <3> QED
      BY <2>1, <3>1, ConnectionQuiet, ConnectionAccepts, ConnectionSends
         DEF Reconnect, ReconnectStep
  <2>2. CASE Environment
    <3>1. prog.server = "reconnect"
      BY <2>2 DEF Environment, ClientStep, UserStep
    <3> QED
      BY <2>2, <3>1, ConnectionEnvironment DEF Environment
  <2>3. CASE Room
    BY <2>3 DEF Room, RoomStep
  <2>4. CASE UNCHANGED vars
    <3>1. UNCHANGED <<prog, pc, ready, conn, said, left, heard, out, netFd, isConnected, flag, age,
                      typed, taken, eof>>
      BY <2>4 DEF vars, reconnectVars, connectVars, userVars, clientVars
    <3>2. Connection /\ Open' = Open
      BY <3>1 DEF Open
    <3>3. ReconnectTypeOK'
      BY <3>1, <3>2 DEF Connection, ReconnectTypeOK, ClientsTypeOK
    <3> QED
      BY <3>1, <3>2, <3>3 DEF Connection, Running
  <2> QED
    BY <2>1, <2>2, <2>3, <2>4 DEF Next
<1> QED
  BY <1>1, <1>2, PTL DEF Spec

-----------------------------------------------------------------------------
(* The reconnecting server: what it sends.                                 *)

(* Each client is sent a part of what was typed, in order, perhaps with a  *)
(* unit too many behind a full buffer, and at last that its time is over;  *)
(* no two are sent the same part.                                          *)
TypedOnce ==
  \A c \in Clients : \A k \in 1..Len(out[c]) :
    /\ out[c][k] = <<NoClient, out[c][k][2]>>
    /\ out[c][k][2] \in 0..taken \cup {MaxTyped + 1}
    /\ out[c][k][2] = MaxTyped + 1 => conn[c] = "closed"
    /\ \A l \in 1..Len(out[c]) : k < l /\ out[c][l][2] # 0 => out[c][k][2] < out[c][l][2]
    /\ \A d \in Clients : \A l \in 1..Len(out[d]) :
         d # c /\ out[c][k][2] = out[d][l][2] => out[c][k][2] \in {0, MaxTyped + 1}

LEMMA NothingSent ==
  ASSUME TypedOnce, UNCHANGED out, taken \in Nat, taken' \in Nat, taken <= taken',
         \A c \in Clients : conn[c] = "closed" => conn'[c] = "closed"
  PROVE  TypedOnce'
<1>1. 0..taken \subseteq 0..taken'
  OBVIOUS
<1> QED
  BY <1>1 DEF TypedOnce

(* What was not sent before is sent to the open connection. *)
LEMMA NewSent ==
  ASSUME TypedOnce, taken \in Nat, taken' \in Nat, taken <= taken', taken' <= MaxTyped,
         MaxTyped \in Nat, NEW v \in Clients, conn[v] = "open",
         \A c \in Clients : conn[c] = "closed" => conn'[c] = "closed",
         NEW s \in Seq(Unit), out[v] \in Seq(Unit), out'[v] = out[v] \o s,
         \A c \in Clients : c # v => out'[c] = out[c],
         \A k \in 1..Len(s) :
           /\ s[k] = <<NoClient, s[k][2]>>
           /\ s[k][2] \in {0, MaxTyped + 1} \cup taken + 1..taken'
           /\ s[k][2] = MaxTyped + 1 => conn'[v] = "closed"
           /\ \A l \in 1..Len(s) : k < l /\ s[l][2] # 0 => s[k][2] < s[l][2]
  PROVE  TypedOnce'
<1>0. PICK m \in Nat, n \in Nat : m = Len(out[v]) /\ n = Len(s)
  BY LenProperties
<1>1. /\ Len(out'[v]) = m + n
      /\ \A k \in 1..m : out'[v][k] = out[v][k] /\ k \in 1..m + n
      /\ \A k \in m + 1..m + n : out'[v][k] = s[k - m] /\ k - m \in 1..n
  BY SMTT(30), <1>0, Joined
<1>2. \A k \in 1..m + n : k \in 1..m \/ k \in m + 1..m + n
  OBVIOUS
<1>3. \A k \in 1..m : /\ out[v][k] = <<NoClient, out[v][k][2]>>
                      /\ out[v][k][2] \in 0..taken /\ out[v][k][2] # MaxTyped + 1
  <2>1. \A k \in 1..m : /\ out[v][k] = <<NoClient, out[v][k][2]>>
                        /\ out[v][k][2] \in 0..taken \cup {MaxTyped + 1}
                        /\ out[v][k][2] # MaxTyped + 1
    BY <1>0 DEF TypedOnce
  <2> QED
    BY <2>1
<1>4. \A k \in m + 1..m + n :
        /\ out'[v][k] = <<NoClient, out'[v][k][2]>>
        /\ out'[v][k][2] \in {0, MaxTyped + 1} \cup taken + 1..taken'
        /\ out'[v][k][2] = MaxTyped + 1 => conn'[v] = "closed"
  BY <1>0, <1>1
<1>5. \A x \in 0..taken : x \in 0..taken' /\ x < MaxTyped + 1
  OBVIOUS
<1>6. \A x \in taken + 1..taken' : x \in 0..taken' /\ x < MaxTyped + 1 /\ x # 0
  OBVIOUS
<1>7. \A x \in 0..taken, y \in {MaxTyped + 1} \cup taken + 1..taken' : x < y
  OBVIOUS
<1>8. ASSUME NEW k \in 1..m + n
      PROVE  /\ out'[v][k] = <<NoClient, out'[v][k][2]>>
             /\ out'[v][k][2] \in 0..taken' \cup {MaxTyped + 1}
             /\ out'[v][k][2] = MaxTyped + 1 => conn'[v] = "closed"
  <2>1. CASE k \in 1..m
    BY <1>1, <1>3, <1>5, <2>1
  <2>2. CASE k \in m + 1..m + n
    <3>1. 0 \in 0..taken'
      OBVIOUS
    <3> QED
      BY <1>4, <1>6, <2>2, <3>1
  <2> QED
    BY <1>2, <2>1, <2>2
<1>9. ASSUME NEW k \in 1..m + n, NEW l \in 1..m + n, k < l, out'[v][l][2] # 0
      PROVE  out'[v][k][2] < out'[v][l][2]
  <2>1. CASE k \in 1..m /\ l \in 1..m
    BY <1>0, <1>1, <1>9, <2>1 DEF TypedOnce
  <2>2. CASE k \in 1..m /\ l \in m + 1..m + n
    <3>1. out'[v][k][2] \in 0..taken
      BY <1>1, <1>3, <2>2
    <3>2. out'[v][l][2] \in {MaxTyped + 1} \cup taken + 1..taken'
      BY <1>4, <1>9, <2>2
    <3> QED
      BY <1>7, <3>1, <3>2
  <2>3. CASE k \in m + 1..m + n /\ l \in m + 1..m + n
    <3>1. k - m \in 1..n /\ l - m \in 1..n /\ k - m < l - m
      BY <1>9, <2>3
    <3>2. out'[v][k] = s[k - m] /\ out'[v][l] = s[l - m]
      BY <1>1, <2>3
    <3>3. s[k - m][2] < s[l - m][2]
      BY <1>0, <1>9, <3>1, <3>2
    <3> QED
      BY <3>2, <3>3
  <2>4. ~(k \in m + 1..m + n /\ l \in 1..m)
    BY <1>9
  <2> QED
    BY <1>2, <2>1, <2>2, <2>3, <2>4
<1>10. ASSUME NEW d \in Clients, d # v, NEW l \in 1..Len(out[d]), NEW k \in 1..m + n,
              out'[v][k][2] = out[d][l][2]
       PROVE  out'[v][k][2] \in {0, MaxTyped + 1}
  <2>1. CASE k \in 1..m
    BY <1>0, <1>1, <1>10, <2>1 DEF TypedOnce
  <2>2. CASE k \in m + 1..m + n
    <3>1. out[d][l][2] \in 0..taken \cup {MaxTyped + 1}
      BY DEF TypedOnce
    <3>2. out'[v][k][2] \in {0, MaxTyped + 1} \cup taken + 1..taken'
      BY <1>4, <2>2
    <3>3. \A x \in taken + 1..taken' : x \notin 0..taken /\ x # MaxTyped + 1
      OBVIOUS
    <3> QED
      BY <1>10, <3>1, <3>2, <3>3
  <2> QED
    BY <1>2, <2>1, <2>2
<1>11. ASSUME NEW c \in Clients, c # v, NEW k \in 1..Len(out[c])
       PROVE  /\ out[c][k] = <<NoClient, out[c][k][2]>>
              /\ out[c][k][2] \in 0..taken' \cup {MaxTyped + 1}
              /\ out[c][k][2] = MaxTyped + 1 => conn'[c] = "closed"
              /\ \A l \in 1..Len(out[c]) : k < l /\ out[c][l][2] # 0 => out[c][k][2] < out[c][l][2]
              /\ \A d \in Clients : \A l \in 1..Len(out[d]) :
                   d # c /\ out[c][k][2] = out[d][l][2] => out[c][k][2] \in {0, MaxTyped + 1}
  BY <1>5 DEF TypedOnce
<1>12. ASSUME NEW c \in Clients, NEW k \in 1..Len(out'[c])
       PROVE  /\ out'[c][k] = <<NoClient, out'[c][k][2]>>
              /\ out'[c][k][2] \in 0..taken' \cup {MaxTyped + 1}
              /\ out'[c][k][2] = MaxTyped + 1 => conn'[c] = "closed"
              /\ \A l \in 1..Len(out'[c]) : k < l /\ out'[c][l][2] # 0 => out'[c][k][2] < out'[c][l][2]
              /\ \A d \in Clients : \A l \in 1..Len(out'[d]) :
                   d # c /\ out'[c][k][2] = out'[d][l][2] => out'[c][k][2] \in {0, MaxTyped + 1}
  <2>1. CASE c = v
    <3>1. k \in 1..m + n /\ Len(out'[c]) = m + n
      BY <1>1, <2>1
    <3>2. \A l \in 1..m + n : k < l /\ out'[v][l][2] # 0 => out'[v][k][2] < out'[v][l][2]
      BY <1>9, <3>1
    <3>3. ASSUME NEW d \in Clients, NEW l \in 1..Len(out'[d]), d # v, out'[v][k][2] = out'[d][l][2]
          PROVE  out'[v][k][2] \in {0, MaxTyped + 1}
      <4>1. out'[d] = out[d]
        BY <3>3
      <4>2. l \in 1..Len(out[d]) /\ out'[v][k][2] = out[d][l][2]
        BY <3>3, <4>1
      <4> QED
        BY <1>10, <3>1, <3>3, <4>2
    <3> QED
      BY <1>8, <2>1, <3>1, <3>2, <3>3
  <2>2. CASE c # v
    <3>1. out'[c] = out[c]
      BY <2>2
    <3>2. ASSUME NEW d \in Clients, NEW l \in 1..Len(out'[d]), d # c, out[c][k][2] = out'[d][l][2]
          PROVE  out[c][k][2] \in {0, MaxTyped + 1}
      <4>1. CASE d = v
        <5>1. l \in 1..m + n /\ k \in 1..Len(out[c]) /\ out'[v][l][2] = out[c][k][2]
          BY <1>1, <3>1, <3>2, <4>1
        <5> QED
          BY <1>10, <2>2, <5>1
      <4>2. CASE d # v
        BY <1>11, <2>2, <3>1, <3>2, <4>2
      <4> QED
        BY <4>1, <4>2
    <3> QED
      BY <1>11, <2>2, <3>1, <3>2
  <2> QED
    BY <2>1, <2>2
<1> QED
  BY <1>12 DEF TypedOnce

LEMMA FarewellSent ==
  ASSUME Connection, TypedOnce, TimesOut
  PROVE  TypedOnce'
<1>t. /\ ReconnectTypeOK /\ ClientsTypeOK /\ netFd \in Clients /\ conn[netFd] = "open"
      /\ taken \in Nat /\ taken <= MaxTyped /\ MaxTyped \in Nat
  <2>1. /\ ReconnectTypeOK /\ ClientsTypeOK /\ netFd \in Clients /\ conn[netFd] = "open"
    BY DEF Connection, ReconnectTypeOK, TimesOut, Running, Open
  <2>2. typed \in 0..MaxTyped /\ taken \in 0..typed /\ MaxTyped \in Nat
    BY <2>1, ReconnectAssumption DEF ReconnectTypeOK
  <2> QED
    BY <2>1, <2>2
<1>1. conn' = [conn EXCEPT ![netFd] = "closed"] /\ UNCHANGED taken
  BY DEF TimesOut
<1>2. conn'[netFd] = "closed" /\ \A c \in Clients : conn[c] = "closed" => conn'[c] = "closed"
  BY <1>1, <1>t DEF ClientsTypeOK
<1>3. CASE SendTakes(netFd, <<TimeOut>>)
  <2>1. PICK s : s = <<TimeOut>>
    OBVIOUS
  <2>2. s \in Seq(Unit) /\ Len(s) = 1 /\ s[1] = <<NoClient, MaxTyped + 1>>
    <3>1. TimeOut \in Unit
      BY <1>t DEF TimeOut, Unit
    <3> QED
      BY <2>1, <3>1 DEF TimeOut
  <2>3. \A k \in 1..1 : k = 1
    OBVIOUS
  <2>4. \A k \in 1..Len(s) :
           /\ s[k] = <<NoClient, s[k][2]>>
           /\ s[k][2] \in {0, MaxTyped + 1} \cup taken + 1..taken'
           /\ s[k][2] = MaxTyped + 1 => conn'[netFd] = "closed"
           /\ \A l \in 1..Len(s) : k < l /\ s[l][2] # 0 => s[k][2] < s[l][2]
    BY <1>2, <2>2, <2>3
  <2>5. /\ out'[netFd] = out[netFd] \o s /\ out[netFd] \in Seq(Unit)
        /\ \A c \in Clients : c # netFd => out'[c] = out[c]
    BY <1>3, <1>t, <2>1, <2>2, SendTyped
  <2>6. taken' \in Nat /\ taken <= taken' /\ taken' <= MaxTyped
    BY <1>1, <1>t
  <2> QED
    BY <1>2, <1>t, <2>2, <2>4, <2>5, <2>6, NewSent
<1>4. CASE SendRefused(netFd)
  BY <1>1, <1>2, <1>4, <1>t, NothingSent DEF SendRefused
<1> QED
  BY <1>3, <1>4 DEF TimesOut

LEMMA TextSent ==
  ASSUME Connection, TypedOnce, StdinSent
  PROVE  TypedOnce'
<1> DEFINE n == Min({BufSize, typed - taken})
<1>t. /\ ReconnectTypeOK /\ ClientsTypeOK /\ netFd \in Clients /\ conn[netFd] = "open"
  BY DEF Connection, ReconnectTypeOK, StdinSent, ReadStdin, Running, Open
<1>1. /\ n \in Nat /\ n <= BufSize /\ taken \in Nat /\ taken' = taken + n
      /\ taken' <= MaxTyped /\ MaxTyped \in Nat
  <2>1. ReadStdin(n)
    BY DEF StdinSent
  <2> QED
    BY <1>t, <2>1, ReadTyped
<1>2. \/ \E s \in Strings(Text(NoClient, taken, n)) : SendTakes(netFd, s)
      \/ SendRefused(netFd)
  BY DEF StdinSent, Text, Typed
<1>3. conn' = conn
  BY DEF StdinSent
<1> HIDE DEF n
<1>4. taken' \in Nat /\ taken <= taken'
  BY <1>1
<1>5. ASSUME NEW s \in Strings(Text(NoClient, taken, n)), SendTakes(netFd, s)
      PROVE  TypedOnce'
  <2>1. /\ s \in Seq(Unit) /\ Len(s) \in Nat
        /\ \A k \in 1..n : s[k] = <<NoClient, taken + k>>
        /\ \A k \in n + 1..Len(s) : s[k] = Garbage
    <3>1. PICK h \in Nat, c \in Clients \cup {NoClient} : h = taken /\ c = NoClient
      BY <1>1
    <3>2. s \in Strings(Text(c, h, n)) /\ n \in Nat /\ n <= BufSize
      BY <1>1, <3>1
    <3>3. /\ s \in Seq(Unit) /\ Len(s) \in Nat
          /\ \A k \in 1..n : s[k] = <<c, h + k>>
          /\ \A k \in n + 1..Len(s) : s[k] = Garbage
      BY <3>2, StringOf
    <3> QED
      BY <3>1, <3>3
  <2>2. \A k \in 1..Len(s) : k \in 1..n \/ k \in n + 1..Len(s)
    BY <1>1, <2>1
  <2>3. \A k \in 1..n : taken + k \in taken + 1..taken' /\ taken + k # MaxTyped + 1
    BY <1>1
  <2>4. MaxTyped + 1 # 0
    BY <1>1
  <2>5. ASSUME NEW k \in 1..Len(s)
        PROVE  /\ s[k] = <<NoClient, s[k][2]>>
               /\ s[k][2] \in {0, MaxTyped + 1} \cup taken + 1..taken'
               /\ s[k][2] # MaxTyped + 1
    <3>1. CASE k \in 1..n
      BY <2>1, <2>3, <3>1
    <3>2. CASE k \in n + 1..Len(s)
      BY <2>1, <2>4, <3>2 DEF Garbage
    <3> QED
      BY <2>2, <3>1, <3>2
  <2>6. ASSUME NEW k \in 1..Len(s), NEW l \in 1..Len(s), k < l, s[l][2] # 0
        PROVE  s[k][2] < s[l][2]
    <3>1. l \in 1..n
      <4>1. l \notin n + 1..Len(s)
        BY <2>1, <2>6 DEF Garbage
      <4> QED
        BY <2>2, <4>1
    <3>2. k \in 1..n
      BY <1>1, <2>6, <3>1
    <3>3. s[k][2] = taken + k /\ s[l][2] = taken + l
      BY <2>1, <3>1, <3>2
    <3> QED
      BY <1>1, <2>6, <3>1, <3>2, <3>3
  <2>7. /\ out'[netFd] = out[netFd] \o s /\ out[netFd] \in Seq(Unit)
        /\ \A c \in Clients : c # netFd => out'[c] = out[c]
    BY <1>5, <1>t, <2>1, SendTyped
  <2>8. \A k \in 1..Len(s) :
           /\ s[k] = <<NoClient, s[k][2]>>
           /\ s[k][2] \in {0, MaxTyped + 1} \cup taken + 1..taken'
           /\ s[k][2] = MaxTyped + 1 => conn'[netFd] = "closed"
           /\ \A l \in 1..Len(s) : k < l /\ s[l][2] # 0 => s[k][2] < s[l][2]
    BY <2>5, <2>6
  <2> QED
    BY <1>1, <1>3, <1>4, <1>t, <2>1, <2>7, <2>8, NewSent
<1>6. CASE SendRefused(netFd)
  BY <1>1, <1>3, <1>4, <1>6, NothingSent DEF SendRefused
<1> QED
  BY <1>2, <1>5, <1>6

(* The server takes whoever netFd names for connected exactly while that   *)
(* is so, and what its user types is sent in order and to one client only, *)
(* however the user and the clients come and go and whatever the sizes of  *)
(* its arrays (server_reconnect.c lines 53-65, 69-75, 90-95).              *)
THEOREM ReconnectIsIntact == Spec => []ReconnectIntact
<1>1. Init => (prog.server = "reconnect" => TypedOnce)
  BY DEF Init, ClientsInit, TypedOnce
<1>2. (prog.server = "reconnect" => Connection /\ TypedOnce) /\ [Next]_vars
        => (prog.server = "reconnect" => TypedOnce)'
  <2> SUFFICES ASSUME prog.server = "reconnect" => Connection /\ TypedOnce, [Next]_vars,
                      prog'.server = "reconnect"
               PROVE  TypedOnce'
    OBVIOUS
  <2>1. CASE Reconnect
    <3>1. Connection /\ TypedOnce /\ ReconnectTypeOK /\ ClientsTypeOK
      BY <2>1 DEF Reconnect, ReconnectStep, Connection, ReconnectTypeOK
    <3>2. taken \in Nat
      <4>1. typed \in 0..MaxTyped /\ taken \in 0..typed
        BY <3>1 DEF ReconnectTypeOK
      <4> QED
        BY <4>1
    <3>3. CASE ReconnectWait \/ WaitedInVain \/ TooOld \/ FarewellKills \/ CallAccept
               \/ CallAcceptNoFd \/ NoBranch \/ BatchDone
      <4>1. UNCHANGED <<conn, out, taken>>
        BY <3>3 DEF ReconnectWait, WaitedInVain, TooOld, FarewellKills, CallAccept,
                    CallAcceptNoFd, NoBranch, BatchDone, SendRefused, clientVars, connectVars
      <4> QED
        BY <3>1, <3>2, <4>1, NothingSent
    <3>4. CASE Accepted \/ ClosedNoFd \/ LoopLeft
      <4>1. UNCHANGED <<out, taken>>
        BY <3>4 DEF Accepted, ClosedNoFd, LoopLeft, connectVars
      <4>2. \A c \in Clients : conn[c] = "closed" => conn'[c] = "closed"
        BY <3>1, <3>4 DEF Accepted, ClosedNoFd, LoopLeft, Backlog, ClientsTypeOK
      <4> QED
        BY <3>1, <3>2, <4>1, <4>2, NothingSent
    <3>5. CASE StdinDropped
      <4>1. UNCHANGED <<conn, out>>
        BY <3>5 DEF StdinDropped, clientVars
      <4>2. taken' \in Nat /\ taken <= taken'
        <5>1. PICK n \in Nat : taken' = taken + n
          BY <3>1, <3>5, ReadTyped DEF StdinDropped
        <5> QED
          BY <3>2, <5>1
      <4> QED
        BY <3>1, <3>2, <4>1, <4>2, NothingSent
    <3> QED
      BY <2>1, <3>1, <3>3, <3>4, <3>5, FarewellSent, TextSent DEF Reconnect, ReconnectStep
  <2>2. CASE Environment \/ UNCHANGED vars
    <3>1. UNCHANGED <<prog, out, taken>> /\ prog.server = "reconnect"
      BY <2>2 DEF Environment, ClientStep, UserStep, Type, CloseStdin, connectVars,
                  vars, reconnectVars
    <3>2. ReconnectTypeOK /\ ClientsTypeOK /\ TypedOnce
      BY <3>1 DEF Connection, ReconnectTypeOK
    <3>3. taken \in Nat
      <4>1. typed \in 0..MaxTyped /\ taken \in 0..typed
        BY <3>2 DEF ReconnectTypeOK
      <4> QED
        BY <4>1
    <3>4. \A c \in Clients : conn[c] = "closed" => conn'[c] = "closed"
      <4>1. CASE ClientStep
        BY <3>2, <4>1, ClientsMove
      <4>2. CASE UserStep \/ UNCHANGED vars
        BY <4>2 DEF UserStep, vars, reconnectVars, clientVars
      <4> QED
        BY <2>2, <4>1, <4>2 DEF Environment
    <3> QED
      BY <3>1, <3>2, <3>3, <3>4, NothingSent
  <2>3. CASE Room
    BY <2>3 DEF Room, RoomStep
  <2> QED
    BY <2>1, <2>2, <2>3 DEF Next
<1>3. (prog.server = "reconnect" => Connection /\ TypedOnce) => ReconnectIntact
  <2> SUFFICES ASSUME Connection, TypedOnce
               PROVE  /\ ReconnectTypeOK
                      /\ Running => (isConnected <=> netFd \in Open)
                      /\ netFd \in ready => isConnected
                      /\ \A c, d \in Clients : \A k \in 1..Len(out[c]), l \in 1..Len(out[d]) :
                           LET u == out[c][k]  v == out[d][l] IN
                           /\ c # d /\ u = v => u \in {Garbage, TimeOut}
                           /\ c = d /\ k < l /\ v # Garbage => u[2] < v[2]
    BY DEF ReconnectIntact
  <2>1. ASSUME NEW c \in Clients, NEW d \in Clients, NEW k \in 1..Len(out[c]),
               NEW l \in 1..Len(out[d]), c # d, out[c][k] = out[d][l]
        PROVE  out[c][k] \in {Garbage, TimeOut}
    <3>1. out[c][k][2] \in {0, MaxTyped + 1}
      BY <2>1 DEF TypedOnce
    <3>2. out[c][k] = <<NoClient, out[c][k][2]>>
      BY DEF TypedOnce
    <3> QED
      BY <3>1, <3>2 DEF Garbage, TimeOut
  <2>2. ASSUME NEW c \in Clients, NEW k \in 1..Len(out[c]), NEW l \in 1..Len(out[c]),
               k < l, out[c][l] # Garbage
        PROVE  out[c][k][2] < out[c][l][2]
    <3>1. out[c][l][2] # 0
      BY <2>2 DEF TypedOnce, Garbage
    <3> QED
      BY <2>2, <3>1 DEF TypedOnce
  <2> QED
    BY <2>1, <2>2 DEF Connection
<1> QED
  BY <1>1, <1>2, <1>3, ReconnectInductive, PTL DEF Spec
==============================================================================

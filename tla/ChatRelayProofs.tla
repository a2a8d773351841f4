--------------------------- MODULE ChatRelayProofs ---------------------------
(***************************************************************************)
(* Proofs about the chat relay, for any clients, any capacity of the array *)
(* and of the receive buffer, and clients that say any amount.             *)
(***************************************************************************)
EXTENDS ChatRelay, FunctionTheorems, FiniteSetTheorems, SequenceTheorems,
        WellFoundedInduction, TLAPS

-----------------------------------------------------------------------------
(* The inductive invariant of the array.                                   *)

(* Two descriptors never lead to the same client. *)
OwnersDiffer ==
  \A f, g \in Fds : f # g /\ owner[f] = owner[g] => owner[f] = NoClient

(* Nothing is accepted or disconnected within a relay. *)
RelayInArray == server = "relay" => i < curConn /\ j < curConn

(* accept is called for a client that waits. *)
ArrivalReal == server = "accept" /\ Listen \in rdSet => Arrived

ArrayInv ==
  /\ TypeOK
  /\ curConn <= maxConn /\ maxConn >= 1
  /\ OwnersDiffer
  /\ ArrayIsOpen
  /\ SetMatchesArray
  /\ RelayInArray
  /\ ArrivalReal

-----------------------------------------------------------------------------
(* Counting descriptors.                                                   *)

LEMMA ClientsCounted ==
  Cardinality(Clients) \in Nat /\ Slots \subseteq Nat /\ Fds \subseteq Nat /\ Listen \notin Fds
BY ChatRelayAssumption, FS_CardinalityType DEF Slots, Fds, Listen

(* A set of numbers that is not empty has a least element. *)
LEMMA LeastElement ==
  ASSUME NEW S \in SUBSET Nat, S # {}
  PROVE  Min(S) \in S
<1>1. PICK x \in S : \A y \in S : ~(<<y, x>> \in OpToRel(<, Nat))
  BY NatLessThanWellFounded, WFMin
<1>2. OpToRel(<, Nat) = {p \in Nat \X Nat : p[1] < p[2]}
  BY DEF OpToRel
<1>3. ASSUME NEW y \in S PROVE x <= y
  <2>1. ~(y < x)
    BY <1>1, <1>2
  <2> QED
    BY <2>1
<1> QED
  BY <1>1, <1>3 DEF Min

(* While somebody has no descriptor there is one for it, and room for it   *)
(* among the slots.                                                        *)
LEMMA RoomForOneMore ==
  ASSUME TypeOK, OwnersDiffer, ArrayIsOpen, Running, NEW c \in Clients, conn[c] # "open"
  PROVE  /\ \E f \in Fds : owner[f] = NoClient
         /\ curConn + 1 <= Cardinality(Clients)
<1> DEFINE N == Cardinality(Clients)
           Others == Clients \ {c}
<1>1. N \in Nat /\ IsFiniteSet(Others) /\ Cardinality(Others) = N - 1
  BY ChatRelayAssumption, FS_CardinalityType, FS_RemoveElement
<1>2. \A f \in Fds : owner[f] # NoClient => owner[f] \in Others
  BY DEF TypeOK, ArrayIsOpen, OpenFds
<1>3. \E f \in Fds : owner[f] = NoClient
  <2> SUFFICES ASSUME \A f \in Fds : owner[f] # NoClient PROVE FALSE
    OBVIOUS
  <2>1. owner \in [Fds -> Others]
    BY <1>2 DEF TypeOK
  <2>2. owner \in Injection(Fds, Others)
    BY <2>1, Fun_IsInj DEF OwnersDiffer
  <2>3. Cardinality(Fds) <= N - 1
    BY <1>1, <2>2, FS_Injection
  <2>4. Cardinality(Fds) = N
    BY <1>1, FS_Interval DEF Fds
  <2> QED
    BY <1>1, <2>3, <2>4
<1>4. curConn + 1 <= N
  <2> DEFINE S == 0..curConn - 1
             F == [k \in S |-> owner[netFdArr[k]]]
  <2>1. curConn \in Nat
    BY <1>1 DEF TypeOK
  <2>2. \A k \in S : netFdArr[k] \in Fds /\ owner[netFdArr[k]] # NoClient
    BY DEF ArrayIsOpen, Array, OpenFds
  <2>3. F \in [S -> Others]
    BY <1>2, <2>2
  <2>4. \A k, l \in S : F[k] = F[l] => k = l
    BY <2>2 DEF OwnersDiffer, ArrayIsOpen
  <2>5. F \in Injection(S, Others)
    BY <2>3, <2>4, Fun_IsInj
  <2> HIDE DEF F
  <2>6. Cardinality(S) <= N - 1
    BY <1>1, <2>5, FS_Injection
  <2>7. Cardinality(S) = curConn
    BY <2>1, FS_Interval
  <2> QED
    BY <1>1, <2>1, <2>6, <2>7
<1> QED
  BY <1>3, <1>4

-----------------------------------------------------------------------------
(* Steps that leave a part of the state alone.                             *)

(* The array, the connections and the set. *)
LEMMA ArrayKept ==
  ASSUME ArrayIsOpen, OwnersDiffer, SetMatchesArray,
         UNCHANGED <<netFdArr, curConn, monitorSet, owner, orderly>>,
         Running' => Running,
         {c \in Clients : conn'[c] = "open"} = {c \in Clients : conn[c] = "open"}
  PROVE  ArrayIsOpen' /\ OwnersDiffer' /\ SetMatchesArray'
BY DEF ArrayIsOpen, OwnersDiffer, SetMatchesArray, Array, OpenFds

(* What is on its way to the clients when one says something more. *)
LEMMA SaidGrows ==
  ASSUME TypeOK, \A c \in Clients : said'[c] \in Nat /\ said'[c] >= said[c]
  PROVE  Said \subseteq Said'
BY DEF TypeOK, Said

(* A slot of the array holds an open descriptor. *)
LEMMA SlotIsOpen ==
  ASSUME TypeOK, ArrayIsOpen, Running, NEW k \in 0..curConn - 1
  PROVE  netFdArr[k] \in Fds /\ owner[netFdArr[k]] \in Clients /\ conn[owner[netFdArr[k]]] = "open"
<1>1. netFdArr[k] \in OpenFds
  BY DEF ArrayIsOpen, Array
<1> QED
  BY <1>1 DEF ArrayIsOpen, OpenFds, TypeOK

(* Whoever waits goes on waiting until it is accepted. *)
LEMMA ArrivalKept ==
  ASSUME ArrayInv, [Next]_vars
  PROVE  ArrivalReal'
<1> SUFFICES ASSUME server' = "accept", Listen \in rdSet' PROVE Arrived'
  BY DEF ArrivalReal
<1>1. CASE Select
  BY <1>1 DEF Select, Ready, Arrived
<1>2. CASE ClientStep \/ UNCHANGED vars
  <2>1. UNCHANGED <<server, rdSet>> /\ \A c \in Clients : conn[c] = "backlog" => conn'[c] = "backlog"
    BY <1>2 DEF ClientStep, Connect, Say, Leave, vars, loopVars, ArrayInv, TypeOK
  <2> QED
    BY <2>1 DEF ArrayInv, ArrivalReal, Arrived
<1>3. CASE ~Select /\ ServerStep
  BY <1>3 DEF ServerStep, SelectFails, Accept, AcceptFails, ReallocFails, NoAccept, Skip,
              ScanDone, Recv, Disconnect, AtReady, RelaySelf, Relay, RelayFails, Advance
<1> QED
  BY <1>1, <1>2, <1>3 DEF Next

-----------------------------------------------------------------------------
LEMMA InitArray == Init => ArrayInv
<1> SUFFICES ASSUME Init PROVE ArrayInv
  OBVIOUS
<1>1. TypeOK
  <2>1. \A c \in Clients : MaxSaid[c] \in Nat
    BY ChatRelayAssumption
  <2>2. 0 \in 0..Cardinality(Clients)
    BY ClientsCounted
  <2> QED
    BY <2>1, <2>2, ClientsCounted, ChatRelayAssumption DEF Init, TypeOK, Slots
<1>2. ArrayIsOpen /\ OwnersDiffer /\ SetMatchesArray /\ RelayInArray /\ ArrivalReal
  BY DEF Init, ArrayIsOpen, OwnersDiffer, SetMatchesArray, RelayInArray, ArrivalReal, Array,
         OpenFds
<1>3. curConn <= maxConn /\ maxConn >= 1
  BY ChatRelayAssumption DEF Init
<1> QED
  BY <1>1, <1>2, <1>3 DEF ArrayInv

(* A client arrives, says something or leaves. *)
LEMMA ArrayClients == ASSUME ArrayInv, ArrivalReal', ClientStep PROVE ArrayInv'
<1>t. TypeOK /\ ArrayIsOpen /\ OwnersDiffer /\ SetMatchesArray /\ RelayInArray
  BY DEF ArrayInv
<1>1. UNCHANGED <<fdLimit, server, netFdArr, curConn, maxConn, monitorSet, rdSet, i, j, buf, owner,
                  heard, out, orderly>>
  BY DEF ClientStep, Connect, Say, Leave, arrayVars, loopVars, clientVars
<1>2. {c \in Clients : conn'[c] = "open"} = {c \in Clients : conn[c] = "open"}
  BY <1>t DEF ClientStep, Connect, Say, Leave, TypeOK
<1>3. /\ said' \in [Clients -> Nat]
      /\ \A c \in Clients : said'[c] >= said[c] /\ said'[c] <= MaxSaid[c]
  <2>1. \A c \in Clients : MaxSaid[c] \in Nat
    BY ChatRelayAssumption
  <2>2. CASE said' = said
    BY <1>t, <2>2 DEF TypeOK
  <2>3. CASE \E c \in Clients : Say(c)
    <3>1. PICK c \in Clients : said[c] < MaxSaid[c] /\ said' = [said EXCEPT ![c] = said[c] + 1]
      BY <2>3 DEF Say
    <3>2. said[c] \in Nat /\ MaxSaid[c] \in Nat
      BY <1>t, <2>1 DEF TypeOK
    <3> QED
      BY <1>t, <3>1, <3>2 DEF TypeOK
  <2> QED
    BY <2>2, <2>3 DEF ClientStep, Connect, Leave, clientVars
<1>4. buf' \in Seq(Said') /\ out' \in [Clients -> Seq(Said')]
  <2>1. Said \subseteq Said'
    BY <1>3, <1>t, SaidGrows DEF TypeOK
  <2>2. buf \in Seq(Said') /\ \A c \in Clients : out[c] \in Seq(Said')
    BY <1>t, <2>1, SeqMonotonic DEF TypeOK
  <2> QED
    BY <1>1, <1>t, <2>2 DEF TypeOK
<1>5. TypeOK'
  <2>1. conn' \in [Clients -> {"idle", "backlog", "open", "closed"}]
        /\ left' \in [Clients -> {"no", "fin", "rst"}]
    BY <1>t DEF ClientStep, Connect, Say, Leave, TypeOK, clientVars
  <2>2. \A c \in Clients : heard'[c] <= said'[c]
    BY <1>1, <1>3, <1>t DEF TypeOK
  <2> QED
    BY <1>1, <1>3, <1>4, <1>t, <2>1, <2>2 DEF TypeOK
<1>6. RelayInArray' /\ Running' = Running
  BY <1>1, <1>t DEF RelayInArray, Running
<1> QED
  BY <1>1, <1>2, <1>5, <1>6, <1>t, ArrayKept DEF ArrayInv

(* The server selects, skips a slot, receives or goes through the array.   *)
LEMMA ArrayLoops ==
  ASSUME ArrayInv, ArrivalReal', UNCHANGED fdLimit,
         Select \/ NoAccept \/ Skip \/ ScanDone \/ Recv \/ RelaySelf \/ Relay \/ RelayFails
  PROVE  ArrayInv'
<1>t. TypeOK /\ ArrayIsOpen /\ OwnersDiffer /\ SetMatchesArray /\ RelayInArray
  BY DEF ArrayInv
<1>1. UNCHANGED <<netFdArr, curConn, maxConn, monitorSet, owner, conn, said, orderly>>
      /\ Running
  BY DEF Select, NoAccept, Skip, ScanDone, Recv, RelaySelf, Relay, RelayFails, AtReady,
         arrayVars, loopVars, clientVars, Running
<1>2. ArrayIsOpen' /\ OwnersDiffer' /\ SetMatchesArray'
  BY <1>1, <1>t, ArrayKept
<1>3. /\ curConn \in Nat /\ Cardinality(Clients) \in Nat /\ i \in Nat /\ j \in Nat
      /\ curConn <= Cardinality(Clients)
  BY <1>t, ClientsCounted DEF TypeOK, Slots
<1>4. CASE Select \/ NoAccept \/ Skip \/ ScanDone
  <2>1. /\ server' \in {"select", "accept", "scan"}
        /\ UNCHANGED <<j, buf, heard, left, out>>
    BY <1>4 DEF Select, NoAccept, Skip, ScanDone, clientVars, loopVars
  <2>2. rdSet' \subseteq Fds \cup {Listen}
    BY <1>4, <1>t DEF Select, NoAccept, Skip, ScanDone, loopVars, TypeOK, Ready, Watched
  <2>3. i' \in Slots
    BY <1>3, <1>4, <1>t DEF Select, NoAccept, Skip, ScanDone, loopVars, TypeOK, Slots
  <2>4. TypeOK' /\ RelayInArray'
    BY <1>1, <1>t, <2>1, <2>2, <2>3 DEF TypeOK, Said, RelayInArray
  <2> QED
    BY <1>1, <1>2, <2>4 DEF ArrayInv
<1>5. CASE Recv
  <2> DEFINE c == owner[netFdArr[i]]
             n == Min({RecvMax, said[c] - heard[c]})
  <2>1. /\ heard[c] < said[c] /\ server' = "relay" /\ j' = 0
        /\ buf' = [k \in 1..n |-> <<c, heard[c] + k>>]
        /\ heard' = [heard EXCEPT ![c] = heard[c] + n]
        /\ server = "scan" /\ i < curConn /\ UNCHANGED <<rdSet, i, left, out>>
    BY <1>5 DEF Recv, AtReady, clientVars
  <2>2. c \in Clients
    BY <1>1, <1>3, <1>t, <2>1, SlotIsOpen
  <2> HIDE DEF c
  <2>3. said[c] \in Nat /\ heard[c] \in Nat /\ RecvMax \in Nat \ {0}
    BY <1>t, <2>2, ChatRelayAssumption DEF TypeOK
  <2>4. n \in Nat /\ n <= said[c] - heard[c]
    <3> DEFINE S == {RecvMax, said[c] - heard[c]}
    <3>1. S \subseteq Nat /\ S # {}
      BY <2>1, <2>3
    <3>2. n \in S
      BY <3>1, LeastElement
    <3>3. \A m \in S : n <= m
      <4>1. \E x \in S : \A m \in S : x <= m
        BY <2>1, <2>3
      <4> QED
        BY <4>1 DEF Min
    <3> QED
      BY <3>1, <3>2, <3>3
  <2> HIDE DEF n
  <2>5. buf' \in Seq(Said)
    <3>1. \A k \in 1..n : heard[c] + k \in 1..said[c]
      BY <2>3, <2>4
    <3>2. \A k \in 1..n : <<c, heard[c] + k>> \in Said
      BY <2>2, <3>1 DEF Said
    <3> QED
      BY <2>1, <2>4, <3>2
  <2>6. heard' \in [Clients -> Nat] /\ \A d \in Clients : heard'[d] <= said[d]
    BY <1>t, <2>1, <2>2, <2>3, <2>4 DEF TypeOK
  <2>7. TypeOK'
    <3>1. Said' = Said /\ 0 \in Slots
      BY <1>1, <1>3 DEF Said, Slots
    <3> QED
      BY <1>1, <1>t, <2>1, <2>5, <2>6, <3>1 DEF TypeOK
  <2>8. RelayInArray'
    BY <1>1, <1>3, <2>1 DEF RelayInArray
  <2> QED
    BY <1>1, <1>2, <2>7, <2>8 DEF ArrayInv
<1>6. CASE RelaySelf \/ Relay \/ RelayFails
  <2>1. server = "relay" /\ i < curConn /\ j < curConn /\ UNCHANGED <<rdSet, heard>>
    BY <1>6, <1>t DEF RelaySelf, Relay, RelayFails, RelayInArray
  <2>2. /\ i' \in Slots /\ j' \in Slots /\ buf' \in Seq(Said)
        /\ server' \in {"relay", "scan", "killed"}
        /\ server' = "relay" => i' < curConn /\ j' < curConn
    <3>1. i + 1 \in Slots /\ j + 1 \in Slots /\ 0 \in Slots /\ <<>> \in Seq(Said)
      BY <1>3, <2>1 DEF Slots
    <3>2. Advance \/ (server' = "killed" /\ UNCHANGED <<i, j, buf>>)
      BY <1>6 DEF RelaySelf, Relay, RelayFails
    <3> QED
      BY <1>t, <2>1, <3>1, <3>2 DEF Advance, TypeOK
  <2>3. out' \in [Clients -> Seq(Said)]
    <3>1. CASE Relay
      <4>1. PICK c : out' = [out EXCEPT ![c] = out[c] \o buf]
        BY <3>1 DEF Relay, RelayTo
      <4>2. c \in Clients => out[c] \o buf \in Seq(Said)
        BY <1>t, ConcatProperties DEF TypeOK
      <4> QED
        BY <1>t, <4>1, <4>2 DEF TypeOK
    <3>2. CASE RelaySelf \/ RelayFails
      BY <1>t, <3>2 DEF RelaySelf, RelayFails, TypeOK
    <3> QED
      BY <1>6, <3>1, <3>2
  <2>4. left' \in [Clients -> {"no", "fin", "rst"}]
    BY <1>6, <1>t DEF RelaySelf, Relay, RelayFails, TypeOK, clientVars
  <2>5. TypeOK' /\ RelayInArray'
    BY <1>1, <1>t, <2>1, <2>2, <2>3, <2>4 DEF TypeOK, Said, RelayInArray
  <2> QED
    BY <1>1, <1>2, <2>5 DEF ArrayInv
<1> QED
  BY <1>4, <1>5, <1>6

(* select fails: everything is closed. *)
LEMMA ArrayFails ==
  ASSUME ArrayInv, ArrivalReal', UNCHANGED fdLimit, SelectFails
  PROVE  ArrayInv'
<1>1. /\ server' = "closed"
      /\ UNCHANGED <<netFdArr, curConn, maxConn, monitorSet, rdSet, i, j, buf, said, left,
                     heard, out, orderly>>
      /\ owner' = [fd \in Fds |-> NoClient]
      /\ conn' = [c \in Clients |-> IF conn[c] = "idle" THEN "idle" ELSE "closed"]
  BY DEF SelectFails, arrayVars, loopVars, clientVars
<1>2. TypeOK'
  BY <1>1 DEF ArrayInv, TypeOK, Said
<1>3. ArrayIsOpen' /\ SetMatchesArray' /\ RelayInArray' /\ OwnersDiffer'
  BY <1>1 DEF ArrayIsOpen, SetMatchesArray, RelayInArray, OwnersDiffer, Running
<1> QED
  BY <1>1, <1>2, <1>3 DEF ArrayInv

(* A connection gets the least free descriptor and the next slot. *)
LEMMA ArrayAccepts ==
  ASSUME ArrayInv, ArrivalReal', UNCHANGED fdLimit, Accept
  PROVE  ArrayInv'
<1>t. TypeOK /\ ArrayIsOpen /\ OwnersDiffer /\ SetMatchesArray /\ RelayInArray
      /\ curConn <= maxConn /\ maxConn >= 1
  BY DEF ArrayInv
<1> DEFINE fd == Min({f \in Fds : owner[f] = NoClient})
<1>1. /\ server = "accept" /\ Running /\ server' = "scan" /\ Running'
      /\ maxConn' = Grown
      /\ curConn' = curConn + 1
      /\ netFdArr' = [netFdArr EXCEPT ![curConn] = fd]
      /\ monitorSet' = monitorSet \cup {fd}
      /\ UNCHANGED <<rdSet, i, j, buf, said, left, heard, out, orderly>>
  BY DEF Accept, Running, loopVars, clientVars
<1>2. PICK c \in Clients : /\ conn[c] = "backlog"
                           /\ conn' = [conn EXCEPT ![c] = "open"]
                           /\ owner' = [owner EXCEPT ![fd] = c]
  BY DEF Accept
<1>3. curConn + 1 <= Cardinality(Clients) /\ \E f \in Fds : owner[f] = NoClient
  BY <1>1, <1>2, <1>t, RoomForOneMore
<1>4. fd \in Fds /\ owner[fd] = NoClient
  <2> DEFINE S == {f \in Fds : owner[f] = NoClient}
  <2>1. S \in SUBSET Nat /\ S # {}
    BY <1>3, ClientsCounted
  <2>2. Min(S) \in S
    BY <2>1, LeastElement
  <2> QED
    BY <2>2
<1> HIDE DEF fd
<1>5. curConn \in Nat /\ curConn \in Slots /\ curConn + 1 \in 0..Cardinality(Clients)
      /\ maxConn \in Nat /\ c # NoClient
  BY <1>3, <1>t, ClientsCounted, ChatRelayAssumption DEF TypeOK, Slots
<1>6. TypeOK'
  <2>1. maxConn' \in Nat
    BY <1>1, <1>5 DEF Grown
  <2>2. netFdArr' \in [Slots -> Fds \cup {Listen, Error}] /\ monitorSet' \subseteq Fds \cup {Listen}
    BY <1>1, <1>4, <1>t DEF TypeOK
  <2>3. owner' \in [Fds -> Clients \cup {NoClient}]
        /\ conn' \in [Clients -> {"idle", "backlog", "open", "closed"}]
    BY <1>2, <1>t DEF TypeOK
  <2> QED
    BY <1>1, <1>5, <1>t, <2>1, <2>2, <2>3 DEF TypeOK, Said
<1>7. curConn' <= maxConn' /\ maxConn' >= 1
  BY <1>1, <1>5, <1>t DEF Full, Grown
<1>8. \A f \in Fds : owner'[f] = IF f = fd THEN c ELSE owner[f]
  BY <1>2, <1>t DEF TypeOK
<1>9. \A d \in Clients : conn'[d] = "open" <=> conn[d] = "open" \/ d = c
  BY <1>2, <1>t DEF TypeOK
<1>10. /\ \A k \in 0..curConn - 1 : netFdArr'[k] = netFdArr[k] /\ netFdArr[k] # fd
       /\ netFdArr'[curConn] = fd
  <2>1. \A k \in 0..curConn - 1 : k \in Slots /\ k # curConn
    BY <1>3, <1>5, ClientsCounted DEF Slots
  <2>2. \A k \in 0..curConn - 1 : netFdArr[k] \in OpenFds
    BY <1>1, <1>t DEF ArrayIsOpen, Array
  <2> QED
    BY <1>1, <1>4, <1>5, <1>t, <2>1, <2>2 DEF OpenFds, TypeOK
<1>11. Array' = Array \cup {fd} /\ OpenFds' = OpenFds \cup {fd}
  <2>1. 0..curConn' - 1 = (0..curConn - 1) \cup {curConn}
    BY <1>1, <1>5
  <2> QED
    BY <1>4, <1>5, <1>8, <1>10, <2>1 DEF Array, OpenFds
<1>12. \A f \in Fds : owner[f] # c
  <2>1. \A f \in OpenFds : owner[f] # c
    BY <1>1, <1>2, <1>t DEF ArrayIsOpen
  <2> QED
    BY <1>5, <2>1 DEF OpenFds
<1>13. OwnersDiffer'
  BY <1>4, <1>8, <1>12, <1>t DEF OwnersDiffer
<1>14. ArrayIsOpen'
  <2>1. ASSUME NEW k \in 0..curConn, NEW l \in 0..curConn, k # l
        PROVE  netFdArr'[k] # netFdArr'[l]
    <3>1. (k \in 0..curConn - 1 \/ k = curConn) /\ (l \in 0..curConn - 1 \/ l = curConn)
      BY <1>5
    <3> QED
      BY <1>1, <1>10, <1>t, <2>1, <3>1 DEF ArrayIsOpen
  <2>2. {owner'[f] : f \in OpenFds'} = {d \in Clients : conn'[d] = "open"}
    <3>1. {owner'[f] : f \in OpenFds'} = {owner[f] : f \in OpenFds} \cup {c}
      BY <1>4, <1>8, <1>11 DEF OpenFds
    <3> QED
      BY <1>1, <1>9, <1>t, <3>1 DEF ArrayIsOpen
  <2>3. curConn' - 1 = curConn
    BY <1>1, <1>5
  <2> QED
    BY <1>1, <1>11, <1>t, <2>1, <2>2, <2>3 DEF ArrayIsOpen
<1>15. SetMatchesArray' /\ RelayInArray'
  BY <1>1, <1>11, <1>t DEF SetMatchesArray, RelayInArray
<1> QED
  BY <1>6, <1>7, <1>13, <1>14, <1>15 DEF ArrayInv

(* There is no descriptor or no memory for a connection: only the slot     *)
(* behind the array and its capacity change.                               *)
LEMMA ArrayRefuses ==
  ASSUME ArrayInv, ArrivalReal', UNCHANGED fdLimit, AcceptFails \/ ReallocFails
  PROVE  ArrayInv'
<1>t. TypeOK /\ ArrayIsOpen /\ OwnersDiffer /\ SetMatchesArray
      /\ curConn <= maxConn /\ maxConn >= 1
  BY DEF ArrayInv
<1>1. /\ Running /\ server' \in {"select", "crashed"} /\ rdSet' \subseteq rdSet
      /\ maxConn' = Grown
      /\ netFdArr' \in {netFdArr, [netFdArr EXCEPT ![curConn] = Error]}
      /\ UNCHANGED <<curConn, monitorSet, i, j, buf, owner, conn, said, left, heard, out, orderly>>
  BY DEF AcceptFails, ReallocFails, Running, loopVars, clientVars
<1>2. curConn \in Nat /\ maxConn \in Nat /\ maxConn' \in Nat /\ maxConn' >= maxConn
  BY <1>1, <1>t, ClientsCounted DEF TypeOK, Grown
<1>3. TypeOK'
  <2>1. netFdArr' \in [Slots -> Fds \cup {Listen, Error}]
    BY <1>1, <1>t DEF TypeOK
  <2> QED
    BY <1>1, <1>2, <1>t, <2>1 DEF TypeOK, Said
<1>4. \A k \in 0..curConn - 1 : netFdArr'[k] = netFdArr[k]
  <2>1. \A k \in 0..curConn - 1 : k \in Slots /\ k # curConn
    BY <1>2, <1>t, ClientsCounted DEF TypeOK, Slots
  <2> QED
    BY <1>1, <1>t, <2>1 DEF TypeOK
<1>5. Array' = Array /\ OpenFds' = OpenFds
  BY <1>1, <1>4 DEF Array, OpenFds
<1>6. ArrayIsOpen'
  BY <1>1, <1>4, <1>5, <1>t DEF ArrayIsOpen
<1>7. SetMatchesArray' /\ OwnersDiffer' /\ RelayInArray'
  BY <1>1, <1>5, <1>t DEF SetMatchesArray, OwnersDiffer, RelayInArray
<1> QED
  BY <1>1, <1>2, <1>3, <1>6, <1>7, <1>t DEF ArrayInv

(* The slot of a client that leaves is filled by moving up those behind    *)
(* it; the set agrees if there are none.                                   *)
LEMMA ArrayDisconnects ==
  ASSUME ArrayInv, ArrivalReal', UNCHANGED fdLimit, Disconnect
  PROVE  ArrayInv'
<1>t. TypeOK /\ ArrayIsOpen /\ OwnersDiffer /\ SetMatchesArray /\ RelayInArray
      /\ curConn <= maxConn /\ maxConn >= 1
  BY DEF ArrayInv
<1> DEFINE fd == netFdArr[i]
           c == owner[fd]
<1>1. /\ server = "scan" /\ Running /\ server' = "scan" /\ Running' /\ i < curConn
      /\ owner' = [owner EXCEPT ![fd] = NoClient]
      /\ conn' = [conn EXCEPT ![c] = "closed"]
      /\ netFdArr' = Compacted
      /\ curConn' = curConn - 1
      /\ monitorSet' = monitorSet \ {netFdArr'[i]}
      /\ orderly' = (orderly /\ i = curConn - 1)
      /\ i' = i + 1
      /\ UNCHANGED <<maxConn, rdSet, j, buf, said, left, heard, out>>
  BY DEF Disconnect, AtReady, Running, clientVars, Cleared
<1>2. /\ curConn \in Nat \ {0} /\ i \in 0..curConn - 1 /\ maxConn \in Nat
      /\ Cardinality(Clients) \in Nat /\ curConn <= Cardinality(Clients)
      /\ curConn \in Slots /\ 0..curConn - 1 \subseteq Slots
  BY <1>1, <1>t, ClientsCounted DEF TypeOK, Slots
<1>3. fd \in Fds /\ fd \in OpenFds /\ c \in Clients /\ conn[c] = "open" /\ c # NoClient
  <2>1. fd \in Fds /\ c \in Clients /\ conn[c] = "open"
    BY <1>1, <1>2, <1>t, SlotIsOpen
  <2> QED
    BY <2>1, ChatRelayAssumption DEF OpenFds
<1>4. \A k \in 0..curConn - 2 :
        /\ k \in 0..curConn - 1 /\ k + 1 \in 0..curConn - 1
        /\ netFdArr'[k] = IF k >= i THEN netFdArr[k + 1] ELSE netFdArr[k]
  <2>1. ASSUME NEW k \in 0..curConn - 2
        PROVE  /\ k \in 0..curConn - 1 /\ k + 1 \in 0..curConn - 1 /\ k \in Slots
               /\ (k \in i..curConn - 2 <=> k >= i)
    BY <1>2
  <2> QED
    BY <1>1, <2>1 DEF Compacted
<1> HIDE DEF fd, c
<1>5. TypeOK'
  <2>1. netFdArr' \in [Slots -> Fds \cup {Listen, Error}]
    <3>1. \A k \in Slots : k \in i..curConn - 2 => k + 1 \in Slots
      BY <1>2 DEF Slots
    <3> QED
      BY <1>1, <1>t, <3>1 DEF Compacted, TypeOK
  <2>2. curConn' \in 0..Cardinality(Clients) /\ i' \in Slots
    BY <1>1, <1>2 DEF Slots
  <2>3. owner' \in [Fds -> Clients \cup {NoClient}]
        /\ conn' \in [Clients -> {"idle", "backlog", "open", "closed"}]
    BY <1>1, <1>t DEF TypeOK
  <2>4. monitorSet' \subseteq Fds \cup {Listen} /\ Said' = Said
    BY <1>1, <1>t DEF TypeOK, Said
  <2> QED
    BY <1>1, <1>t, <2>1, <2>2, <2>3, <2>4 DEF TypeOK
<1>6. curConn' <= maxConn' /\ maxConn' >= 1
  BY <1>1, <1>2, <1>t
<1>7. \A f \in Fds : owner'[f] = IF f = fd THEN NoClient ELSE owner[f]
  BY <1>1, <1>t DEF TypeOK
<1>8. \A d \in Clients : conn'[d] = "open" <=> conn[d] = "open" /\ d # c
  BY <1>1, <1>t DEF TypeOK
<1>9. OwnersDiffer'
  BY <1>7, <1>t DEF OwnersDiffer
<1>10. \A k, l \in 0..curConn - 1 : k # l => netFdArr[k] # netFdArr[l]
  BY <1>1, <1>t DEF ArrayIsOpen
<1>11. OpenFds' = OpenFds \ {fd}
  BY <1>7 DEF OpenFds
<1>12. Array' = Array \ {fd}
  <2>1. ASSUME NEW k \in 0..curConn - 2 PROVE netFdArr'[k] \in Array \ {fd}
    <3>1. CASE k >= i
      <4>1. netFdArr'[k] = netFdArr[k + 1] /\ k + 1 # i /\ k + 1 \in 0..curConn - 1
        BY <1>2, <1>4, <3>1
      <4> QED
        BY <1>2, <1>10, <4>1 DEF Array, fd
    <3>2. CASE ~(k >= i)
      <4>1. netFdArr'[k] = netFdArr[k] /\ k # i /\ k \in 0..curConn - 1
        BY <1>2, <1>4, <3>2
      <4> QED
        BY <1>2, <1>10, <4>1 DEF Array, fd
    <3> QED
      BY <3>1, <3>2
  <2>2. ASSUME NEW k \in 0..curConn - 1, netFdArr[k] # fd
        PROVE  \E l \in 0..curConn - 2 : netFdArr'[l] = netFdArr[k]
    <3>1. k # i
      BY <2>2 DEF fd
    <3>2. CASE k < i
      <4>1. k \in 0..curConn - 2 /\ ~(k >= i)
        BY <1>2, <3>2
      <4> QED
        BY <1>4, <4>1
    <3>3. CASE k > i
      <4>1. k - 1 \in 0..curConn - 2 /\ k - 1 >= i /\ (k - 1) + 1 = k
        BY <1>2, <3>3
      <4>2. netFdArr'[k - 1] = netFdArr[k]
        BY <1>4, <4>1
      <4> QED
        BY <4>1, <4>2
    <3> QED
      BY <1>2, <3>1, <3>2, <3>3
  <2>3. 0..curConn' - 1 = 0..curConn - 2
    BY <1>1, <1>2
  <2>4. Array' = {netFdArr'[k] : k \in 0..curConn - 2}
    BY <2>3 DEF Array
  <2>5. Array' \subseteq Array \ {fd}
    BY <2>1, <2>4
  <2>6. Array \ {fd} \subseteq Array'
    BY <2>2, <2>4 DEF Array
  <2> QED
    BY <2>5, <2>6
<1>13. ArrayIsOpen'
  <2>1. ASSUME NEW k \in 0..curConn - 2, NEW l \in 0..curConn - 2, k # l
        PROVE  netFdArr'[k] # netFdArr'[l]
    <3> DEFINE K == IF k >= i THEN k + 1 ELSE k
               L == IF l >= i THEN l + 1 ELSE l
    <3>1. K \in 0..curConn - 1 /\ L \in 0..curConn - 1 /\ K # L
      BY <1>2, <1>4, <2>1
    <3>2. netFdArr'[k] = netFdArr[K] /\ netFdArr'[l] = netFdArr[L]
      BY <1>4
    <3> QED
      BY <1>10, <3>1, <3>2
  <2>2. {owner'[f] : f \in OpenFds'} = {d \in Clients : conn'[d] = "open"}
    <3>1. {owner[f] : f \in OpenFds} = {d \in Clients : conn[d] = "open"}
      BY <1>1, <1>t DEF ArrayIsOpen
    <3>2. \A f \in OpenFds : owner[f] = c => f = fd
      BY <1>3, <1>t DEF OwnersDiffer, OpenFds, c
    <3>3. \A f \in OpenFds' : f \in OpenFds /\ f # fd /\ owner'[f] = owner[f]
      BY <1>7, <1>11 DEF OpenFds
    <3>4. {owner'[f] : f \in OpenFds'} = {owner[f] : f \in OpenFds \ {fd}}
      BY <1>11, <3>3
    <3>5. {owner[f] : f \in OpenFds \ {fd}} = {d \in Clients : conn[d] = "open"} \ {c}
      BY <1>3, <3>1, <3>2 DEF c
    <3> QED
      BY <1>8, <3>4, <3>5
  <2>3. 0..curConn' - 1 = 0..curConn - 2
    BY <1>1, <1>2
  <2> QED
    BY <1>1, <1>11, <1>12, <1>t, <2>1, <2>2, <2>3 DEF ArrayIsOpen
<1>14. SetMatchesArray'
  <2>1. ASSUME orderly' PROVE monitorSet' = Array' \cup {Listen}
    <3>1. orderly /\ i = curConn - 1
      BY <1>1, <2>1
    <3>2. netFdArr'[i] = fd
      <4>1. i \in Slots /\ i \notin i..curConn - 2
        BY <1>2, <3>1
      <4> QED
        BY <1>1, <4>1 DEF Compacted, fd
    <3>3. fd # Listen
      BY <1>3, ClientsCounted
    <3> QED
      BY <1>1, <1>12, <1>t, <3>1, <3>2, <3>3 DEF SetMatchesArray
  <2> QED
    BY <2>1 DEF SetMatchesArray
<1>15. RelayInArray'
  BY <1>1 DEF RelayInArray
<1> QED
  BY <1>5, <1>6, <1>9, <1>13, <1>14, <1>15 DEF ArrayInv

(* The array stays what it should be. *)
THEOREM ArrayInductive == Spec => []ArrayInv
<1>1. ArrayInv /\ UNCHANGED vars => ArrayInv'
  BY DEF vars, arrayVars, loopVars, clientVars, ArrayInv, TypeOK, Said, ArrayIsOpen,
         OwnersDiffer, SetMatchesArray, RelayInArray, ArrivalReal, Arrived, Array, OpenFds,
         Running
<1>2. ArrayInv /\ [Next]_vars => ArrayInv'
  BY <1>1, ArrivalKept, ArrayClients, ArrayLoops, ArrayFails, ArrayAccepts, ArrayRefuses,
     ArrayDisconnects DEF Next, ServerStep
<1> QED
  BY <1>2, InitArray, PTL DEF Spec

(* The array holds exactly the open connections, each once and within what *)
(* was allocated, in every reachable state of a relay for any number of    *)
(* clients (server_reconnect.c lines 15-25 and 98-135).                    *)
THEOREM ArrayIsIntact == Spec => []ArrayIntact
<1>1. ArrayInv => ArrayIntact
  BY DEF ArrayInv, ArrayIntact
<1> QED
  BY <1>1, ArrayInductive, PTL

(* select fails only if the set watches something that was closed. *)
THEOREM StopIsExplained == Spec => []StopExplained
<1>1. Init => StopExplained
  BY DEF Init, StopExplained
<1>2. ArrayInv /\ StopExplained /\ [Next]_vars => StopExplained'
  <2> SUFFICES ASSUME ArrayInv, StopExplained, [Next]_vars PROVE StopExplained'
    OBVIOUS
  <2>t. TypeOK /\ ArrayIsOpen /\ SetMatchesArray /\ RelayInArray
    BY DEF ArrayInv
  <2>1. CASE ~Running
    <3>1. UNCHANGED <<server, curConn, maxConn, conn, left, orderly>>
      BY <2>1 DEF Running, Next, ServerStep, ClientStep, Connect, Say, Leave, Select,
         SelectFails, Accept, AcceptFails, ReallocFails, NoAccept, Skip, ScanDone, Recv, Disconnect, AtReady, RelaySelf,
         Relay, RelayFails, vars, arrayVars, clientVars
    <3> QED
      BY <3>1 DEF StopExplained, Arrived
  <2>2. CASE SelectFails
    <3>1. Running /\ server' = "closed" /\ orderly' = orderly
          /\ ~(Watched \subseteq OpenFds \cup {Listen})
      BY <2>2 DEF SelectFails, Running
    <3>2. ~orderly
      BY <2>t, <3>1 DEF SetMatchesArray, ArrayIsOpen, Watched
    <3> QED
      BY <3>1, <3>2 DEF StopExplained
  <2>3. CASE RelayFails
    <3>1. server = "relay" /\ Running /\ left[owner[netFdArr[j]]] = "rst"
          /\ UNCHANGED <<conn, left>> /\ server' \notin {"closed", "crashed"}
      BY <2>3 DEF RelayFails, Running, Advance, clientVars
    <3>2. j \in 0..curConn - 1
      BY <2>t, <3>1, ClientsCounted DEF RelayInArray, TypeOK, Slots
    <3> QED
      BY <2>t, <3>1, <3>2, SlotIsOpen DEF StopExplained
  <2>4. CASE ReallocFails
    <3>1. /\ server = "accept" /\ Listen \in rdSet /\ server' = "crashed"
          /\ UNCHANGED <<conn, curConn>> /\ Full /\ maxConn' = Grown
      BY <2>4 DEF ReallocFails
    <3>2. maxConn' = 2 * curConn'
      <4>1. curConn \in Nat /\ maxConn \in Nat /\ curConn <= maxConn
        BY <2>t, ClientsCounted DEF ArrayInv, TypeOK
      <4> QED
        BY <3>1, <4>1 DEF Full, Grown
    <3> QED
      BY <3>1, <3>2 DEF ArrayInv, ArrivalReal, Arrived, StopExplained
  <2>5. CASE Running /\ ~SelectFails /\ ~RelayFails /\ ~ReallocFails
    <3>1. server' \notin {"closed", "killed", "crashed"}
      BY <2>5 DEF Running, Next, ServerStep, ClientStep, Connect, Say, Leave, Select,
         Accept, AcceptFails, NoAccept, Skip, ScanDone, Recv, Disconnect, RelaySelf,
         Relay, Advance, vars, clientVars
    <3> QED
      BY <3>1 DEF StopExplained
  <2> QED
    BY <2>1, <2>2, <2>3, <2>4, <2>5
<1> QED
  BY <1>1, <1>2, ArrayInductive, PTL DEF Spec

-----------------------------------------------------------------------------
(* The inductive invariant of the relay.                                   *)

(* The units of each speaker in s are consecutive; the last one of d is a. *)
Contiguous(s) ==
  \A k, l \in 1..Len(s) : NextOf(s, k, l) => s[l][2] = s[k][2] + 1
EndsAt(s, d, a) ==
  \A k \in 1..Len(s) : LastOf(s, k) /\ s[k][1] = d => s[k][2] = a

Speaker == owner[netFdArr[i]]
(* c is still to be sent the buffer, if it is not the speaker. *)
Pending(c) == server = "relay" /\ \E k \in j..curConn - 1 : owner[netFdArr[k]] = c
UpTo(c, d) == IF Pending(c) /\ d = Speaker THEN heard[d] - Len(buf) ELSE heard[d]

(* The buffer holds the last that was heard of the speaker. *)
Buffered ==
  server = "relay" =>
    /\ Len(buf) <= heard[Speaker]
    /\ \A k \in 1..Len(buf) : buf[k] = <<Speaker, heard[Speaker] - Len(buf) + k>>

RelayInv ==
  /\ Buffered
  /\ \A c \in Clients :
       /\ conn[c] \in {"idle", "backlog"} => out[c] = <<>>
       /\ \A k \in 1..Len(out[c]) : out[c][k][1] # c
       /\ Contiguous(out[c])
       /\ conn[c] = "open" /\ left[c] # "rst" /\ server # "killed" =>
            \A d \in Clients : EndsAt(out[c], d, UpTo(c, d))

(* A run of units of one speaker at the end of a sequence. *)
LEMMA RunAppended ==
  ASSUME NEW M, NEW s \in Seq(M), NEW t \in Seq(M), NEW d, NEW a \in Nat,
         \A k \in 1..Len(t) : t[k] = <<d, a + k>>,
         Contiguous(s), EndsAt(s, d, a)
  PROVE  /\ Contiguous(s \o t)
         /\ EndsAt(s \o t, d, a + Len(t))
         /\ \A e, b : e # d /\ EndsAt(s, e, b) => EndsAt(s \o t, e, b)
<1> DEFINE u == s \o t
<1>1. Len(s) \in Nat /\ Len(t) \in Nat
  BY LenProperties
<1>2. Len(u) = Len(s) + Len(t)
      /\ \A k \in 1..Len(s) + Len(t) : u[k] = IF k <= Len(s) THEN s[k] ELSE t[k - Len(s)]
  BY ConcatProperties
<1> HIDE DEF u
<1>3. PICK m \in Nat, n \in Nat : m = Len(s) /\ n = Len(t) /\ Len(u) = m + n
  BY <1>1, <1>2
<1>4. \A k \in 1..m : u[k] = s[k] /\ k \in 1..m + n
  BY <1>1, <1>2, <1>3
<1>5. \A k \in m + 1..m + n : u[k] = <<d, a + (k - m)>>
  <2>1. ASSUME NEW k \in m + 1..m + n PROVE u[k] = <<d, a + (k - m)>>
    <3>1. k \in 1..m + n /\ ~(k <= m) /\ k - m \in 1..n
      BY <1>3
    <3> QED
      BY <1>2, <1>3, <3>1
  <2> QED
    BY <2>1
<1>6. Contiguous(u)
  <2> SUFFICES ASSUME NEW k \in 1..m + n, NEW l \in 1..m + n, NextOf(u, k, l)
               PROVE  u[l][2] = u[k][2] + 1
    BY <1>3 DEF Contiguous
  <2>1. k < l /\ u[l][1] = u[k][1] /\ \A x \in k + 1..l - 1 : u[x][1] # u[k][1]
    BY DEF NextOf
  <2>2. CASE l <= m
    <3>1. k \in 1..m /\ l \in 1..m
      BY <2>1, <2>2
    <3>2. \A x \in k + 1..l - 1 : x \in 1..m
      BY <3>1
    <3>3. NextOf(s, k, l)
      BY <1>4, <2>1, <3>1, <3>2 DEF NextOf
    <3> QED
      BY <1>3, <1>4, <3>1, <3>3 DEF Contiguous
  <2>3. CASE k <= m /\ l > m
    <3>1. k \in 1..m /\ l \in m + 1..m + n
      BY <2>3
    <3>2. u[l] = <<d, a + (l - m)>>
      BY <1>5, <3>1
    <3>3. s[k][1] = d
      BY <1>4, <2>1, <3>1, <3>2
    <3>4. l = m + 1
      <4>1. l # m + 1 => /\ m + 1 \in k + 1..l - 1
                         /\ m + 1 \in m + 1..m + n
        BY <3>1
      <4>2. l # m + 1 => u[m + 1][1] = d
        BY SMTT(30), <1>5, <4>1
      <4> QED
        BY <1>4, <2>1, <3>1, <3>3, <4>1, <4>2
    <3>5. LastOf(s, k)
      <4>1. \A x \in k + 1..m : x \in k + 1..l - 1 /\ x \in 1..m
        BY <3>1, <3>4
      <4> QED
        BY <1>3, <1>4, <2>1, <3>1, <4>1 DEF LastOf
    <3>6. s[k][2] = a
      BY <1>3, <3>1, <3>3, <3>5 DEF EndsAt
    <3> QED
      BY <1>4, <3>1, <3>2, <3>4, <3>6
  <2>4. CASE k > m
    <3>1. k \in m + 1..m + n /\ l \in m + 1..m + n /\ k + 1 \in m + 1..m + n
      BY <2>1, <2>4
    <3>2. u[k] = <<d, a + (k - m)>> /\ u[l] = <<d, a + (l - m)>>
          /\ u[k + 1][1] = d
      BY <1>5, <3>1
    <3>3. l = k + 1
      <4>1. l # k + 1 => k + 1 \in k + 1..l - 1
        BY <2>1, <3>1
      <4> QED
        BY <2>1, <3>2, <4>1
    <3> QED
      BY <3>1, <3>2, <3>3
  <2> QED
    BY <1>1, <1>3, <2>2, <2>3, <2>4
<1>7. EndsAt(u, d, a + n)
  <2> SUFFICES ASSUME NEW k \in 1..m + n, LastOf(u, k), u[k][1] = d
               PROVE  u[k][2] = a + n
    BY <1>3 DEF EndsAt
  <2>1. \A x \in k + 1..m + n : u[x][1] # d
    BY <1>3 DEF LastOf
  <2>2. CASE n = 0
    <3>1. k \in 1..m /\ \A x \in k + 1..m : x \in k + 1..m + n /\ x \in 1..m
      BY <2>2
    <3>2. LastOf(s, k) /\ s[k][1] = d
      BY <1>3, <1>4, <2>1, <3>1 DEF LastOf
    <3> QED
      BY <1>3, <1>4, <2>2, <3>1, <3>2 DEF EndsAt
  <2>3. CASE n # 0
    <3>1. m + n \in m + 1..m + n
      BY <2>3
    <3>2. u[m + n] = <<d, a + ((m + n) - m)>>
      BY <1>5, <3>1
    <3>3. k = m + n
      <4>1. k # m + n => m + n \in k + 1..m + n
        OBVIOUS
      <4> QED
        BY <2>1, <3>2, <4>1
    <3> QED
      BY <3>2, <3>3
  <2> QED
    BY <2>2, <2>3
<1>8. ASSUME NEW e, NEW b, e # d, EndsAt(s, e, b) PROVE EndsAt(u, e, b)
  <2> SUFFICES ASSUME NEW k \in 1..m + n, LastOf(u, k), u[k][1] = e
               PROVE  u[k][2] = b
    BY <1>3 DEF EndsAt
  <2>1. k \in 1..m
    <3>1. k \notin m + 1..m + n
      BY <1>5, <1>8
    <3> QED
      BY <3>1
  <2>2. \A x \in k + 1..m : x \in k + 1..m + n /\ x \in 1..m
    BY <2>1
  <2>3. LastOf(s, k) /\ s[k][1] = e
    BY <1>3, <1>4, <2>1, <2>2 DEF LastOf
  <2> QED
    BY <1>3, <1>4, <1>8, <2>1, <2>3 DEF EndsAt
<1> QED
  BY <1>3, <1>6, <1>7, <1>8 DEF u

(* Steps in which nothing is heard or sent. *)
LEMMA RelayQuiet ==
  ASSUME RelayInv, UNCHANGED <<out, heard>>,
         server = "killed" => server' = "killed",
         \A c \in Clients : left'[c] # "rst" => left[c] # "rst",
         \A c \in Clients : conn'[c] = "open" => conn[c] \in {"open", "backlog"},
         \A c \in Clients : conn'[c] \in {"idle", "backlog"} => conn[c] \in {"idle", "backlog"},
         \/ server # "relay" /\ server' # "relay"
         \/ UNCHANGED <<server, i, j, buf, curConn, netFdArr, owner>>
  PROVE  RelayInv'
<1>1. Buffered'
  BY DEF RelayInv, Buffered, Speaker
<1>2. \A c, d \in Clients : UpTo(c, d)' = UpTo(c, d)
  BY DEF UpTo, Pending, Speaker
<1>3. ASSUME NEW c \in Clients, conn'[c] = "open", left'[c] # "rst", server' # "killed",
             NEW d \in Clients
      PROVE  EndsAt(out[c], d, UpTo(c, d))
  <2>1. CASE conn[c] = "open"
    BY <1>3, <2>1 DEF RelayInv
  <2>2. CASE conn[c] = "backlog"
    BY <2>2 DEF RelayInv, EndsAt
  <2> QED
    BY <1>3, <2>1, <2>2
<1> QED
  BY <1>1, <1>2, <1>3 DEF RelayInv, EndsAt, Contiguous

(* What is received is the next the speaker said. *)
LEMMA RelayReceives == ASSUME ArrayInv, RelayInv, Recv PROVE RelayInv'
<1>t. TypeOK /\ ArrayIsOpen
  BY DEF ArrayInv
<1> DEFINE c == owner[netFdArr[i]]
           n == Min({RecvMax, said[c] - heard[c]})
<1>1. /\ server = "scan" /\ Running /\ i < curConn /\ heard[c] < said[c]
      /\ server' = "relay" /\ j' = 0
      /\ buf' = [k \in 1..n |-> <<c, heard[c] + k>>]
      /\ heard' = [heard EXCEPT ![c] = heard[c] + n]
      /\ UNCHANGED <<netFdArr, curConn, i, owner, conn, left, out>>
  BY DEF Recv, AtReady, Running, arrayVars, clientVars
<1>2. curConn \in Nat /\ i \in 0..curConn - 1
  BY <1>1, <1>t, ClientsCounted DEF TypeOK, Slots
<1>3. c \in Clients
  BY <1>1, <1>2, <1>t, SlotIsOpen
<1>4. Speaker' = c
  BY <1>1 DEF Speaker
<1> HIDE DEF c
<1>5. heard[c] \in Nat /\ said[c] \in Nat /\ RecvMax \in Nat
  BY <1>3, <1>t, ChatRelayAssumption DEF TypeOK
<1>6. n \in Nat
  <2>1. {RecvMax, said[c] - heard[c]} \in SUBSET Nat
    BY <1>1, <1>5
  <2> QED
    BY <2>1, LeastElement
<1> HIDE DEF n
<1>7. Len(buf') = n /\ heard'[c] = heard[c] + n /\ \A d \in Clients : d # c => heard'[d] = heard[d]
  BY <1>1, <1>3, <1>6, <1>t DEF TypeOK
<1>8. Buffered'
  <2>1. n <= heard'[c] /\ heard'[c] - n = heard[c]
    BY <1>5, <1>6, <1>7
  <2>2. \A k \in 1..n : buf'[k] = <<c, heard'[c] - n + k>>
    BY <1>1, <2>1
  <2> QED
    BY <1>4, <1>7, <2>1, <2>2 DEF Buffered
<1>9. ASSUME NEW d \in Clients, conn[d] = "open", NEW e \in Clients
      PROVE  UpTo(d, e)' = UpTo(d, e)
  <2>1. \E k \in 0..curConn - 1 : owner[netFdArr[k]] = d
    <3>1. \E f \in OpenFds : owner[f] = d
      BY <1>1, <1>9, <1>t DEF ArrayIsOpen
    <3> QED
      BY <1>1, <1>t, <3>1 DEF ArrayIsOpen, Array
  <2>2. Pending(d)' /\ ~Pending(d)
    BY <1>1, <2>1 DEF Pending
  <2>3. heard[e] \in Nat
    BY <1>t DEF TypeOK
  <2> QED
    BY <1>4, <1>5, <1>6, <1>7, <2>2, <2>3 DEF UpTo
<1>10. ASSUME NEW d \in Clients, conn'[d] = "open", left'[d] # "rst", NEW e \in Clients
       PROVE  EndsAt(out'[d], e, UpTo(d, e)')
  <2>1. EndsAt(out[d], e, UpTo(d, e))
    BY <1>1, <1>10 DEF RelayInv
  <2> QED
    BY <1>1, <1>9, <1>10, <2>1
<1> QED
  BY <1>1, <1>8, <1>10 DEF RelayInv

(* The buffer goes to one client after the other. *)
LEMMA AdvanceSends ==
  ASSUME ArrayInv, server = "relay", Advance,
         UNCHANGED <<netFdArr, curConn, owner, heard>>, Buffered
  PROVE  /\ server' \in {"relay", "scan"} /\ Buffered'
         /\ \A c \in Clients : Pending(c)' <=> Pending(c) /\ c # owner[netFdArr[j]]
         /\ Pending(owner[netFdArr[j]])
         /\ \A c, d \in Clients : UpTo(c, d)' =
              IF Pending(c)' /\ d = Speaker THEN heard[d] - Len(buf) ELSE heard[d]
<1>t. TypeOK /\ ArrayIsOpen /\ OwnersDiffer /\ RelayInArray
  BY DEF ArrayInv
<1>1. curConn \in Nat /\ j \in 0..curConn - 1 /\ Running
  BY <1>t, ClientsCounted DEF TypeOK, Slots, RelayInArray, Running
<1>2. \/ j + 1 < curConn /\ j' = j + 1 /\ UNCHANGED <<server, i, buf>>
      \/ j + 1 >= curConn /\ server' = "scan"
  BY DEF Advance
<1>3. \A k \in 0..curConn - 1 : netFdArr[k] \in Fds /\ owner[netFdArr[k]] \in Clients
  BY <1>1, <1>t, SlotIsOpen
<1>4. \A k, l \in 0..curConn - 1 : k # l => owner[netFdArr[k]] # owner[netFdArr[l]]
  BY <1>1, <1>3, <1>t, ChatRelayAssumption DEF ArrayIsOpen, OwnersDiffer
<1>5. ASSUME NEW c \in Clients PROVE Pending(c)' <=> Pending(c) /\ c # owner[netFdArr[j]]
  <2>1. CASE j + 1 < curConn /\ j' = j + 1 /\ UNCHANGED <<server, i, buf>>
    <3>1. \A k \in j + 1..curConn - 1 : k \in 0..curConn - 1 /\ k # j /\ k \in j..curConn - 1
      BY <1>1
    <3>2. \A k \in j..curConn - 1 : k = j \/ k \in j + 1..curConn - 1
      BY <1>1
    <3>3. Pending(c)' <=> \E k \in j + 1..curConn - 1 : owner[netFdArr[k]] = c
      BY <2>1 DEF Pending
    <3>4. Pending(c) <=> \E k \in j..curConn - 1 : owner[netFdArr[k]] = c
      BY DEF Pending
    <3> QED
      BY <1>1, <1>4, <3>1, <3>2, <3>3, <3>4
  <2>2. CASE j + 1 >= curConn /\ server' = "scan"
    <3>1. \A k \in j..curConn - 1 : k = j
      BY <1>1, <2>2
    <3> QED
      BY <2>2, <3>1 DEF Pending
  <2> QED
    BY <1>2, <2>1, <2>2
<1>6. Pending(owner[netFdArr[j]])
  BY <1>1 DEF Pending
<1>7. Buffered' /\ server' \in {"relay", "scan"}
  BY <1>2 DEF Buffered, Speaker
<1>8. \A c, d \in Clients : UpTo(c, d)' =
         IF Pending(c)' /\ d = Speaker THEN heard[d] - Len(buf) ELSE heard[d]
  <2>1. \A c \in Clients : Pending(c)' => UNCHANGED <<i, buf>>
    BY <1>2 DEF Pending
  <2> QED
    BY <2>1 DEF UpTo, Speaker
<1> QED
  BY <1>5, <1>6, <1>7, <1>8

(* A slot is passed over: that of the speaker, or one that was reset. *)
LEMMA RelaySkips ==
  ASSUME ArrayInv, RelayInv, RelaySelf \/ RelayFails
  PROVE  RelayInv'
<1>t. TypeOK /\ RelayInArray
  BY DEF ArrayInv
<1>1. server = "relay" /\ UNCHANGED <<netFdArr, curConn, owner, heard, conn, left, out>>
  BY DEF RelaySelf, RelayFails, arrayVars, clientVars
<1>2. CASE server' = "killed"
  BY <1>1, <1>2 DEF RelayInv, Buffered
<1>3. CASE Advance /\ server' # "killed"
  <2> DEFINE v == owner[netFdArr[j]]
  <2>1. /\ Buffered'
        /\ \A c \in Clients : Pending(c)' <=> Pending(c) /\ c # v
        /\ \A c, d \in Clients : UpTo(c, d)' =
             IF Pending(c)' /\ d = Speaker THEN heard[d] - Len(buf) ELSE heard[d]
    BY <1>1, <1>3, AdvanceSends DEF RelayInv
  <2>2. v = Speaker \/ left[v] = "rst"
    BY DEF RelaySelf, RelayFails, Speaker
  <2> HIDE DEF v
  <2>3. ASSUME NEW c \in Clients, conn'[c] = "open", left'[c] # "rst", NEW d \in Clients
        PROVE  EndsAt(out'[c], d, UpTo(c, d)')
    <3>1. EndsAt(out[c], d, UpTo(c, d))
      BY <1>1, <2>3 DEF RelayInv
    <3>2. CASE c = v /\ d = c
      BY <1>1, <3>2 DEF RelayInv, EndsAt
    <3>3. CASE ~(c = v /\ d = c)
      <4>1. UpTo(c, d)' = UpTo(c, d)
        BY <1>1, <2>1, <2>2, <2>3, <3>3 DEF UpTo
      <4> QED
        BY <1>1, <3>1, <4>1
    <3> QED
      BY <3>2, <3>3
  <2> QED
    BY <1>1, <2>1, <2>3 DEF RelayInv
<1> QED
  BY <1>2, <1>3 DEF RelaySelf, RelayFails

(* A client is sent what has just been heard, behind what it was sent. *)
LEMMA RelaySends == ASSUME ArrayInv, RelayInv, Relay PROVE RelayInv'
<1>t. TypeOK /\ ArrayIsOpen /\ OwnersDiffer /\ RelayInArray
  BY DEF ArrayInv
<1> DEFINE v == owner[netFdArr[j]]
<1>1. /\ server = "relay" /\ Running /\ j # i /\ left[v] # "rst" /\ Advance
      /\ out' = [out EXCEPT ![v] = out[v] \o buf]
      /\ UNCHANGED <<netFdArr, curConn, owner, heard, conn>>
  BY DEF Relay, RelayTo, Running, arrayVars
<1>2. curConn \in Nat /\ i \in 0..curConn - 1 /\ j \in 0..curConn - 1
  BY <1>1, <1>t, ClientsCounted DEF TypeOK, Slots, RelayInArray
<1>3. /\ v \in Clients /\ conn[v] = "open"
      /\ Speaker \in Clients /\ netFdArr[i] \in Fds /\ netFdArr[j] \in Fds
  BY <1>1, <1>2, <1>t, SlotIsOpen DEF Speaker
<1>4. v # Speaker
  <2>1. netFdArr[i] # netFdArr[j]
    BY <1>1, <1>2, <1>t DEF ArrayIsOpen
  <2> QED
    BY <1>3, <1>t, <2>1, ChatRelayAssumption DEF OwnersDiffer, Speaker
<1>5. /\ server' \in {"relay", "scan"} /\ Buffered'
      /\ \A c \in Clients : Pending(c)' <=> Pending(c) /\ c # v
      /\ Pending(v)
      /\ \A c, d \in Clients : UpTo(c, d)' =
           IF Pending(c)' /\ d = Speaker THEN heard[d] - Len(buf) ELSE heard[d]
  BY <1>1, AdvanceSends DEF RelayInv
<1> DEFINE a == heard[Speaker] - Len(buf)
<1>6. /\ Len(buf) \in Nat /\ heard[Speaker] \in Nat /\ a \in Nat
      /\ \A k \in 1..Len(buf) : buf[k] = <<Speaker, a + k>>
  <2>1. Len(buf) \in Nat /\ heard[Speaker] \in Nat
    BY <1>3, <1>t DEF TypeOK
  <2>2. Len(buf) <= heard[Speaker]
        /\ \A k \in 1..Len(buf) : buf[k] = <<Speaker, heard[Speaker] - Len(buf) + k>>
    BY <1>1 DEF RelayInv, Buffered
  <2> QED
    BY <2>1, <2>2
<1>7. a + Len(buf) = heard[Speaker]
  BY <1>6
<1>8. out[v] \in Seq(Said) /\ buf \in Seq(Said)
  BY <1>3, <1>t DEF TypeOK
<1>9. /\ Contiguous(out[v]) /\ \A d \in Clients : EndsAt(out[v], d, UpTo(v, d))
      /\ \A k \in 1..Len(out[v]) : out[v][k][1] # v
  BY <1>1, <1>3 DEF RelayInv
<1>10. EndsAt(out[v], Speaker, a) /\ \A d \in Clients : d # Speaker => EndsAt(out[v], d, heard[d])
  <2>1. UpTo(v, Speaker) = a /\ \A d \in Clients : d # Speaker => UpTo(v, d) = heard[d]
    BY <1>5 DEF UpTo
  <2> QED
    BY <1>3, <1>9, <2>1
<1>11. /\ out'[v] = out[v] \o buf
       /\ \A c \in Clients : c # v => out'[c] = out[c]
  BY <1>1, <1>3, <1>t DEF TypeOK
<1> HIDE DEF v, a
<1>12. /\ Contiguous(out[v] \o buf) /\ EndsAt(out[v] \o buf, Speaker, a + Len(buf))
       /\ \A d \in Clients : d # Speaker => EndsAt(out[v] \o buf, d, heard[d])
  BY <1>6, <1>8, <1>9, <1>10, RunAppended
<1>13. \A k \in 1..Len(out[v] \o buf) : (out[v] \o buf)[k][1] # v
  <2> SUFFICES ASSUME NEW k \in 1..Len(out[v]) + Len(buf)
               PROVE  (out[v] \o buf)[k][1] # v
    BY <1>8, ConcatProperties
  <2>1. (out[v] \o buf)[k] = IF k <= Len(out[v]) THEN out[v][k] ELSE buf[k - Len(out[v])]
    BY <1>8, ConcatProperties
  <2>2. Len(out[v]) \in Nat
    BY <1>8, LenProperties
  <2>3. CASE k <= Len(out[v])
    BY <1>9, <2>1, <2>2, <2>3
  <2>4. CASE ~(k <= Len(out[v]))
    <3>1. k - Len(out[v]) \in 1..Len(buf)
      BY <1>6, <2>2, <2>4
    <3> QED
      BY <1>4, <1>6, <2>1, <2>4, <3>1
  <2> QED
    BY <2>3, <2>4
<1>14. ASSUME NEW c \in Clients
       PROVE  /\ conn'[c] \in {"idle", "backlog"} => out'[c] = <<>>
              /\ \A k \in 1..Len(out'[c]) : out'[c][k][1] # c
              /\ Contiguous(out'[c])
  <2>1. CASE c = v
    BY <1>1, <1>3, <1>11, <1>12, <1>13, <2>1
  <2>2. CASE c # v
    BY <1>1, <1>11, <2>2 DEF RelayInv
  <2> QED
    BY <2>1, <2>2
<1>15. ASSUME NEW c \in Clients, conn'[c] = "open", left'[c] # "rst", NEW d \in Clients
       PROVE  EndsAt(out'[c], d, UpTo(c, d)')
  <2>1. CASE c = v
    <3>1. UpTo(c, d)' = heard[d]
      BY <1>5, <2>1
    <3> QED
      BY <1>7, <1>11, <1>12, <2>1, <3>1
  <2>2. CASE c # v
    <3>1. UpTo(c, d)' = UpTo(c, d)
      BY <1>5, <2>2 DEF UpTo
    <3>2. left[c] # "rst"
      <4>1. \E how \in {"fin", "rst"} : left' = [left EXCEPT ![v] = IF @ = "fin" THEN how ELSE @]
        BY DEF Relay, v
      <4> QED
        BY <1>15, <1>t, <2>2, <4>1 DEF TypeOK
    <3>3. EndsAt(out[c], d, UpTo(c, d))
      BY <1>1, <1>15, <3>2 DEF RelayInv
    <3> QED
      BY <1>11, <2>2, <3>1, <3>3
  <2> QED
    BY <2>1, <2>2
<1> QED
  BY <1>5, <1>14, <1>15 DEF RelayInv, Contiguous

(* What a client hears of another is in order, without gaps and complete,  *)
(* for any number of clients and however much is read at once              *)
(* (server_reconnect.c lines 119-133).                                     *)
THEOREM RelayIsIntact == Spec => []RelayIntact
<1>1. Init => RelayInv
  BY DEF Init, RelayInv, Buffered, Contiguous, EndsAt
<1>2. ArrayInv /\ RelayInv /\ [Next]_vars => RelayInv'
  <2> SUFFICES ASSUME ArrayInv, RelayInv, [Next]_vars PROVE RelayInv'
    OBVIOUS
  <2>1. CASE Select \/ NoAccept \/ Skip \/ ScanDone
    BY <2>1, RelayQuiet DEF Select, NoAccept, Skip, ScanDone, clientVars
  <2>2. CASE SelectFails \/ Disconnect
    <3>1. \A c \in Clients : conn'[c] # conn[c] => conn'[c] = "closed"
      BY <2>2 DEF SelectFails, Disconnect, ArrayInv, TypeOK
    <3>2. UNCHANGED <<out, heard, left>> /\ server \notin {"killed", "relay"} /\ server' # "relay"
      BY <2>2 DEF SelectFails, Disconnect, AtReady, clientVars
    <3> QED
      BY <3>1, <3>2, RelayQuiet
  <2>3. CASE Accept
    <3>1. \A c \in Clients : conn'[c] # conn[c] => conn'[c] = "open" /\ conn[c] = "backlog"
      BY <2>3 DEF Accept, ArrayInv, TypeOK
    <3>2. UNCHANGED <<out, heard, left>> /\ server = "accept" /\ server' = "scan"
      BY <2>3 DEF Accept, clientVars
    <3> QED
      BY <3>1, <3>2, RelayQuiet
  <2>4. CASE AcceptFails \/ ReallocFails
    <3>1. UNCHANGED <<out, heard, left, conn>> /\ server = "accept" /\ server' \in {"select", "crashed"}
      BY <2>4 DEF AcceptFails, ReallocFails, clientVars
    <3> QED
      BY <3>1, RelayQuiet
  <2>5. CASE ClientStep \/ UNCHANGED vars
    <3>1. /\ \A c \in Clients : conn'[c] # conn[c] => conn'[c] = "backlog" /\ conn[c] = "idle"
          /\ \A c \in Clients : left'[c] # "rst" => left[c] # "rst"
      BY <2>5 DEF ClientStep, Connect, Say, Leave, ArrayInv, TypeOK, vars, clientVars
    <3>2. UNCHANGED <<out, heard, server, i, j, buf, curConn, netFdArr, owner>>
      BY <2>5 DEF ClientStep, Connect, Say, Leave, vars, arrayVars, loopVars
    <3> QED
      BY <3>1, <3>2, RelayQuiet
  <2> QED
    BY <2>1, <2>2, <2>3, <2>4, <2>5, RelayReceives, RelaySkips, RelaySends DEF Next, ServerStep
<1>3. ArrayInv /\ RelayInv => RelayIntact
  <2> SUFFICES ASSUME ArrayInv, RelayInv, NEW c \in Clients
               PROVE  /\ \A k \in DOMAIN out[c] : out[c][k][1] # c
                      /\ \A k, l \in DOMAIN out[c] :
                           NextOf(out[c], k, l) => out[c][l][2] = out[c][k][2] + 1
                      /\ conn[c] = "open" /\ left[c] # "rst" /\ server \notin {"relay", "killed"} =>
                           \A k \in DOMAIN out[c] :
                             LastOf(out[c], k) => out[c][k][2] = heard[out[c][k][1]]
    BY DEF RelayIntact
  <2>1. DOMAIN out[c] = 1..Len(out[c]) /\ out[c] \in Seq(Said)
    BY LenProperties DEF ArrayInv, TypeOK
  <2>2. \A k \in DOMAIN out[c] : out[c][k][1] \in Clients
    <3>1. \A k \in DOMAIN out[c] : out[c][k] \in Said
      BY <2>1, ElementOfSeq
    <3> QED
      BY <3>1 DEF Said
  <2>3. server # "relay" => \A d \in Clients : UpTo(c, d) = heard[d]
    BY DEF UpTo, Pending
  <2> QED
    BY <2>1, <2>2, <2>3 DEF RelayInv, Contiguous, EndsAt
<1> QED
  BY <1>1, <1>2, <1>3, ArrayInductive, PTL DEF Spec
==============================================================================

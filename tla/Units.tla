-------------------------------- MODULE Units --------------------------------
(***************************************************************************)
(* What the chats pass on: sequences of units <<speaker, number>>.         *)
(***************************************************************************)
EXTENDS Integers, Sequences

(* The unit l of s is the next one after k of the same speaker. *)
NextOf(s, k, l) ==
  k < l /\ s[l][1] = s[k][1] /\ \A m \in k + 1..l - 1 : s[m][1] # s[k][1]

(* The unit k is the last one of its speaker. *)
LastOf(s, k) == \A m \in k + 1..Len(s) : s[m][1] # s[k][1]
=============================================================================

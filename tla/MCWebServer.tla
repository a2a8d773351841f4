----------------------------- MODULE MCWebServer -----------------------------
(* WebServer with a client that sends its request whole and reads its      *)
(* answers, and one that sends its requests in pieces of any size and      *)
(* reads slowly.  A recv takes two of the three cells of a request and the *)
(* buffer holds three, so a burst of two requests overflows it.  There are *)
(* a file "J", a directory, which is "./", a directory "d" with an entry   *)
(* that stat cannot read, and a file "f" and a directory "l" that cannot   *)
(* be read.                                                                *)
EXTENDS WebServer, TLC

CONSTANTS c1, c2

MCClients == {c1, c2}
MCPatient == {c1}
MCSlow == {c2}

MCDisk == (<<74>> :> "file") @@ (HereDir :> "dir") @@ (<<100>> :> "dangling")
          @@ (<<102>> :> "lockedFile") @@ (<<108>> :> "lockedDir")

Get(path) == [method |-> "GET", path |-> path]
(* "/%4a" and "/J", "/", "/%64", and "/%4", which is no escape.            *)
File == Get(<<47, 37, 52, 97>>)
PlainFile == Get(<<47, 74>>)
Dir == Get(Root)
Dangling == Get(<<47, 37, 54, 52>>)
LockedFile == Get(<<47, 102>>)
LockedDir == Get(<<47, 108>>)
Missing == Get(<<47, 37, 52>>)
Post == [File EXCEPT !.method = "POST"]

MCScripts ==
  (c1 :> {<<File>>}) @@
  (c2 :> {<<Dir>>, <<Post, PlainFile>>, <<Missing>>, <<Dangling>>, <<LockedFile>>, <<LockedDir>>})
MCMissing == [c \in MCClients |-> {<<Missing>>}]

(* Every string of up to five of: %, 0, 5, A, a, / and g. *)
MCUrls == UNION {[1..n -> {37, 48, 53, 65, 97, 47, 103}] : n \in 0..5}
MCNoUrls == {}
=============================================================================

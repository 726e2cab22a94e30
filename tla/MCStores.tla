------------------------------- MODULE MCStores -------------------------------
(* RefMap, Dict, PrefixTree and Ring for TLC: what a behaviour starts with, it stays with. *)
(* The ring has three nodes, which all have the id 6, and two of which have an id twice;   *)
(* each digest has as many words as the largest amount needs.                              *)
EXTENDS RefMap, Dict, PrefixTree, Ring

CONSTANTS s1, s2, s3, k1, k2, k3, k4, na, nb, nc

VARIABLES store

MaxSize == 6   \* bounds what Dict's size counts
SomeAmounts == {1, 2}
SomeHash == [k \in Key |-> IF k = k4 THEN 1 ELSE 0]
SomeTreeKeys == {<<1>>, <<2>>, <<1, 1>>, <<1, 2>>, <<2, 1>>, <<1, 2, 1>>}

\* A digest whose other words are not used.
Digest(a, b) == <<a, b>> \o [j \in 1..14 |-> 0]

SomeDigests ==
  na :> <<Digest(1, 6), Digest(3, 0), Digest(4, 0), Digest(8, 0), Digest(0, 0)>> @@
  nb :> <<Digest(6, 2), Digest(0, 0), Digest(7, 0), Digest(7, 0), Digest(0, 0)>> @@
  nc :> <<Digest(5, 9), Digest(6, 0), Digest(10, 0), Digest(9, 0), Digest(0, 0)>>

SomeStarts == {<<>>, <<na, nb>>, <<nc, nc>>}

storesVars == <<store, vars, dictVars, treeVars, ringVars>>

StoresInit ==
  /\ store \in {"refmap", "dict", "tree", "ring"}
  /\ Init /\ DictInit /\ TreeInit /\ RingInit
  /\ store # "refmap" => lastRef = 0
  /\ store # "ring" => buckets = <<>>

StoresNext ==
  \/ store = "refmap" /\ Next /\ UNCHANGED <<store, dictVars, treeVars, ringVars>>
  \/ store = "dict" /\ DictNext /\ size' <= MaxSize /\ UNCHANGED <<store, vars, treeVars, ringVars>>
  \/ store = "tree" /\ TreeNext /\ UNCHANGED <<store, vars, dictVars, ringVars>>
  \/ store = "ring" /\ RingNext /\ UNCHANGED <<store, vars, dictVars, treeVars>>

StoresSpec == StoresInit /\ [][StoresNext]_storesVars

Interchangeable == Permutations({s1, s2})
=============================================================================

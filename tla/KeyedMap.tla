------------------------------- MODULE KeyedMap -------------------------------
(***************************************************************************)
(* What structure.Dict promises, without buckets: a map whose Delete may   *)
(* take other keys with it, and a size that goes on counting those.        *)
(* A value that is in the map is always the last one that was set.         *)
(***************************************************************************)
EXTENDS Integers, FiniteSets

CONSTANTS Key, Val

VARIABLES
  map,     \* from keys to values
  leaked,  \* how many keys the size counts that are gone
  hung     \* a call does not return: the goroutine does nothing more

vars == <<map, leaked, hung>>

Init ==
  /\ map = [k \in {} |-> k]
  /\ leaked = 0
  /\ hung = FALSE

Put(k, v) ==
  /\ ~ hung
  /\ map' = [j \in DOMAIN map \cup {k} |-> IF j = k THEN v ELSE map[j]]
  /\ UNCHANGED <<leaked, hung>>

Remove(k) ==
  /\ ~ hung
  /\ k \in DOMAIN map
  /\ \E lost \in SUBSET (DOMAIN map \ {k}) :
       /\ map' = [j \in DOMAIN map \ (lost \cup {k}) |-> map[j]]
       /\ leaked' = leaked + Cardinality(lost)
  /\ UNCHANGED hung

\* Only a map with keys to search can make a Remove search for ever.
Hang ==
  /\ ~ hung
  /\ Cardinality(DOMAIN map) >= 2
  /\ hung' = TRUE
  /\ UNCHANGED <<map, leaked>>

Next ==
  \/ \E k \in Key, v \in Val : Put(k, v)
  \/ \E k \in Key : Remove(k)
  \/ Hang

Spec == Init /\ [][Next]_vars
=============================================================================

--------------------------------- MODULE Dict ---------------------------------
(***************************************************************************)
(* structure/dict.go: a hash table of buckets that are linked lists.  A    *)
(* Dict is used by one goroutine at a time; each method is a step.         *)
(*                                                                         *)
(* A bucket is the sequence of its nodes.  Delete is not what one expects  *)
(* of a table: it takes the whole bucket away when the key is the first in *)
(* it, and it compares the second node again and again when the key is     *)
(* neither the first nor the second.                                       *)
(***************************************************************************)
EXTENDS Integers, Sequences, FiniteSets

CONSTANTS
  Key,
  Val,
  Slots,  \* 0 to dictSize - 1
  Hash    \* siphash.Hash(d.k0, d.k1, key) % dictSize

ASSUME DictAssumption ==
  /\ Hash \in [Key -> Slots]
  /\ IsFiniteSet(Slots)

VARIABLES
  data,  \* the buckets, sequences of nodes
  size,
  hung   \* a Delete does not return

dictVars == <<data, size, hung>>

Node == [k : Key, v : Val]

\* NewDict
DictInit ==
  /\ data = [p \in Slots |-> <<>>]
  /\ size = 0
  /\ hung = FALSE

\* Where key is in its bucket: the nodes a search stops at.
Places(key) == {i \in 1..Len(data[Hash[key]]) : data[Hash[key]][i].k = key}

Stored == {key \in Key : Places(key) # {}}

\* Get: the value of the first node with the key.
Get(key) ==
  LET i == CHOOSE i \in Places(key) : \A j \in Places(key) : i <= j
  IN  data[Hash[key]][i].v

\* Slip: the walk of Set ends at the last node without looking at its key.
SetPastLast(key, v) ==
  /\ ~ hung
  /\ LET p == Hash[key]
         searched == {i \in Places(key) : i = 1 \/ i < Len(data[p])}
     IN  IF searched # {}
         THEN /\ \E i \in searched : data' = [data EXCEPT ![p][i].v = v]
              /\ UNCHANGED size
         ELSE /\ data' = [data EXCEPT ![p] = Append(@, [k |-> key, v |-> v])]
              /\ size' = size + 1
  /\ UNCHANGED hung

\* The first node with the key gets the value; without one a node is added at the end.
Set(key, v) ==
  /\ ~ hung
  /\ LET p == Hash[key]
     IN  IF Places(key) # {}
         THEN /\ \E i \in Places(key) :
                   /\ \A j \in Places(key) : i <= j
                   /\ data' = [data EXCEPT ![p][i].v = v]
              /\ UNCHANGED size
         ELSE /\ data' = [data EXCEPT ![p] = Append(@, [k |-> key, v |-> v])]
              /\ size' = size + 1
  /\ UNCHANGED hung

DeleteKey(key) ==
  LET bucket == data[Hash[key]]
  IN  /\ ~ hung
      /\ \/ /\ Len(bucket) >= 1 /\ bucket[1].k = key
            /\ data' = [data EXCEPT ![Hash[key]] = <<>>]
            /\ size' = size - 1
            /\ UNCHANGED hung
         \/ /\ Len(bucket) >= 2 /\ bucket[1].k # key /\ bucket[2].k = key
            /\ data' = [data EXCEPT ![Hash[key]] = <<Head(@)>> \o Tail(Tail(@))]
            /\ size' = size - 1
            /\ UNCHANGED hung
         \/ /\ Len(bucket) >= 2 /\ bucket[1].k # key /\ bucket[2].k # key
            /\ hung' = TRUE
            /\ UNCHANGED <<data, size>>

DictNext ==
  \/ \E key \in Key, v \in Val : Set(key, v)
  \/ \E key \in Key : DeleteKey(key)

DictSpec == DictInit /\ [][DictNext]_dictVars

----------------------------------------------------------------------------
(* Properties *)

DictTypeOK ==
  /\ data \in [Slots -> Seq(Node)]
  /\ size \in Int
  /\ hung \in BOOLEAN

\* A bucket holds keys that hash to it, each in one node.
Chains ==
  \A p \in Slots : \A i, j \in 1..Len(data[p]) :
    /\ Hash[data[p][i].k] = p
    /\ data[p][i].k = data[p][j].k => i = j

\* The table implements a map: whatever calls came before, a key's value is the one that
\* was set last or nothing, keys are lost only by a Delete, and Size exceeds the number
\* of keys by exactly the number of keys that were lost with another.
Map == INSTANCE KeyedMap WITH
         map <- [key \in Stored |-> Get(key)],
         leaked <- size - Cardinality(Stored)
ImplementsMap == Map!Spec
=============================================================================

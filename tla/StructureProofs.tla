--------------------------- MODULE StructureProofs ---------------------------
(***************************************************************************)
(* Machine-checked proofs about RefMap, for any strings, amounts and width *)
(* of the counter; that Dict implements KeyedMap, for any keys, any values, *)
(* any number of buckets and any hash function; and about Ring, for any    *)
(* nodes, any digests and any numbers of buckets.                          *)
(*                                                                         *)
(* A sort and a removal in Ring both list buckets by their places, which   *)
(* are a bijection; from it come the order and the numbers of what they    *)
(* return. What its loops compute is by induction on the turns they take,  *)
(* or on the length of the interval that is searched.                      *)
(***************************************************************************)
EXTENDS RefMap, Dict, Ring, NumberLemmas, SequenceTheorems, FiniteSetTheorems,
        FunctionTheorems

----------------------------------------------------------------------------
(* RefMap *)

\* Every reference in use was made, and all that were made lie between 0 and lastRef.
Counting ==
  /\ DOMAIN refs \subseteq issued
  /\ ~ wrapped => \A r \in issued : 0 < r /\ r <= lastRef

RefInv == TypeOK /\ Inverses /\ Counting

\* Every step that is not a stutter makes a reference or drops one.
LEMMA NextCases ==
  ASSUME TypeOK, Next
  PROVE  \/ \E s \in Strings, n \in Int : ~ Found(s) /\ Make(s, n)
         \/ \E s \in DOMAIN strings : Drop(Value(strings[s]).s, strings[s])
         \/ \E s \in DOMAIN strings : Drop(s, strings[s])
         \/ \E r \in DOMAIN refs : Drop(refs[r].s, r)
  BY RefMapAssumption DEF Next, Create, Incr, Decr, DecrRef, Delete, DeleteRef, Found, FoundRef, Value

----------------------------------------------------------------------------
(* The two kinds of steps *)

LEMMA MakeStep ==
  ASSUME RefInv, NEW s \in Strings, NEW n \in Int, ~ Found(s), Make(s, n)
  PROVE  RefInv'
<1> DEFINE r == IF lastRef = MaxRef THEN 0 ELSE lastRef + 1
<1>0. /\ r \in Refs /\ lastRef \in Nat /\ MaxRef \in Nat
      /\ lastRef' = r
      /\ strings' = With(strings, s, r)
      /\ refs' = With(refs, r, [count |-> n, s |-> s])
      /\ issued' = issued \cup {r}
      /\ wrapped' = (wrapped \/ lastRef = MaxRef)
      /\ s \notin DOMAIN strings
  BY RefMapAssumption DEF RefInv, TypeOK, Make, Refs, Found
<1> HIDE DEF r
<1>1. TypeOK'
  BY <1>0 DEF RefInv, TypeOK, With
<1>2. Counting'
  <2>1. DOMAIN refs' \subseteq issued'
    BY <1>0 DEF RefInv, Counting, With
  <2>2. ASSUME ~ wrapped', NEW q \in issued' PROVE 0 < q /\ q <= lastRef'
    <3>1. ~ wrapped /\ lastRef # MaxRef
      BY <1>0, <2>2
    <3>4. r = lastRef + 1 /\ lastRef' = lastRef + 1
      BY <1>0, <3>1 DEF r
    <3>2. CASE q = r
      BY <1>0, <3>2, <3>4
    <3>3. CASE q \in issued
      BY <1>0, <3>1, <3>3, <3>4 DEF RefInv, TypeOK, Counting, Refs
    <3> QED
      BY <1>0, <2>2, <3>2, <3>3
  <2> QED
    BY <2>1, <2>2 DEF Counting
<1>3. ~ wrapped' => /\ ~ wrapped /\ r # 0 /\ r \notin DOMAIN refs
  <2> SUFFICES ASSUME ~ wrapped' PROVE ~ wrapped /\ r # 0 /\ r \notin DOMAIN refs
    OBVIOUS
  <2>1. ~ wrapped /\ lastRef # MaxRef
    BY <1>0
  <2>2. r = lastRef + 1
    BY <2>1 DEF r
  <2> QED
    BY <1>0, <2>1, <2>2 DEF RefInv, TypeOK, Counting, Refs
<1>4. Inverses'
  <2>1. ASSUME NEW q \in DOMAIN refs', ~ wrapped' \/ refs'[q].s # Empty
        PROVE  refs'[q].s \in DOMAIN strings' /\ strings'[refs'[q].s] = q
    <3>1. CASE q = r
      BY <1>0, <3>1 DEF With
    <3>2. CASE q # r
      <4>1. q \in DOMAIN refs /\ refs'[q] = refs[q]
        BY <1>0, <2>1, <3>2 DEF With
      <4>2. refs[q].s \in DOMAIN strings /\ strings[refs[q].s] = q
        BY <1>3, <2>1, <4>1 DEF RefInv, Inverses, Found
      <4> QED
        BY <1>0, <4>1, <4>2 DEF With
    <3> QED
      BY <3>1, <3>2
  <2>2. ASSUME ~ wrapped'
        PROVE  /\ \A t \in DOMAIN strings' : strings'[t] \in DOMAIN refs' /\ refs'[strings'[t]].s = t
               /\ 0 \notin DOMAIN refs'
    <3>1. /\ \A t \in DOMAIN strings : strings[t] \in DOMAIN refs /\ refs[strings[t]].s = t
          /\ 0 \notin DOMAIN refs
      BY <1>3, <2>2 DEF RefInv, Inverses, FoundRef
    <3> QED
      BY <1>0, <1>3, <2>2, <3>1 DEF With
  <2> QED
    BY <2>1, <2>2 DEF Inverses, Found, FoundRef
<1> QED
  BY <1>1, <1>2, <1>4 DEF RefInv

\* What a dropped string was, in the four methods that drop one.
LEMMA DropStep ==
  ASSUME RefInv, NEW s, NEW r, Drop(s, r),
         ~ wrapped => r \in DOMAIN refs /\ refs[r].s = s,
         \A q \in DOMAIN refs : refs[q].s = s /\ s # Empty => q = r
  PROVE  RefInv'
<1>1. TypeOK'
  BY DEF RefInv, TypeOK, Drop, Without
<1>2. Counting'
  BY DEF RefInv, Counting, Drop, Without
<1>3. strings' = Without(strings, s) /\ refs' = Without(refs, r) /\ wrapped' = wrapped
  BY DEF Drop
<1>4. Inverses'
  <2>1. ASSUME NEW q \in DOMAIN refs', ~ wrapped' \/ refs'[q].s # Empty
        PROVE  refs'[q].s \in DOMAIN strings' /\ strings'[refs'[q].s] = q
    <3>1. q \in DOMAIN refs /\ q # r /\ refs'[q] = refs[q]
      BY <1>3, <2>1 DEF Without
    <3>2. refs[q].s \in DOMAIN strings /\ strings[refs[q].s] = q
      BY <1>3, <2>1, <3>1 DEF RefInv, Inverses, Found
    <3>3. refs[q].s # s
      <4>1. CASE ~ wrapped
        <5>1. refs[r].s = s /\ strings[refs[r].s] = r
          BY <4>1 DEF RefInv, Inverses
        <5> QED
          BY <3>1, <3>2, <5>1
      <4>2. CASE wrapped
        BY <1>3, <2>1, <3>1, <4>2
      <4> QED
        BY <4>1, <4>2
    <3> QED
      BY <1>3, <3>1, <3>2, <3>3 DEF Without
  <2>2. ASSUME ~ wrapped'
        PROVE  /\ \A t \in DOMAIN strings' : strings'[t] \in DOMAIN refs' /\ refs'[strings'[t]].s = t
               /\ 0 \notin DOMAIN refs'
    <3>1. /\ \A t \in DOMAIN strings : strings[t] \in DOMAIN refs /\ refs[strings[t]].s = t
          /\ 0 \notin DOMAIN refs /\ r \in DOMAIN refs /\ refs[r].s = s
      BY <1>3, <2>2 DEF RefInv, Inverses, FoundRef
    <3> QED
      BY <1>3, <3>1 DEF Without
  <2> QED
    BY <2>1, <2>2 DEF Inverses, Found, FoundRef
<1> QED
  BY <1>1, <1>2, <1>4 DEF RefInv

----------------------------------------------------------------------------

LEMMA InitRef == Init => RefInv
  BY RefMapAssumption DEF Init, RefInv, TypeOK, Inverses, Counting, Found, FoundRef, Refs

LEMMA StepRef == RefInv /\ [Next]_vars => RefInv'
<1> SUFFICES ASSUME RefInv, [Next]_vars PROVE RefInv'
  OBVIOUS
<1>1. CASE UNCHANGED vars
  BY <1>1 DEF vars, RefInv, TypeOK, Inverses, Counting, Found, FoundRef
<1>2. ASSUME NEW s \in Strings, NEW n \in Int, ~ Found(s), Make(s, n) PROVE RefInv'
  BY <1>2, MakeStep
<1>3. \A r, q \in DOMAIN refs : refs[q].s = refs[r].s /\ refs[q].s # Empty => q = r
  BY DEF RefInv, Inverses
<1>4. ASSUME NEW s \in DOMAIN strings, Drop(Value(strings[s]).s, strings[s]) PROVE RefInv'
  <2>1. ~ wrapped => strings[s] \in DOMAIN refs /\ Value(strings[s]) = refs[strings[s]]
    BY DEF RefInv, Inverses, Value, FoundRef
  <2>2. \A q \in DOMAIN refs : refs[q].s = Value(strings[s]).s /\ Value(strings[s]).s # Empty
                                => q = strings[s]
    BY <1>3 DEF Value, FoundRef
  <2> QED
    BY <1>4, <2>1, <2>2, DropStep
<1>5. ASSUME NEW s \in DOMAIN strings, Drop(s, strings[s]) PROVE RefInv'
  <2>1. ~ wrapped => strings[s] \in DOMAIN refs /\ refs[strings[s]].s = s
    BY DEF RefInv, Inverses, FoundRef
  <2>2. \A q \in DOMAIN refs : refs[q].s = s /\ s # Empty => q = strings[s]
    BY DEF RefInv, Inverses
  <2> QED
    BY <1>5, <2>1, <2>2, DropStep
<1>6. ASSUME NEW r \in DOMAIN refs, Drop(refs[r].s, r) PROVE RefInv'
  BY <1>3, <1>6, DropStep
<1> QED
  BY <1>1, <1>2, <1>4, <1>5, <1>6, NextCases DEF RefInv

LEMMA RefInvariant == Spec => []RefInv
  BY InitRef, StepRef, PTL DEF Spec

\* The state of a map is always well typed.
THEOREM TypeCorrect == Spec => []TypeOK
<1>1. RefInv => TypeOK
  BY DEF RefInv
<1> QED
  BY <1>1, RefInvariant, PTL

\* The two maps stay inverse to each other through every method until the counter wraps,
\* and from then on a reference is still that of the string it stands for, which is not empty.
THEOREM MapsInverse == Spec => []Inverses
<1>1. RefInv => Inverses
  BY DEF RefInv
<1> QED
  BY <1>1, RefInvariant, PTL

\* A reference that was ever made is not made again, until the counter wraps.
THEOREM FreshReferences == Spec => NeverReissued
<1>1. RefInv /\ [Next]_vars =>
        [~ wrapped' => \A r \in DOMAIN refs' \ DOMAIN refs : r \notin issued]_vars
  <2> SUFFICES ASSUME RefInv, [Next]_vars, ~ wrapped', NEW r \in DOMAIN refs' \ DOMAIN refs
               PROVE  r \notin issued
    OBVIOUS
  <2>1. PICK s \in Strings, n \in Int : Make(s, n)
    <3>1. ASSUME NEW s, NEW q, Drop(s, q) PROVE FALSE
      BY <3>1 DEF Drop, Without
    <3>2. CASE UNCHANGED vars
      BY <3>2 DEF vars
    <3> QED
      BY <3>1, <3>2, NextCases DEF RefInv
  <2>2. r = lastRef + 1 /\ ~ wrapped
    BY <2>1 DEF Make, With, RefInv, TypeOK
  <2> QED
    BY <2>2, RefMapAssumption DEF RefInv, TypeOK, Counting, Refs
<1> QED
  BY <1>1, RefInvariant, PTL DEF Spec, NeverReissued

----------------------------------------------------------------------------
(* Dict: the table is looked at as a relation, d holds v for key j.  A call is described
   by what it does to that relation, and the map follows from it. *)

Typed(d) == d \in [Slots -> Seq(Node)]

ChainsIn(d) ==
  \A p \in Slots : \A i, j \in 1..Len(d[p]) :
    /\ Hash[d[p][i].k] = p
    /\ d[p][i].k = d[p][j].k => i = j

PlacesIn(d, j) == {i \in 1..Len(d[Hash[j]]) : d[Hash[j]][i].k = j}
StoredIn(d)    == {j \in Key : PlacesIn(d, j) # {}}
GetIn(d, j)    == LET i == CHOOSE i \in PlacesIn(d, j) : \A l \in PlacesIn(d, j) : i <= l
                  IN  d[Hash[j]][i].v

Holds(d, j, v) == \E i \in 1..Len(d[Hash[j]]) : d[Hash[j]][i].k = j /\ d[Hash[j]][i].v = v

DictInv ==
  /\ DictTypeOK
  /\ Chains
  /\ IsFiniteSet(Stored)

LEMMA InIsDef ==
  /\ Typed(data) /\ size \in Int /\ hung \in BOOLEAN <=> DictTypeOK
  /\ ChainsIn(data) <=> Chains
  /\ StoredIn(data) = Stored
  /\ \A j \in Key : PlacesIn(data, j) = Places(j) /\ GetIn(data, j) = Get(j)
  BY DEF Typed, DictTypeOK, ChainsIn, Chains, StoredIn, Stored, PlacesIn, Places, GetIn, Get

\* The nodes of a bucket.
LEMMA NodesTyped ==
  ASSUME NEW d, Typed(d), NEW p \in Slots
  PROVE  /\ d[p] \in Seq(Node) /\ Len(d[p]) \in Nat
         /\ \A i \in 1..Len(d[p]) : d[p][i] \in Node /\ d[p][i].k \in Key /\ d[p][i].v \in Val
<1>1. d[p] \in Seq(Node)
  BY DEF Typed
<1>2. Len(d[p]) \in Nat
  BY <1>1, LenProperties
<1>3. \A i \in 1..Len(d[p]) : d[p][i] \in Node
  BY <1>1, ElementOfSeq
<1> QED
  BY <1>1, <1>2, <1>3 DEF Node

\* A key is stored when, and with the value that, the table holds for it.
LEMMA Reading ==
  ASSUME NEW d, Typed(d), ChainsIn(d), NEW j \in Key
  PROVE  /\ \A v : Holds(d, j, v) => j \in StoredIn(d) /\ GetIn(d, j) = v
         /\ j \in StoredIn(d) => Holds(d, j, GetIn(d, j)) /\ GetIn(d, j) \in Val
<1> DEFINE p == Hash[j]
<1>1. p \in Slots /\ Len(d[p]) \in Nat
  BY DictAssumption, NodesTyped
<1>2. ASSUME NEW i \in PlacesIn(d, j)
      PROVE  GetIn(d, j) = d[p][i].v
  <2>1. \A l \in PlacesIn(d, j) : l = i
    BY <1>1, <1>2 DEF PlacesIn, ChainsIn
  <2>2. i \in Nat
    BY <1>1, <1>2 DEF PlacesIn
  <2> DEFINE First(l) == l \in PlacesIn(d, j) /\ \A m \in PlacesIn(d, j) : l <= m
             first == CHOOSE l : First(l)
  <2>3. First(i)
    BY <2>1, <2>2
  <2>4. \A l : First(l) => l = i
    BY <2>1
  <2>5. GetIn(d, j) = d[p][first].v
    BY DEF GetIn
  <2> HIDE DEF First
  <2> QED
    BY <2>3, <2>4, <2>5
<1>3. ASSUME NEW v, Holds(d, j, v) PROVE j \in StoredIn(d) /\ GetIn(d, j) = v
  <2>1. PICK i \in 1..Len(d[p]) : d[p][i].k = j /\ d[p][i].v = v
    BY <1>3 DEF Holds
  <2>2. i \in PlacesIn(d, j)
    BY <2>1 DEF PlacesIn
  <2> QED
    BY <1>2, <2>1, <2>2 DEF StoredIn
<1>4. ASSUME j \in StoredIn(d) PROVE Holds(d, j, GetIn(d, j)) /\ GetIn(d, j) \in Val
  <2>1. PICK i \in PlacesIn(d, j) : TRUE
    BY <1>4 DEF StoredIn
  <2>2. i \in 1..Len(d[p]) /\ d[p][i].k = j
    BY <2>1 DEF PlacesIn
  <2>3. d[p][i].v \in Val
    BY <1>1, <2>2, NodesTyped
  <2> QED
    BY <1>2, <2>1, <2>2, <2>3 DEF Holds
<1> QED
  BY <1>3, <1>4

----------------------------------------------------------------------------
(* What the calls do to the relation *)

\* After a call that makes e of d, key has the value v and nothing else has changed.
Sets(d, e, key, v) ==
  \A w : \A j \in Key : Holds(e, j, w) <=> IF j = key THEN w = v ELSE Holds(d, j, w)

LEMMA SetStored ==
  ASSUME NEW d, Typed(d), ChainsIn(d), NEW key \in Key, NEW v \in Val,
         NEW i \in PlacesIn(d, key), NEW e, e = [d EXCEPT ![Hash[key]][i].v = v]
  PROVE  Typed(e) /\ ChainsIn(e) /\ Sets(d, e, key, v)
<1> DEFINE p == Hash[key]
           node == [d[p][i] EXCEPT !.v = v]
           bucket == [d[p] EXCEPT ![i] = node]
<1>1. p \in Slots /\ d[p] \in Seq(Node) /\ i \in 1..Len(d[p]) /\ d[p][i].k = key /\ d[p][i] \in Node
  BY DictAssumption, NodesTyped DEF PlacesIn
<1>2. node \in Node /\ node.k = key /\ node.v = v
  BY <1>1 DEF Node
<1>3. /\ bucket \in Seq(Node) /\ Len(bucket) = Len(d[p])
      /\ \A l \in 1..Len(d[p]) : bucket[l] = IF l = i THEN node ELSE d[p][l]
  <2> HIDE DEF node
  <2> QED
    BY <1>1, <1>2, ExceptSeq
<1>4. e = [d EXCEPT ![p] = bucket]
  OBVIOUS
<1> HIDE DEF node, bucket, p
<1>5. /\ e[p] = bucket
      /\ \A q \in Slots : q # p => e[q] = d[q]
      /\ Typed(e)
  BY <1>1, <1>3, <1>4 DEF Typed
<1>6. \A q \in Slots : /\ Len(e[q]) = Len(d[q])
                       /\ \A l \in 1..Len(d[q]) : e[q][l].k = d[q][l].k
  BY <1>1, <1>2, <1>3, <1>5
<1>7. ChainsIn(e)
  BY <1>6 DEF ChainsIn
<1>8. ASSUME NEW j \in Key, NEW w
      PROVE  Holds(e, j, w) <=> IF j = key THEN w = v ELSE Holds(d, j, w)
  <2>1. Hash[j] \in Slots
    BY DictAssumption
  <2>2. CASE j = key
    <3>1. Hash[j] = p
      BY <2>2 DEF p
    <3>2. \A l \in 1..Len(d[p]) : d[p][l].k = key => l = i
      BY <1>1 DEF ChainsIn
    <3> QED
      BY <1>1, <1>2, <1>3, <1>5, <1>6, <2>2, <3>1, <3>2 DEF Holds
  <2>3. CASE j # key /\ Hash[j] = p
    BY <1>1, <1>2, <1>3, <1>5, <1>6, <2>3 DEF Holds
  <2>4. CASE j # key /\ Hash[j] # p
    BY <1>5, <2>1, <2>4 DEF Holds
  <2> QED
    BY <2>2, <2>3, <2>4
<1> QED
  BY <1>5, <1>7, <1>8 DEF Sets

LEMMA SetNew ==
  ASSUME NEW d, Typed(d), ChainsIn(d), NEW key \in Key, NEW v \in Val, PlacesIn(d, key) = {},
         NEW e, e = [d EXCEPT ![Hash[key]] = Append(@, [k |-> key, v |-> v])]
  PROVE  Typed(e) /\ ChainsIn(e) /\ Sets(d, e, key, v)
<1> DEFINE p == Hash[key]
           node == [k |-> key, v |-> v]
           n == Len(d[p])
<1>1. p \in Slots /\ d[p] \in Seq(Node) /\ n \in Nat
  BY DictAssumption, NodesTyped
<1>2. node \in Node /\ node.k = key /\ node.v = v
  BY DEF Node
<1> HIDE DEF node
<1>3. /\ Append(d[p], node) \in Seq(Node)
      /\ Len(Append(d[p], node)) = n + 1
      /\ Append(d[p], node)[n + 1] = node
      /\ \A l \in 1..n : Append(d[p], node)[l] = d[p][l]
  BY <1>1, <1>2, AppendProperties
<1>4. /\ e[p] = Append(d[p], node)
      /\ \A q \in Slots : q # p => e[q] = d[q]
      /\ Typed(e)
  BY <1>1, <1>3 DEF Typed, node
<1>5. \A l \in 1..n : d[p][l].k # key
  BY DEF PlacesIn
<1> HIDE DEF n, p
<1>6. /\ Len(e[p]) = n + 1 /\ e[p][n + 1] = node
      /\ \A l \in 1..n : e[p][l] = d[p][l]
      /\ Hash[key] = p /\ Len(d[p]) = n
  BY <1>3, <1>4 DEF p, n
<1>7. ChainsIn(e)
  <2> SUFFICES ASSUME NEW q \in Slots, NEW l \in 1..Len(e[q]), NEW m \in 1..Len(e[q])
               PROVE  Hash[e[q][l].k] = q /\ (e[q][l].k = e[q][m].k => l = m)
    BY DEF ChainsIn
  <2>1. CASE q = p
    <3>1. l \in 1..n + 1 /\ m \in 1..n + 1
      BY <1>6, <2>1
    <3>2. l \in 1..n \/ l = n + 1
      BY <3>1, <1>1
    <3>3. m \in 1..n \/ m = n + 1
      BY <3>1, <1>1
    <3> QED
      BY <1>1, <1>2, <1>5, <1>6, <2>1, <3>2, <3>3 DEF ChainsIn
  <2>2. CASE q # p
    BY <1>4, <2>2 DEF ChainsIn
  <2> QED
    BY <2>1, <2>2
<1>8. ASSUME NEW j \in Key, NEW w
      PROVE  Holds(e, j, w) <=> IF j = key THEN w = v ELSE Holds(d, j, w)
  <2>1. Hash[j] \in Slots
    BY DictAssumption
  <2>2. CASE Hash[j] = p
    <3>1. Holds(e, j, w) <=> Holds(d, j, w) \/ (key = j /\ v = w)
      <4>1. 1..Len(e[p]) = 1..n \cup {n + 1}
        BY <1>1, <1>6
      <4> QED
        BY <4>1, <1>2, <1>6, <2>2 DEF Holds
    <3>2. ~ Holds(d, key, w)
      BY <1>5, <1>6 DEF Holds
    <3> QED
      BY <3>1, <3>2
  <2>3. CASE Hash[j] # p
    BY <1>4, <1>6, <2>1, <2>3 DEF Holds
  <2> QED
    BY <2>2, <2>3
<1> QED
  BY <1>4, <1>7, <1>8 DEF Sets

\* After a call that makes e of d, the keys in K are gone and nothing else has changed.
Loses(d, e, K) ==
  \A w : \A j \in Key : Holds(e, j, w) <=> j \notin K /\ Holds(d, j, w)

LEMMA DropBucket ==
  ASSUME NEW d, Typed(d), ChainsIn(d), NEW p \in Slots, NEW e, e = [d EXCEPT ![p] = <<>>]
  PROVE  Typed(e) /\ ChainsIn(e) /\ Loses(d, e, {j \in Key : Hash[j] = p})
<1>1. /\ e[p] = <<>> /\ Len(e[p]) = 0
      /\ \A q \in Slots : q # p => e[q] = d[q]
      /\ Typed(e)
  BY DEF Typed
<1>2. ChainsIn(e)
  <2> SUFFICES ASSUME NEW q \in Slots, NEW l \in 1..Len(e[q]), NEW m \in 1..Len(e[q])
               PROVE  Hash[e[q][l].k] = q /\ (e[q][l].k = e[q][m].k => l = m)
    BY DEF ChainsIn
  <2>1. q # p
    BY <1>1
  <2> QED
    BY <1>1, <2>1 DEF ChainsIn
<1>3. ASSUME NEW j \in Key, NEW w
      PROVE  Holds(e, j, w) <=> Hash[j] # p /\ Holds(d, j, w)
  <2>1. Hash[j] \in Slots
    BY DictAssumption
  <2> QED
    BY <1>1, <2>1 DEF Holds
<1> QED
  BY <1>1, <1>2, <1>3 DEF Loses

LEMMA DropSecond ==
  ASSUME NEW d, Typed(d), ChainsIn(d), NEW key \in Key, Len(d[Hash[key]]) >= 2,
         d[Hash[key]][2].k = key,
         NEW e, e = [d EXCEPT ![Hash[key]] = <<Head(@)>> \o Tail(Tail(@))]
  PROVE  Typed(e) /\ ChainsIn(e) /\ Loses(d, e, {key})
<1> DEFINE p == Hash[key]
           b == d[p]
           n == Len(b)
           left == <<Head(b)>> \o Tail(Tail(b))
<1>1. p \in Slots /\ b \in Seq(Node) /\ n \in Nat /\ n >= 2 /\ b[2].k = key
  BY DictAssumption, NodesTyped
<1>2. /\ left \in Seq(Node) /\ Len(left) = n - 1 /\ left[1] = b[1]
      /\ \A l \in 2..n - 1 : left[l] = b[l + 1]
  <2> HIDE DEF b, n, p
  <2>1. n = Len(b) /\ b # <<>>
    BY <1>1 DEF n
  <2>2. /\ Tail(b) \in Seq(Node) /\ Len(Tail(b)) = n - 1
        /\ \A l \in 1..n - 1 : Tail(b)[l] = b[l + 1]
    BY <1>1, <2>1, HeadTailProperties
  <2>3. Tail(b) # <<>>
    <3>1. Len(Tail(b)) # 0
      BY <1>1, <2>1, <2>2
    <3>2. Len(<<>>) = 0
      OBVIOUS
    <3> QED
      BY <3>1, <3>2, Zenon
  <2>4. /\ Tail(Tail(b)) \in Seq(Node) /\ Len(Tail(Tail(b))) = n - 2
        /\ \A l \in 1..n - 2 : Tail(Tail(b))[l] = Tail(b)[l + 1]
    BY <1>1, <2>2, <2>3, HeadTailProperties
  <2>5. /\ <<Head(b)>> \in Seq(Node) /\ Len(<<Head(b)>>) = 1 /\ <<Head(b)>>[1] = b[1]
    BY <1>1, <2>1, HeadTailProperties
  <2>6. /\ left \in Seq(Node) /\ Len(left) = 1 + (n - 2)
        /\ \A l \in 1..1 + (n - 2) : left[l] = IF l <= 1 THEN <<Head(b)>>[l] ELSE Tail(Tail(b))[l - 1]
    <3> DEFINE s == <<Head(b)>>
               t == Tail(Tail(b))
    <3>1. s \in Seq(Node) /\ t \in Seq(Node) /\ Len(s) = 1 /\ Len(t) = n - 2
      BY <2>4, <2>5
    <3> HIDE DEF s, t
    <3>2. /\ s \o t \in Seq(Node) /\ Len(s \o t) = Len(s) + Len(t)
          /\ \A l \in 1..Len(s) + Len(t) : (s \o t)[l] = IF l <= Len(s) THEN s[l] ELSE t[l - Len(s)]
      BY <3>1, ConcatProperties
    <3>3. /\ s \o t \in Seq(Node) /\ Len(s \o t) = 1 + (n - 2)
          /\ \A l \in 1..1 + (n - 2) : (s \o t)[l] = IF l <= 1 THEN s[l] ELSE t[l - 1]
      BY <3>1, <3>2
    <3> QED
      BY <3>3 DEF s, t
  <2> HIDE DEF left
  <2>7. ASSUME NEW l \in 2..n - 1 PROVE left[l] = b[l + 1]
    <3>1. l \in 1..1 + (n - 2) /\ ~ (l <= 1) /\ l - 1 \in 1..n - 2 /\ l \in 1..n - 1 /\ l - 1 + 1 = l
      BY <1>1, <2>7
    <3>2. left[l] = Tail(Tail(b))[l - 1]
      BY <2>6, <3>1
    <3>3. Tail(Tail(b))[l - 1] = Tail(b)[l]
      BY <2>4, <3>1
    <3> QED
      BY <2>2, <3>1, <3>2, <3>3
  <2>8. 1 \in 1..1 + (n - 2) /\ 1 + (n - 2) = n - 1
    BY <1>1
  <2> QED
    BY <2>5, <2>6, <2>7, <2>8
<1>3. e = [d EXCEPT ![p] = left]
  OBVIOUS
<1> HIDE DEF left
<1>4. /\ e[p] = left
      /\ \A q \in Slots : q # p => e[q] = d[q]
      /\ Typed(e)
  BY <1>1, <1>2, <1>3 DEF Typed
<1> DEFINE From(l) == IF l = 1 THEN 1 ELSE l + 1
<1>5. \A l \in 1..n - 1 : /\ From(l) \in 1..n /\ From(l) # 2
                          /\ left[l] = b[From(l)]
                          /\ \A m \in 1..n - 1 : From(l) = From(m) => l = m
  <2> HIDE DEF n, b, p
  <2> SUFFICES ASSUME NEW l \in 1..n - 1
               PROVE  /\ From(l) \in 1..n /\ From(l) # 2
                      /\ left[l] = b[From(l)]
                      /\ \A m \in 1..n - 1 : From(l) = From(m) => l = m
    OBVIOUS
  <2>1. CASE l = 1
    BY <1>1, <1>2, <2>1
  <2>2. CASE l # 1
    BY <1>1, <1>2, <2>2
  <2> QED
    BY <2>1, <2>2
<1>6. \A i \in 1..n : i # 2 => \E l \in 1..n - 1 : From(l) = i
  <2> SUFFICES ASSUME NEW i \in 1..n, i # 2 PROVE \E l \in 1..n - 1 : From(l) = i
    OBVIOUS
  <2>1. CASE i = 1
    BY <1>1, <2>1
  <2>2. CASE i # 1
    <3>1. i - 1 \in 1..n - 1 /\ i - 1 # 1 /\ i - 1 + 1 = i
      BY <1>1, <2>2
    <3>2. From(i - 1) = i
      BY <3>1
    <3> QED
      BY <3>1, <3>2
  <2> QED
    BY <2>1, <2>2
<1> HIDE DEF From
<1>7. \A i \in 1..n, l \in 1..n : b[i].k = b[l].k => i = l
  BY <1>1 DEF ChainsIn
<1>8. ChainsIn(e)
  <2> SUFFICES ASSUME NEW q \in Slots, NEW l \in 1..Len(e[q]), NEW m \in 1..Len(e[q])
               PROVE  Hash[e[q][l].k] = q /\ (e[q][l].k = e[q][m].k => l = m)
    BY DEF ChainsIn
  <2>1. CASE q = p
    <3>1. l \in 1..n - 1 /\ m \in 1..n - 1 /\ e[q][l] = b[From(l)] /\ e[q][m] = b[From(m)]
      BY <1>2, <1>4, <1>5, <2>1
    <3>2. From(l) \in 1..n /\ From(m) \in 1..n
      BY <1>5, <3>1
    <3>3. Hash[b[From(l)].k] = p
      BY <1>1, <3>2 DEF ChainsIn
    <3> QED
      BY <1>5, <1>7, <2>1, <3>1, <3>2, <3>3
  <2>2. CASE q # p
    BY <1>4, <2>2 DEF ChainsIn
  <2> QED
    BY <2>1, <2>2
<1>9. ASSUME NEW j \in Key, NEW w
      PROVE  Holds(e, j, w) <=> j # key /\ Holds(d, j, w)
  <2>1. Hash[j] \in Slots
    BY DictAssumption
  <2>2. CASE Hash[j] = p
    <3>1. Holds(e, j, w) <=> \E l \in 1..n - 1 : left[l].k = j /\ left[l].v = w
      BY <1>2, <1>4, <2>2 DEF Holds
    <3>2. Holds(d, j, w) <=> \E i \in 1..n : b[i].k = j /\ b[i].v = w
      BY <2>2 DEF Holds
    <3>3. 2 \in 1..n
      BY <1>1
    <3>4. ASSUME Holds(e, j, w) PROVE j # key /\ Holds(d, j, w)
      <4>1. PICK l \in 1..n - 1 : left[l].k = j /\ left[l].v = w
        BY <3>1, <3>4
      <4>2. b[From(l)].k = j /\ b[From(l)].v = w /\ From(l) \in 1..n /\ From(l) # 2
        BY <1>5, <4>1
      <4>3. j # key
        BY <1>1, <1>7, <3>3, <4>2
      <4> QED
        BY <3>2, <4>2, <4>3
    <3>5. ASSUME j # key, Holds(d, j, w) PROVE Holds(e, j, w)
      <4>1. PICK i \in 1..n : b[i].k = j /\ b[i].v = w
        BY <3>2, <3>5
      <4>2. i # 2
        BY <1>1, <3>5, <4>1
      <4>3. PICK l \in 1..n - 1 : From(l) = i
        BY <1>6, <4>2
      <4> QED
        BY <1>5, <3>1, <4>1, <4>3
    <3> QED
      BY <3>4, <3>5
  <2>3. CASE Hash[j] # p
    BY <1>4, <2>1, <2>3 DEF Holds
  <2> QED
    BY <2>2, <2>3
<1> QED
  BY <1>4, <1>8, <1>9 DEF Loses

----------------------------------------------------------------------------
(* What the calls do to the map *)

LEMMA StoredSet ==
  ASSUME NEW d, Typed(d), ChainsIn(d), NEW e, Typed(e), ChainsIn(e),
         NEW key \in Key, NEW v \in Val, Sets(d, e, key, v)
  PROVE  /\ StoredIn(e) = StoredIn(d) \cup {key}
         /\ \A j \in StoredIn(e) : GetIn(e, j) = IF j = key THEN v ELSE GetIn(d, j)
<1>1. ASSUME NEW j \in StoredIn(e)
      PROVE  /\ j \in StoredIn(d) \cup {key}
             /\ GetIn(e, j) = IF j = key THEN v ELSE GetIn(d, j)
  <2>1. j \in Key
    BY <1>1 DEF StoredIn
  <2>2. Holds(e, j, GetIn(e, j))
    BY <1>1, <2>1, Reading
  <2>3. CASE j = key
    BY <2>1, <2>2, <2>3 DEF Sets
  <2>4. CASE j # key
    <3>1. Holds(d, j, GetIn(e, j))
      BY <2>1, <2>2, <2>4 DEF Sets
    <3> QED
      BY <2>1, <2>4, <3>1, Reading
  <2> QED
    BY <2>3, <2>4
<1>2. key \in StoredIn(e)
  <2>1. Holds(e, key, v)
    BY DEF Sets
  <2> QED
    BY <2>1, Reading
<1>3. ASSUME NEW j \in StoredIn(d), j # key PROVE j \in StoredIn(e)
  <2>1. j \in Key
    BY <1>3 DEF StoredIn
  <2>2. Holds(d, j, GetIn(d, j))
    BY <1>3, <2>1, Reading
  <2>3. Holds(e, j, GetIn(d, j))
    BY <1>3, <2>1, <2>2 DEF Sets
  <2> QED
    BY <2>1, <2>3, Reading
<1> QED
  BY <1>1, <1>2, <1>3

LEMMA StoredLost ==
  ASSUME NEW d, Typed(d), ChainsIn(d), NEW e, Typed(e), ChainsIn(e),
         NEW K, Loses(d, e, K)
  PROVE  /\ StoredIn(e) = StoredIn(d) \ K
         /\ \A j \in StoredIn(e) : GetIn(e, j) = GetIn(d, j)
<1>1. ASSUME NEW j \in StoredIn(e)
      PROVE  j \in StoredIn(d) \ K /\ GetIn(e, j) = GetIn(d, j)
  <2>1. j \in Key
    BY <1>1 DEF StoredIn
  <2>2. Holds(e, j, GetIn(e, j))
    BY <1>1, <2>1, Reading
  <2>3. j \notin K /\ Holds(d, j, GetIn(e, j))
    BY <2>1, <2>2 DEF Loses
  <2> QED
    BY <2>1, <2>3, Reading
<1>2. ASSUME NEW j \in StoredIn(d), j \notin K PROVE j \in StoredIn(e)
  <2>1. j \in Key
    BY <1>2 DEF StoredIn
  <2>2. Holds(d, j, GetIn(d, j))
    BY <1>2, <2>1, Reading
  <2>3. Holds(e, j, GetIn(d, j))
    BY <1>2, <2>1, <2>2 DEF Loses
  <2> QED
    BY <2>1, <2>3, Reading
<1> QED
  BY <1>1, <1>2

----------------------------------------------------------------------------
(* The steps *)

LEMMA InIsDefNext ==
  /\ Typed(data') /\ size' \in Int /\ hung' \in BOOLEAN <=> DictTypeOK'
  /\ ChainsIn(data') <=> Chains'
  /\ StoredIn(data') = Stored'
  /\ \A j \in Key : GetIn(data', j) = Get(j)'
  BY DEF Typed, DictTypeOK, ChainsIn, Chains, StoredIn, Stored, PlacesIn, Places, GetIn, Get

\* The cardinality that KeyedMap speaks of is that of FiniteSets.
LEMMA SameCardinality == \A S : Map!Cardinality(S) = Cardinality(S)
  BY DEF Map!Cardinality, Cardinality, Map!IsFiniteSet, IsFiniteSet

LEMMA InitDict == DictInit => DictInv /\ Map!Init
<1> SUFFICES ASSUME DictInit PROVE DictInv /\ Map!Init
  OBVIOUS
<1>1. \A p \in Slots : data[p] = <<>> /\ Len(data[p]) = 0
  BY DEF DictInit
<1>2. DictTypeOK
  <2>1. <<>> \in Seq(Node)
    BY EmptySeq
  <2>2. data \in [Slots -> Seq(Node)]
    BY <2>1 DEF DictInit
  <2>3. size = 0 /\ hung = FALSE
    BY DEF DictInit
  <2>4. size \in Int
    BY <2>3
  <2>5. hung \in BOOLEAN
    BY <2>3
  <2> QED
    BY <2>2, <2>4, <2>5 DEF DictTypeOK
<1>3. Chains
  BY <1>1 DEF Chains
<1>4. Stored = {}
  BY <1>1, DictAssumption DEF Stored, Places
<1>5. IsFiniteSet(Stored) /\ Cardinality(Stored) = 0
  BY <1>4, FS_EmptySet
<1>6. [key \in Stored |-> Get(key)] = [k \in {} |-> k]
  BY <1>4
<1> QED
  BY <1>2, <1>3, <1>5, <1>6 DEF DictInv, Map!Init, DictInit

\* A Set.
LEMMA SetStep ==
  ASSUME DictInv, NEW key \in Key, NEW v \in Val, Set(key, v)
  PROVE  DictInv' /\ Map!Put(key, v)
<1>1. Typed(data) /\ ChainsIn(data) /\ size \in Int /\ hung \in BOOLEAN /\ IsFiniteSet(Stored)
  BY InIsDef DEF DictInv
<1>2. Cardinality(Stored) \in Nat
  BY <1>1, FS_CardinalityType
<1>3. /\ Typed(data') /\ ChainsIn(data') /\ Sets(data, data', key, v)
      /\ size' = IF key \in Stored THEN size ELSE size + 1
  <2>1. CASE Places(key) # {}
    <3>1. PICK i \in Places(key) : data' = [data EXCEPT ![Hash[key]][i].v = v]
      BY <2>1 DEF Set
    <3>2. i \in PlacesIn(data, key)
      BY InIsDef
    <3>3. key \in Stored /\ size' = size
      BY <2>1 DEF Stored, Set
    <3> QED
      BY <1>1, <3>1, <3>2, <3>3, SetStored
  <2>2. CASE Places(key) = {}
    <3>1. data' = [data EXCEPT ![Hash[key]] = Append(@, [k |-> key, v |-> v])] /\ size' = size + 1
      BY <2>2 DEF Set
    <3>2. PlacesIn(data, key) = {} /\ key \notin Stored
      BY <2>2, InIsDef DEF Stored
    <3> QED
      BY <1>1, <3>1, <3>2, SetNew
  <2> QED
    BY <2>1, <2>2
<1>4. /\ Stored' = Stored \cup {key}
      /\ \A j \in Stored' : Get(j)' = IF j = key THEN v ELSE Get(j)
  <2>1. /\ StoredIn(data') = StoredIn(data) \cup {key}
        /\ \A j \in StoredIn(data') : GetIn(data', j) = IF j = key THEN v ELSE GetIn(data, j)
    BY <1>1, <1>3, StoredSet
  <2>2. Stored' \subseteq Key
    BY DEF Stored
  <2> QED
    BY <2>1, <2>2, InIsDef, InIsDefNext
<1>5. /\ IsFiniteSet(Stored')
      /\ Cardinality(Stored') = IF key \in Stored THEN Cardinality(Stored) ELSE Cardinality(Stored) + 1
  BY <1>1, <1>4, FS_AddElement
<1>6. ~ hung /\ hung' = hung
  BY DEF Set
<1>7. DictInv'
  BY <1>1, <1>3, <1>5, <1>6, InIsDefNext DEF DictInv
<1>8. [j \in Stored' |-> Get(j)'] =
        [j \in Stored \cup {key} |-> IF j = key THEN v ELSE [l \in Stored |-> Get(l)][j]]
  BY <1>4
<1>9. size' - Cardinality(Stored') = size - Cardinality(Stored)
  BY <1>1, <1>2, <1>3, <1>5
<1> QED
  BY <1>6, <1>7, <1>8, <1>9 DEF Map!Put

\* A Delete that removes K, one of them its key.
LEMMA LoseStep ==
  ASSUME DictInv, NEW key \in Stored, NEW K, key \in K, ~ hung, hung' = hung, size' = size - 1,
         Typed(data'), ChainsIn(data'), Loses(data, data', K)
  PROVE  DictInv' /\ Map!Remove(key)
<1> DEFINE lost == (Stored \cap K) \ {key}
<1>1. Typed(data) /\ ChainsIn(data) /\ size \in Int /\ hung \in BOOLEAN /\ IsFiniteSet(Stored)
  BY InIsDef DEF DictInv
<1>2. /\ Stored' = Stored \ K
      /\ \A j \in Stored' : Get(j)' = Get(j)
  <2>1. /\ StoredIn(data') = StoredIn(data) \ K
        /\ \A j \in StoredIn(data') : GetIn(data', j) = GetIn(data, j)
    BY <1>1, StoredLost
  <2>2. Stored' \subseteq Key
    BY DEF Stored
  <2> QED
    BY <2>1, <2>2, InIsDef, InIsDefNext
<1>3. Stored' = (Stored \ {key}) \ lost /\ lost \in SUBSET (Stored \ {key})
  BY <1>2
<1>4. /\ IsFiniteSet(Stored \ {key})
      /\ Cardinality(Stored \ {key}) = Cardinality(Stored) - 1
      /\ Cardinality(Stored) \in Nat
  BY <1>1, FS_RemoveElement, FS_CardinalityType
<1>5. IsFiniteSet(lost) /\ Cardinality(lost) \in Nat
  BY <1>3, <1>4, FS_Subset, FS_CardinalityType
<1>6. /\ IsFiniteSet(Stored')
      /\ Cardinality(Stored') = Cardinality(Stored \ {key}) - Cardinality(lost)
  <2> HIDE DEF lost
  <2>1. PICK S : S = Stored \ {key}
    OBVIOUS
  <2>2. S \cap lost = lost /\ Stored' = S \ lost /\ IsFiniteSet(S)
    BY <1>3, <1>4, <2>1
  <2>3. /\ IsFiniteSet(S \ lost)
        /\ Cardinality(S \ lost) = Cardinality(S) - Cardinality(S \cap lost)
    BY <2>2, FS_Difference
  <2> QED
    BY <2>1, <2>2, <2>3
<1>7. DictInv'
  BY <1>1, <1>6, InIsDefNext DEF DictInv
<1> HIDE DEF lost
<1>8. size' - Cardinality(Stored') = size - Cardinality(Stored) + Cardinality(lost)
  BY <1>1, <1>4, <1>5, <1>6
<1>9. [j \in Stored' |-> Get(j)'] = [j \in Stored \ (lost \cup {key}) |-> [l \in Stored |-> Get(l)][j]]
  BY <1>2, <1>3
<1>10. DOMAIN [l \in Stored |-> Get(l)] = Stored
  OBVIOUS
<1>11. Map!Remove(key)
  <2>1. /\ ~ hung /\ hung' = hung
        /\ key \in DOMAIN [l \in Stored |-> Get(l)]
        /\ lost \in SUBSET (DOMAIN [l \in Stored |-> Get(l)] \ {key})
    BY <1>3, <1>10
  <2> QED
    BY <1>8, <1>9, <1>10, <2>1, SameCardinality DEF Map!Remove
<1> QED
  BY <1>7, <1>11

\* Two nodes of a bucket are two keys of the map.
LEMMA TwoStored ==
  ASSUME DictInv, NEW p \in Slots, Len(data[p]) >= 2
  PROVE  Cardinality(Stored) >= 2
<1> DEFINE a == data[p][1].k
           b == data[p][2].k
<1>1. Typed(data) /\ Chains /\ IsFiniteSet(Stored)
  BY InIsDef DEF DictInv
<1>2. 1 \in 1..Len(data[p]) /\ 2 \in 1..Len(data[p])
  BY <1>1, NodesTyped
<1>3. a \in Key /\ b \in Key /\ Hash[a] = p /\ Hash[b] = p /\ a # b
  BY <1>1, <1>2, NodesTyped DEF Chains
<1>4. a \in Stored /\ b \in Stored
  BY <1>2, <1>3 DEF Stored, Places
<1> HIDE DEF a, b
<1>5. /\ IsFiniteSet(Stored \ {a})
      /\ Cardinality(Stored \ {a}) = Cardinality(Stored) - 1
      /\ Cardinality(Stored) \in Nat /\ Cardinality(Stored \ {a}) \in Nat
  BY <1>1, <1>4, FS_RemoveElement, FS_CardinalityType
<1>6. Cardinality(Stored \ {a}) # 0
  <2>1. b \in Stored \ {a}
    BY <1>3, <1>4
  <2>2. Cardinality(Stored \ {a}) = 0 <=> Stored \ {a} = {}
    BY <1>5, FS_EmptySet
  <2> QED
    BY <2>1, <2>2
<1> QED
  BY <1>5, <1>6

LEMMA DeleteStep ==
  ASSUME DictInv, NEW key \in Key, DeleteKey(key)
  PROVE  DictInv' /\ [Map!Next]_(Map!vars)
<1> DEFINE p == Hash[key]
           bucket == data[p]
<1>1. Typed(data) /\ ChainsIn(data) /\ Chains /\ p \in Slots /\ ~ hung
  BY InIsDef, DictAssumption DEF DictInv, DeleteKey
<1>2. CASE Len(bucket) >= 1 /\ bucket[1].k = key /\ data' = [data EXCEPT ![p] = <<>>]
           /\ size' = size - 1 /\ UNCHANGED hung
  <2>1. /\ Typed(data') /\ ChainsIn(data')
        /\ Loses(data, data', {j \in Key : Hash[j] = p})
    BY <1>1, <1>2, DropBucket
  <2>2. key \in Stored
    BY <1>1, <1>2, NodesTyped DEF Stored, Places
  <2>3. DictInv' /\ Map!Remove(key)
    BY <1>1, <1>2, <2>1, <2>2, LoseStep
  <2> QED
    BY <2>3 DEF Map!Next
<1>3. CASE Len(bucket) >= 2 /\ bucket[1].k # key /\ bucket[2].k = key
           /\ data' = [data EXCEPT ![p] = <<Head(@)>> \o Tail(Tail(@))]
           /\ size' = size - 1 /\ UNCHANGED hung
  <2>1. Typed(data') /\ ChainsIn(data') /\ Loses(data, data', {key})
    BY <1>1, <1>3, DropSecond
  <2>2. key \in Stored
    BY <1>1, <1>3, NodesTyped DEF Stored, Places
  <2>3. DictInv' /\ Map!Remove(key)
    BY <1>1, <1>3, <2>1, <2>2, LoseStep
  <2> QED
    BY <2>3 DEF Map!Next
<1>4. CASE Len(bucket) >= 2 /\ hung' = TRUE /\ UNCHANGED <<data, size>>
  <2>1. Cardinality(Stored) >= 2
    BY <1>1, <1>4, TwoStored
  <2>2. Stored' = Stored /\ DOMAIN [j \in Stored |-> Get(j)] = Stored
    BY <1>4 DEF Stored, Places
  <2>3. [j \in Stored |-> Get(j)]' = [j \in Stored |-> Get(j)]
    BY <1>4 DEF Stored, Places, Get
  <2>4. Map!Hang
    <3>1. [j \in Stored' |-> Get(j)'] = [j \in Stored |-> Get(j)]
      BY <2>3
    <3>2. size' - Cardinality(Stored') = size - Cardinality(Stored)
      BY <1>4, <2>2
    <3> QED
      BY <1>1, <1>4, <2>1, <2>2, <3>1, <3>2, SameCardinality DEF Map!Hang
  <2>5. DictInv'
    BY <1>4, <2>2 DEF DictInv, DictTypeOK, Chains
  <2> QED
    BY <2>4, <2>5 DEF Map!Next
<1> QED
  BY <1>2, <1>3, <1>4 DEF DeleteKey

\* A Dict is a map whose Delete may take other keys of the bucket with it, and whose size never
\* forgets these: for any keys and values and any hash function.
THEOREM ImplementsKeyedMap == DictSpec => ImplementsMap
<1>1. DictInit => DictInv /\ Map!Init
  BY InitDict
<1>2. ASSUME DictInv, [DictNext]_dictVars
      PROVE  DictInv' /\ [Map!Next]_(Map!vars)
  <2>1. CASE \E key \in Key, v \in Val : Set(key, v)
    BY <1>2, <2>1, SetStep DEF Map!Next
  <2>2. CASE \E key \in Key : DeleteKey(key)
    BY <1>2, <2>2, DeleteStep
  <2>3. CASE UNCHANGED dictVars
    <3>1. Stored' = Stored /\ [j \in Stored |-> Get(j)]' = [j \in Stored |-> Get(j)]
      BY <2>3 DEF dictVars, Stored, Places, Get
    <3>2. DictInv'
      BY <1>2, <2>3, <3>1 DEF dictVars, DictInv, DictTypeOK, Chains
    <3> QED
      BY <2>3, <3>1, <3>2 DEF dictVars, Map!vars
  <2> QED
    BY <1>2, <2>1, <2>2, <2>3 DEF DictNext
<1> QED
  BY <1>1, <1>2, PTL DEF DictSpec, ImplementsMap, Map!Spec

----------------------------------------------------------------------------
(* Lists of the buckets at some indices in some order *)

\* R, as a set of pairs, orders the set I.
Orders(I, R) ==
  /\ \A i \in I : <<i, i>> \in R
  /\ \A i, j \in I : <<i, j>> \in R /\ <<j, i>> \in R => i = j
  /\ \A i, j, k \in I : <<i, j>> \in R /\ <<j, k>> \in R => <<i, k>> \in R
  /\ \A i, j \in I : <<i, j>> \in R \/ <<j, i>> \in R

\* Counting what is not above them gives the elements of a finite set their places.
LEMMA PlacesBijection ==
  ASSUME NEW I, IsFiniteSet(I), NEW R, Orders(I, R),
         NEW place, place = [i \in I |-> Cardinality({j \in I : <<j, i>> \in R})]
  PROVE  /\ place \in Bijection(I, 1..Cardinality(I))
         /\ Cardinality(I) \in Nat
         /\ \A i, j \in I : place[i] <= place[j] <=> <<i, j>> \in R
<1> DEFINE upto(i) == {j \in I : <<j, i>> \in R}
<1>0. Cardinality(I) \in Nat
  BY FS_CardinalityType
<1>1. ASSUME NEW i \in I
      PROVE  IsFiniteSet(upto(i)) /\ Cardinality(upto(i)) \in 1..Cardinality(I)
  <2>1. upto(i) \in SUBSET I /\ upto(i) # {}
    BY DEF Orders
  <2>2. IsFiniteSet(upto(i)) /\ Cardinality(upto(i)) <= Cardinality(I)
    BY <2>1, FS_Subset
  <2>3. Cardinality(upto(i)) \in Nat /\ Cardinality(upto(i)) # 0
    <3> HIDE DEF upto
    <3> QED
      BY <2>1, <2>2, FS_CardinalityType, FS_EmptySet
  <2> QED
    BY <1>0, <2>2, <2>3
<1>2. ASSUME NEW i \in I, NEW j \in I, <<i, j>> \in R, i # j
      PROVE  Cardinality(upto(i)) < Cardinality(upto(j))
  <2>1. upto(i) \in SUBSET upto(j)
    BY <1>2 DEF Orders
  <2>2. j \in upto(j) /\ j \notin upto(i)
    BY <1>2 DEF Orders
  <2>3. upto(i) # upto(j) /\ IsFiniteSet(upto(j))
    BY <1>1, <2>2
  <2>4. Cardinality(upto(i)) \in Nat /\ Cardinality(upto(j)) \in Nat
    BY <1>1, <1>0
  <2> HIDE DEF upto
  <2>5. PICK A, B : A = upto(i) /\ B = upto(j)
    OBVIOUS
  <2>6. IsFiniteSet(B) /\ A \in SUBSET B /\ A # B
    BY <2>1, <2>3, <2>5
  <2>7. Cardinality(A) <= Cardinality(B) /\ Cardinality(A) # Cardinality(B)
    BY <2>6, FS_Subset
  <2> QED
    BY <2>4, <2>5, <2>7
<1>3. /\ place \in [I -> 1..Cardinality(I)]
      /\ \A i \in I : place[i] = Cardinality(upto(i)) /\ place[i] \in Nat
  <2>1. place = [i \in I |-> Cardinality(upto(i))]
    OBVIOUS
  <2> HIDE DEF upto
  <2> QED
    BY <1>0, <1>1, <2>1
<1> HIDE DEF upto
<1>4. \A i, j \in I : <<i, j>> \in R /\ i # j => place[i] < place[j]
  BY <1>2, <1>3
<1>5. ASSUME NEW i \in I, NEW j \in I
      PROVE  /\ place[i] <= place[j] <=> <<i, j>> \in R
             /\ place[i] = place[j] => i = j
  <2>1. place[i] \in Nat /\ place[j] \in Nat
    BY <1>3
  <2>2. \/ i = j /\ <<i, j>> \in R
        \/ i # j /\ <<i, j>> \in R /\ place[i] < place[j]
        \/ i # j /\ <<i, j>> \notin R /\ place[j] < place[i]
    BY <1>4 DEF Orders
  <2> QED
    BY <2>1, <2>2
<1>6. place \in Injection(I, 1..Cardinality(I))
  <2>1. place \in [I -> 1..Cardinality(I)] /\ \A i, j \in I : place[i] = place[j] => i = j
    BY <1>3, <1>5
  <2> QED
    BY <2>1 DEF Injection, IsInjective
<1>7. /\ IsFiniteSet(1..Cardinality(I))
      /\ Cardinality(1..Cardinality(I)) = Cardinality(I)
  BY <1>0, FS_Interval
<1>8. place \in Surjection(I, 1..Cardinality(I))
  BY <1>6, <1>7, FS_Injection
<1> QED
  BY <1>0, <1>5, <1>6, <1>8 DEF Bijection

\* at lists I in the order R.
Lists(at, I, R) ==
  /\ at \in Bijection(1..Cardinality(I), I)
  /\ Cardinality(I) \in Nat
  /\ \A k, l \in 1..Cardinality(I) : k <= l <=> <<at[k], at[l]>> \in R

\* l is the buckets of s that at lists.
Along(l, at, s, I) == l = [k \in 1..Cardinality(I) |-> s[at[k]]]

LEMMA ListedIs ==
  ASSUME NEW s, NEW I, IsFiniteSet(I), NEW R, Orders(I, R)
  PROVE  \E at : Lists(at, I, R) /\ Along(Listed(s, I, R), at, s, I)
<1> DEFINE place == [i \in I |-> Cardinality({j \in I : <<j, i>> \in R})]
           at == [k \in 1..Cardinality(I) |-> CHOOSE i \in I : place[i] = k]
<1>1. Listed(s, I, R) = [k \in 1..Cardinality(I) |-> s[at[k]]]
  BY DEF Listed
<1>2. /\ place \in Bijection(I, 1..Cardinality(I))
      /\ Cardinality(I) \in Nat
      /\ \A i, j \in I : place[i] <= place[j] <=> <<i, j>> \in R
  BY PlacesBijection
<1> HIDE DEF place
<1>3. ASSUME NEW k \in 1..Cardinality(I) PROVE at[k] \in I /\ place[at[k]] = k
  <2>1. \E i \in I : place[i] = k
    BY <1>2 DEF Bijection, Surjection
  <2> QED
    BY <2>1
<1> HIDE DEF at
<1>4. at \in [1..Cardinality(I) -> I]
  <2>1. at = [k \in 1..Cardinality(I) |-> at[k]]
    BY DEF at
  <2> QED
    BY <1>3, <2>1
<1>5. at \in Injection(1..Cardinality(I), I)
  BY <1>3, <1>4 DEF Injection, IsInjective
<1>6. ASSUME NEW i \in I PROVE \E k \in 1..Cardinality(I) : at[k] = i
  <2>1. place[i] \in 1..Cardinality(I)
    BY <1>2 DEF Bijection, Injection
  <2>2. place[at[place[i]]] = place[i] /\ at[place[i]] \in I
    BY <1>3, <2>1
  <2>3. at[place[i]] = i
    BY <1>2, <2>2 DEF Bijection, Injection, IsInjective
  <2> QED
    BY <2>1, <2>3
<1>7. at \in Surjection(1..Cardinality(I), I)
  BY <1>4, <1>6 DEF Surjection
<1>8. Lists(at, I, R)
  BY <1>2, <1>3, <1>5, <1>7 DEF Lists, Bijection
<1> QED
  BY <1>1, <1>8 DEF Along

----------------------------------------------------------------------------
(* Sort and WithoutNode *)

Sorted(s) == \A i, j \in 1..Len(s) : i < j => s[i].id <= s[j].id

LEMMA BucketAt ==
  ASSUME NEW s \in Seq(Bucket)
  PROVE  /\ Len(s) \in Nat
         /\ \A i \in 1..Len(s) : s[i] \in Bucket /\ s[i].id \in Nat /\ s[i].node \in Nodes
<1>1. Len(s) \in Nat
  BY LenProperties
<1>2. ASSUME NEW i \in 1..Len(s) PROVE s[i] \in Bucket
  BY ElementOfSeq
<1>3. ASSUME NEW b \in Bucket PROVE b.id \in Nat /\ b.node \in Nodes
  BY RingAssumption DEF Bucket
<1> QED
  BY <1>1, <1>2, <1>3

LEMMA UpTo ==
  ASSUME NEW n \in Nat
  PROVE  IsFiniteSet(1..n) /\ Cardinality(1..n) = n
<1>1. IsFiniteSet(1..n) /\ Cardinality(1..n) = IF 1 > n THEN 0 ELSE n - 1 + 1
  BY FS_Interval
<1> QED
  BY <1>1

LEMMA TieIs ==
  ASSUME NEW s, Len(s) \in Nat, NEW tie \in Ties(s)
  PROVE  /\ \A i \in 1..Len(s) : tie[i] \in Nat
         /\ \A i, j \in 1..Len(s) : tie[i] = tie[j] => i = j
<1> DEFINE all == 1..Len(s)
           tied == {i \in all : \E j \in all : s[j].id = s[i].id /\ s[j].node # s[i].node}
<1>1. PICK r \in Injection(tied, tied) : tie = [i \in all |-> IF i \in tied THEN r[i] ELSE i]
  BY DEF Ties
<1>2. /\ \A i \in tied : r[i] \in tied
      /\ \A i, j \in tied : r[i] = r[j] => i = j
  BY DEF Injection, IsInjective
<1>3. tied \subseteq all /\ all \subseteq Nat
  OBVIOUS
<1> HIDE DEF tied, all
<1>4. \A i \in all : tie[i] = IF i \in tied THEN r[i] ELSE i
  BY <1>1
<1>5. \A i \in all : tie[i] \in Nat /\ (tie[i] \in tied <=> i \in tied)
  BY <1>2, <1>3, <1>4
<1>6. ASSUME NEW i \in all, NEW j \in all, tie[i] = tie[j] PROVE i = j
  BY <1>2, <1>4, <1>5, <1>6
<1> QED
  BY <1>5, <1>6 DEF all

LEMMA SortIs ==
  ASSUME NEW s \in Seq(Bucket), NEW tie \in Ties(s)
  PROVE  /\ Sort(s, tie) \in Seq(Bucket) /\ Len(Sort(s, tie)) = Len(s)
         /\ Sorted(Sort(s, tie))
         /\ \E at \in Bijection(1..Len(s), 1..Len(s)) :
              Sort(s, tie) = [k \in 1..Len(s) |-> s[at[k]]]
<1> DEFINE all == 1..Len(s)
           R == {p \in all \X all :
                   \/ s[p[1]].id < s[p[2]].id
                   \/ s[p[1]].id = s[p[2]].id /\ tie[p[1]] <= tie[p[2]]}
<1>1. /\ Len(s) \in Nat /\ \A i \in all : s[i] \in Bucket /\ s[i].id \in Nat
      /\ \A i \in all : tie[i] \in Nat
      /\ \A i, j \in all : tie[i] = tie[j] => i = j
  BY BucketAt, TieIs
<1>2. IsFiniteSet(all) /\ Cardinality(all) = Len(s)
  BY <1>1, UpTo
<1>a. PICK id \in [all -> Nat] : \A i \in all : id[i] = s[i].id
  <2>1. [i \in all |-> s[i].id] \in [all -> Nat]
    BY <1>1
  <2> QED
    BY <2>1
<1> DEFINE Before(i, j) == id[i] < id[j] \/ (id[i] = id[j] /\ tie[i] <= tie[j])
<1>3. \A i, j \in all : <<i, j>> \in R <=> Before(i, j)
  BY <1>a
<1>b. \A i \in all : id[i] \in Nat
  OBVIOUS
<1>4. Sort(s, tie) = Listed(s, all, R)
  BY DEF Sort
<1> HIDE DEF R
<1>5. Orders(all, R)
  <2>1. ASSUME NEW i \in all PROVE <<i, i>> \in R
    BY <1>1, <1>3
  <2>2. ASSUME NEW i \in all, NEW j \in all, <<i, j>> \in R, <<j, i>> \in R PROVE i = j
    <3>1. tie[i] = tie[j]
      BY <1>1, <1>3, <1>b, <2>2
    <3> QED
      BY <1>1, <3>1
  <2>3. ASSUME NEW i \in all, NEW j \in all, NEW k \in all, <<i, j>> \in R, <<j, k>> \in R
        PROVE  <<i, k>> \in R
    <3>1. /\ id[i] \in Nat /\ id[j] \in Nat /\ id[k] \in Nat
          /\ tie[i] \in Nat /\ tie[j] \in Nat /\ tie[k] \in Nat
      BY <1>1
    <3> HIDE DEF Before
    <3>2. Before(i, j) /\ Before(j, k)
      BY <1>3, <2>3
    <3>3. Before(i, k)
      BY <3>1, <3>2 DEF Before
    <3> QED
      BY <1>3, <3>3
  <2>4. ASSUME NEW i \in all, NEW j \in all PROVE <<i, j>> \in R \/ <<j, i>> \in R
    <3>1. id[i] \in Nat /\ id[j] \in Nat /\ tie[i] \in Nat /\ tie[j] \in Nat
      BY <1>1
    <3>2. Before(i, j) \/ Before(j, i)
      BY <3>1
    <3> HIDE DEF Before
    <3> QED
      BY <1>3, <3>2
  <2> QED
    BY <2>1, <2>2, <2>3, <2>4 DEF Orders
<1> HIDE DEF all
<1>6. PICK at : Lists(at, all, R) /\ Along(Listed(s, all, R), at, s, all)
  BY <1>2, <1>5, ListedIs
<1>7. /\ at \in Bijection(all, all) /\ all = 1..Len(s)
      /\ Sort(s, tie) = [k \in all |-> s[at[k]]]
  BY <1>2, <1>4, <1>6 DEF Lists, Along, all
<1>8. \A k \in all : at[k] \in all
  BY <1>7 DEF Bijection, Injection
<1>9. Sort(s, tie) \in [1..Len(s) -> Bucket]
  BY <1>1, <1>7, <1>8
<1>10. Sort(s, tie) \in Seq(Bucket) /\ Len(Sort(s, tie)) = Len(s)
  BY <1>1, <1>9, SeqDef, LenProperties
<1>11. ASSUME NEW k \in all, NEW l \in all, k < l
       PROVE  Sort(s, tie)[k].id <= Sort(s, tie)[l].id
  <2>1. k <= l /\ k \in 1..Cardinality(all) /\ l \in 1..Cardinality(all)
    BY <1>1, <1>2, <1>7, <1>11
  <2>2. <<at[k], at[l]>> \in R
    BY <1>6, <2>1 DEF Lists
  <2>3. s[at[k]].id <= s[at[l]].id
    <3>1. at[k] \in all /\ at[l] \in all
      BY <1>8
    <3>2. id[at[k]] \in Nat /\ id[at[l]] \in Nat
      BY <3>1
    <3>3. id[at[k]] <= id[at[l]]
      BY <1>3, <2>2, <3>1, <3>2
    <3> QED
      BY <1>a, <3>1, <3>3
  <2> QED
    BY <1>7, <2>3
<1> QED
  BY <1>7, <1>10, <1>11 DEF Sorted

Kept(s, node) == {i \in 1..Len(s) : s[i].node # node}

\* at lists the indices of the other nodes' buckets.
Keeps(at, s, node) ==
  LET n == Cardinality(Kept(s, node))
  IN  /\ n \in Nat /\ at \in Bijection(1..n, Kept(s, node))
      /\ \A k, l \in 1..n : k <= l <=> at[k] <= at[l]
      /\ WithoutNode(s, node) = [k \in 1..n |-> s[at[k]]]

LEMMA WithoutIs ==
  ASSUME NEW s \in Seq(Bucket), NEW node
  PROVE  /\ WithoutNode(s, node) \in Seq(Bucket)
         /\ Len(WithoutNode(s, node)) = Cardinality(Kept(s, node))
         /\ \E at : Keeps(at, s, node)
<1> DEFINE kept == Kept(s, node)
           R == {p \in kept \X kept : p[1] <= p[2]}
<1>1. /\ Len(s) \in Nat /\ \A i \in 1..Len(s) : s[i] \in Bucket
      /\ kept \subseteq 1..Len(s)
  BY BucketAt DEF Kept
<1>2. IsFiniteSet(kept)
  <2>1. IsFiniteSet(1..Len(s))
    BY <1>1, FS_Interval
  <2> QED
    BY <1>1, <2>1, FS_Subset
<1>3. \A i, j \in kept : i \in Nat /\ j \in Nat /\ (<<i, j>> \in R <=> i <= j)
  BY <1>1
<1>4. WithoutNode(s, node) = Listed(s, kept, R)
  BY DEF WithoutNode, Kept
<1> HIDE DEF R, kept
<1>5. Orders(kept, R)
  <2>1. ASSUME NEW i \in kept, NEW j \in kept, NEW k \in kept, <<i, j>> \in R, <<j, k>> \in R
        PROVE  <<i, k>> \in R
    BY <1>3, <2>1
  <2>2. ASSUME NEW i \in kept, NEW j \in kept
        PROVE  <<i, i>> \in R /\ (<<i, j>> \in R \/ <<j, i>> \in R)
               /\ (<<i, j>> \in R /\ <<j, i>> \in R => i = j)
    BY <1>3
  <2> QED
    BY <2>1, <2>2 DEF Orders
<1>6. PICK at : Lists(at, kept, R) /\ Along(Listed(s, kept, R), at, s, kept)
  BY <1>2, <1>5, ListedIs
<1>7. \A k \in 1..Cardinality(kept) : at[k] \in kept
  BY <1>6 DEF Lists, Bijection, Injection
<1>8. Keeps(at, s, node)
  <2>1. \A k, l \in 1..Cardinality(kept) : k <= l <=> at[k] <= at[l]
    BY <1>3, <1>6, <1>7 DEF Lists
  <2> QED
    BY <1>4, <1>6, <2>1 DEF Keeps, Lists, Along, kept
<1>9. /\ WithoutNode(s, node) \in [1..Cardinality(kept) -> Bucket]
      /\ Cardinality(kept) \in Nat
  BY <1>1, <1>4, <1>6, <1>7 DEF Lists, Along
<1>10. WithoutNode(s, node) \in Seq(Bucket) /\ Len(WithoutNode(s, node)) = Cardinality(kept)
  BY <1>9, SeqDef, LenProperties
<1> QED
  BY <1>8, <1>10 DEF kept

LEMMA WithoutSorted ==
  ASSUME NEW s \in Seq(Bucket), Sorted(s), NEW node
  PROVE  Sorted(WithoutNode(s, node))
<1>1. PICK at : Keeps(at, s, node)
  BY WithoutIs
<1>2. PICK n \in Nat : n = Cardinality(Kept(s, node))
  BY <1>1 DEF Keeps
<1>3. /\ Len(WithoutNode(s, node)) = n /\ WithoutNode(s, node) = [k \in 1..n |-> s[at[k]]]
      /\ \A k \in 1..n : at[k] \in 1..Len(s)
      /\ \A k, l \in 1..n : k <= l <=> at[k] <= at[l]
  BY <1>1, <1>2, WithoutIs DEF Keeps, Bijection, Injection, Kept
<1>4. ASSUME NEW k \in 1..n, NEW l \in 1..n, k < l PROVE s[at[k]].id <= s[at[l]].id
  <2>1. k <= l /\ ~ (l <= k)
    BY <1>4
  <2>2. at[k] \in 1..Len(s) /\ at[l] \in 1..Len(s) /\ at[k] <= at[l] /\ ~ (at[l] <= at[k])
    BY <1>3, <2>1
  <2>3. at[k] < at[l]
    BY <2>2, BucketAt
  <2> QED
    BY <2>2, <2>3 DEF Sorted
<1> QED
  BY <1>3, <1>4 DEF Sorted

----------------------------------------------------------------------------
(* How many buckets a node has *)

\* A list of the elements of s at the indices I has as many of a node as these.
LEMMA CountListed ==
  ASSUME NEW s, NEW I, NEW n \in Nat, NEW at \in Bijection(1..n, I), NEW node,
         NEW t, t = [k \in 1..n |-> s[at[k]]]
  PROVE  CountOf(t, node) = Cardinality({i \in I : s[i].node = node})
<1> DEFINE K == {k \in 1..n : t[k].node = node}
           J == {i \in I : s[i].node = node}
           g == [k \in K |-> at[k]]
<1>1. Len(t) = n
  BY SeqDef, LenProperties
<1>2. /\ \A k \in 1..n : at[k] \in I
      /\ \A k, l \in 1..n : at[k] = at[l] => k = l
      /\ \A i \in I : \E k \in 1..n : at[k] = i
  BY DEF Bijection, Injection, Surjection, IsInjective
<1>3. g \in [K -> J]
  BY <1>2
<1>4. \A k, l \in K : g[k] = g[l] => k = l
  BY <1>2
<1>5. ASSUME NEW i \in J PROVE \E k \in K : g[k] = i
  <2>1. PICK k \in 1..n : at[k] = i
    BY <1>2
  <2> QED
    BY <2>1
<1>6. IsFiniteSet(K)
  <2>1. K \in SUBSET (1..n) /\ IsFiniteSet(1..n)
    BY UpTo
  <2> HIDE DEF K
  <2> QED
    BY <2>1, FS_Subset
<1>7. CountOf(t, node) = Cardinality(K)
  BY <1>1 DEF CountOf
<1> HIDE DEF K, J, g
<1>8. g \in Bijection(K, J)
  <2>1. g \in Injection(K, J)
    BY <1>3, <1>4 DEF Injection, IsInjective
  <2>2. g \in Surjection(K, J)
    BY <1>3, <1>5 DEF Surjection
  <2> QED
    BY <2>1, <2>2 DEF Bijection
<1>9. ExistsBijection(K, J)
  BY <1>8 DEF ExistsBijection
<1>10. Cardinality(J) = Cardinality(K)
  BY <1>6, <1>9, FS_Bijection
<1> QED
  BY <1>7, <1>10 DEF J

LEMMA CountSorted ==
  ASSUME NEW s \in Seq(Bucket), NEW tie \in Ties(s), NEW node
  PROVE  CountOf(Sort(s, tie), node) = CountOf(s, node)
<1>1. PICK at \in Bijection(1..Len(s), 1..Len(s)) :
        Sort(s, tie) = [k \in 1..Len(s) |-> s[at[k]]]
  BY SortIs
<1>2. Len(s) \in Nat
  BY BucketAt
<1>3. PICK t, n, I : t = Sort(s, tie) /\ n = Len(s) /\ I = 1..Len(s)
  OBVIOUS
<1>4. n \in Nat /\ at \in Bijection(1..n, I) /\ t = [k \in 1..n |-> s[at[k]]]
  BY <1>1, <1>2, <1>3
<1>5. CountOf(t, node) = Cardinality({i \in I : s[i].node = node})
  BY <1>4, CountListed
<1> QED
  BY <1>3, <1>5 DEF CountOf

LEMMA CountWithout ==
  ASSUME NEW s \in Seq(Bucket), NEW node, NEW other
  PROVE  CountOf(WithoutNode(s, node), other) = IF other = node THEN 0 ELSE CountOf(s, other)
<1>1. PICK at : Keeps(at, s, node)
  BY WithoutIs
<1>2. CountOf(WithoutNode(s, node), other) = Cardinality({i \in Kept(s, node) : s[i].node = other})
  BY <1>1, CountListed DEF Keeps
<1>3. CASE other = node
  <2>1. {i \in Kept(s, node) : s[i].node = other} = {}
    BY <1>3 DEF Kept
  <2> QED
    BY <1>2, <1>3, <2>1, FS_EmptySet
<1>4. CASE other # node
  <2>1. {i \in Kept(s, node) : s[i].node = other} = {i \in 1..Len(s) : s[i].node = other}
    BY <1>4 DEF Kept
  <2> QED
    BY <1>2, <1>4, <2>1 DEF CountOf
<1> QED
  BY <1>3, <1>4

LEMMA CountConcat ==
  ASSUME NEW s \in Seq(Bucket), NEW t \in Seq(Bucket), NEW node
  PROVE  /\ CountOf(s \o t, node) = CountOf(s, node) + CountOf(t, node)
         /\ CountOf(s, node) \in Nat /\ CountOf(t, node) \in Nat
<1> DEFINE m == Len(s)
           n == Len(t)
           I == {i \in 1..m : s[i].node = node}
           J == {j \in 1..n : t[j].node = node}
           J2 == {j \in (m + 1)..(m + n) : t[j - m].node = node}
           g == [j \in J |-> j + m]
<1>1. m \in Nat /\ n \in Nat
  BY LenProperties
<1>2. /\ Len(s \o t) = m + n
      /\ \A i \in 1..(m + n) : (s \o t)[i] = IF i <= m THEN s[i] ELSE t[i - m]
  BY ConcatProperties
<1>3. {i \in 1..(m + n) : (s \o t)[i].node = node} = I \cup J2
  <2> DEFINE st == s \o t
  <2>1. \A i \in 1..(m + n) : st[i] = IF i <= m THEN s[i] ELSE t[i - m]
    BY <1>2
  <2> HIDE DEF st, m, n
  <2>2. ASSUME NEW i
        PROVE  i \in {x \in 1..(m + n) : st[x].node = node} <=> i \in I \cup J2
    <3>1. CASE i \in 1..m
      BY <1>1, <2>1, <3>1
    <3>2. CASE i \in (m + 1)..(m + n)
      BY <1>1, <2>1, <3>2
    <3>3. CASE i \notin 1..(m + n)
      <4>1. i \notin 1..m /\ i \notin (m + 1)..(m + n)
        BY <1>1, <3>3
      <4> QED
        BY <3>3, <4>1
    <3> QED
      BY <1>1, <3>1, <3>2, <3>3
  <2> QED
    BY <2>2 DEF st
<1>4. IsFiniteSet(1..m) /\ IsFiniteSet(1..n)
  BY <1>1, UpTo
<1>5. I \in SUBSET (1..m) /\ J \in SUBSET (1..n)
  OBVIOUS
<1>6. I \cap J2 = {}
  BY <1>1
<1>7. /\ g \in [J -> J2]
      /\ \A j, k \in J : g[j] = g[k] => j = k
  BY <1>1
<1>8. ASSUME NEW k \in J2 PROVE \E j \in J : g[j] = k
  <2>1. k - m \in J /\ g[k - m] = k
    BY <1>1
  <2> QED
    BY <2>1
<1>9. CountOf(s, node) = Cardinality(I) /\ CountOf(t, node) = Cardinality(J)
  BY DEF CountOf
<1>10. CountOf(s \o t, node) = Cardinality(I \cup J2)
  BY <1>2, <1>3 DEF CountOf
<1> HIDE DEF I, J, J2, g, m, n
<1>11. IsFiniteSet(I) /\ IsFiniteSet(J)
  BY <1>4, <1>5, FS_Subset
<1>12. ExistsBijection(J, J2)
  <2>1. g \in Injection(J, J2)
    BY <1>7 DEF Injection, IsInjective
  <2>2. g \in Surjection(J, J2)
    BY <1>7, <1>8 DEF Surjection
  <2> QED
    BY <2>1, <2>2 DEF Bijection, ExistsBijection
<1>13. IsFiniteSet(J2) /\ Cardinality(J2) = Cardinality(J)
  BY <1>11, <1>12, FS_Bijection
<1>14. Cardinality(I \cup J2) = Cardinality(I) + Cardinality(J2) - Cardinality(I \cap J2)
  BY <1>11, <1>13, FS_Union
<1>15. Cardinality(I) \in Nat /\ Cardinality(J) \in Nat /\ Cardinality(I \cap J2) = 0
  BY <1>6, <1>11, FS_CardinalityType, FS_EmptySet
<1> QED
  BY <1>9, <1>10, <1>13, <1>14, <1>15

----------------------------------------------------------------------------
(* The buckets of a node, and of NewRing's *)

\* What add has made with its k-th digest.
Digested(node, n, k, before) ==
  LET i == Len(before)
      m == IF n - i > 64 THEN 64 ELSE n - i
  IN  before \o [j \in 1..((m + 3) \div 4) |-> [id |-> Digests[node][k][j], node |-> node]]

Making(node, n) ==
  LET made[k \in 0..n] == IF k = 0 THEN <<>> ELSE Digested(node, n, k, made[k - 1])
  IN  made

LEMMA DigestedIs ==
  ASSUME NEW node \in Nodes, NEW n \in BucketCounts \cup {Default}, NEW k \in 1..n,
         NEW before \in Seq(Bucket), NEW after, after = Digested(node, n, k, before)
  PROVE  /\ after \in Seq(Bucket)
         /\ Len(before) <= n => Len(after) <= n
         /\ Len(before) < n => Len(after) > Len(before)
         /\ Len(before) = n => after = before
         /\ (\A i \in 1..Len(before) : before[i].node = node)
              => \A i \in 1..Len(after) : after[i].node = node
<1> DEFINE i == Len(before)
           m == IF n - i > 64 THEN 64 ELSE n - i
           w == (m + 3) \div 4
           new == [j \in 1..w |-> [id |-> Digests[node][k][j], node |-> node]]
<1>1. n \in Int /\ i \in Nat /\ n <= Len(Digests[node])
  BY RingAssumption, LenProperties
<1>2. /\ w \in Int /\ w <= 16
      /\ i <= n => w >= 0 /\ i + w <= n
      /\ i < n => w > 0
      /\ i = n => w = 0
  <2>0. n - i \in Int
    BY <1>1
  <2>1. PICK d \in Int : d = n - i
    BY <2>0
  <2>2. m = IF d > 64 THEN 64 ELSE d
    BY <2>1
  <2>3. m \in Int /\ m <= 64 /\ m <= d /\ (d >= 0 => m >= 0) /\ (d > 0 => m > 0) /\ (d = 0 => m = 0)
    BY <2>2
  <2> HIDE DEF m
  <2>4. /\ w \in Int /\ w <= 16
        /\ m >= 0 => w >= 0 /\ w <= m
        /\ m > 0 => w > 0
        /\ m = 0 => w = 0
    BY <2>3
  <2> HIDE DEF w, i
  <2>5. /\ i <= n <=> d >= 0
        /\ i < n <=> d > 0
        /\ i = n <=> d = 0
        /\ i + d = n
    BY <1>1, <2>1
  <2>6. /\ d >= 0 => w >= 0 /\ w <= d
        /\ d > 0 => w > 0
        /\ d = 0 => w = 0
    BY <2>3, <2>4
  <2>7. i <= n => i + w <= n
    BY <1>1, <2>4, <2>5, <2>6
  <2> QED
    BY <2>4, <2>5, <2>6, <2>7
<1>3. after = before \o new
  BY DEF Digested
<1>4. Digests[node][k] \in [1..16 -> Ids]
  <2>1. Digests[node] \in Seq([1..16 -> Ids])
    BY RingAssumption
  <2>2. PICK l \in Nat : l = Len(Digests[node])
    BY <2>1, LenProperties
  <2>3. k \in 1..Len(Digests[node])
    BY <1>1, <2>2
  <2> QED
    BY <2>1, <2>3, ElementOfSeq
<1>5. PICK len \in Nat : 1..w = 1..len /\ (w >= 0 => len = w)
  <2>1. CASE w >= 0
    <3>1. w \in Nat
      BY <1>2, <2>1
    <3> QED
      BY <3>1
  <2>2. CASE w < 0
    <3>1. 1..w = 1..0 /\ ~ (w >= 0)
      BY <1>2, <2>2
    <3> QED
      BY <3>1
  <2> QED
    BY <1>2, <2>1, <2>2
<1> HIDE DEF i, m, w
<1>6. new \in Seq(Bucket) /\ Len(new) = len /\ \A j \in 1..len : new[j].node = node
  <2>1. ASSUME NEW j \in 1..w PROVE [id |-> Digests[node][k][j], node |-> node] \in Bucket
    <3>1. j \in 1..16
      BY <1>2
    <3> QED
      BY <1>4, <3>1 DEF Bucket
  <2>2. new \in [1..len -> Bucket] /\ \A j \in 1..len : new[j].node = node
    BY <1>5, <2>1
  <2> HIDE DEF new
  <2> QED
    BY <2>2, SeqDef, LenProperties
<1> HIDE DEF new
<1>7. /\ after \in Seq(Bucket) /\ Len(after) = i + len
      /\ \A l \in 1..(i + len) : after[l] = IF l <= i THEN before[l] ELSE new[l - i]
  <2>1. i = Len(before)
    BY DEF i
  <2>2. /\ before \o new \in Seq(Bucket) /\ Len(before \o new) = Len(before) + Len(new)
        /\ \A l \in 1..(Len(before) + Len(new)) :
             (before \o new)[l] = IF l <= Len(before) THEN before[l] ELSE new[l - Len(before)]
    BY <1>6, ConcatProperties
  <2> QED
    BY <1>3, <1>6, <2>1, <2>2
<1>8. ASSUME \A l \in 1..i : before[l].node = node, NEW l \in 1..Len(after)
      PROVE  after[l].node = node
  <2>1. CASE l <= i
    BY <1>1, <1>7, <1>8, <2>1
  <2>2. CASE ~ (l <= i)
    <3>1. l - i \in 1..len
      BY <1>1, <1>7, <2>2
    <3> QED
      BY <1>6, <1>7, <2>2, <3>1
  <2> QED
    BY <2>1, <2>2
<1>9. i = n => after = before
  <2>1. ASSUME i = n PROVE after = before
    <3>1. len = 0
      BY <1>2, <1>5, <2>1
    <3>2. new = <<>>
      BY <1>6, <3>1, EmptySeq
    <3> QED
      BY <1>3, <3>2, ConcatEmptySeq
  <2> QED
    BY <2>1
<1>10. /\ i <= n => Len(after) <= n
       /\ i < n => Len(after) > i
  BY <1>1, <1>2, <1>5, <1>7
<1> QED
  BY <1>7, <1>8, <1>9, <1>10 DEF i

LEMMA MakingIs ==
  ASSUME NEW node \in Nodes, NEW n \in BucketCounts \cup {Default}, n > 0
  PROVE  Making(node, n) = [k \in 0..n |-> IF k = 0 THEN <<>>
                                           ELSE Digested(node, n, k, Making(node, n)[k - 1])]
<1> DEFINE V == Seq(Bucket)
           G == [k \in 1..n |-> [v \in V |-> Digested(node, n, k, v)]]
           IsMade(f) == f = [k \in 0..n |-> IF k = 0 THEN <<>> ELSE Digested(node, n, k, f[k - 1])]
<1>1. n \in Nat /\ <<>> \in V
  BY RingAssumption, EmptySeq
<1>2. \A k \in 1..n : \A v \in V : Digested(node, n, k, v) \in V
  BY DigestedIs
<1>3. Iterates(n, V, <<>>, G)
  <2> HIDE DEF V
  <2> QED
    BY <1>1, <1>2 DEF Iterates
<1>4. PICK f \in [0..n -> V] : \A k \in 0..n : f[k] = IF k = 0 THEN <<>> ELSE G[k][f[k - 1]]
  <2> HIDE DEF G, V
  <2> QED
    BY <1>3, Iterated
<1>5. ASSUME NEW k \in 0..n, k # 0 PROVE f[k] = Digested(node, n, k, f[k - 1])
  <2>1. k \in 1..n /\ k - 1 \in 0..n
    BY <1>1, <1>5
  <2>2. f[k - 1] \in V
    BY <2>1
  <2> QED
    BY <1>4, <1>5, <2>1, <2>2
<1>6. IsMade(f)
  <2> HIDE DEF V, G
  <2> QED
    BY <1>4, <1>5
<1>7. Making(node, n) = CHOOSE g : IsMade(g)
  BY DEF Making
<1> HIDE DEF IsMade
<1>8. IsMade(Making(node, n))
  BY <1>6, <1>7
<1> QED
  BY <1>8 DEF IsMade

LEMMA MadeIs ==
  ASSUME NEW node \in Nodes, NEW n \in BucketCounts \cup {Default}
  PROVE  /\ Made(node, n) \in Seq(Bucket)
         /\ Len(Made(node, n)) = IF n < 0 THEN 0 ELSE n
         /\ \A i \in 1..Len(Made(node, n)) : Made(node, n)[i].node = node
<1>1. n \in Int
  BY RingAssumption
<1>2. Made(node, n) = IF n <= 0 THEN <<>> ELSE Making(node, n)[n]
  BY DEF Made, Making, Digested
<1>3. CASE n <= 0
  <2>1. Made(node, n) = <<>> /\ (IF n < 0 THEN 0 ELSE n) = 0
    BY <1>1, <1>2, <1>3
  <2> QED
    BY <2>1, EmptySeq
<1>4. CASE n > 0
  <2> DEFINE M == Making(node, n)
             T == {k \in 0..n : /\ M[k] \in Seq(Bucket)
                                /\ Len(M[k]) >= k /\ Len(M[k]) <= n
                                /\ \A i \in 1..Len(M[k]) : M[k][i].node = node}
  <2>0. n \in Nat
    BY <1>1, <1>4
  <2>1. \A k \in 0..n : M[k] = IF k = 0 THEN <<>> ELSE Digested(node, n, k, M[k - 1])
    BY <1>4, MakingIs
  <2> HIDE DEF M
  <2>2. 0 \in T
    <3>1. M[0] = <<>>
      BY <2>0, <2>1
    <3>2. M[0] \in Seq(Bucket) /\ Len(M[0]) = 0
      BY <3>1, EmptySeq
    <3> QED
      BY <2>0, <3>2
  <2>3. ASSUME NEW k \in 0..(n - 1), k \in T PROVE k + 1 \in T
    <3>1. k + 1 \in 1..n /\ k + 1 # 0 /\ (k + 1) - 1 = k
      BY <2>0
    <3>2. M[k + 1] = Digested(node, n, k + 1, M[k])
      BY <2>0, <2>1, <3>1
    <3>3. /\ M[k] \in Seq(Bucket) /\ Len(M[k]) \in Nat /\ Len(M[k]) >= k /\ Len(M[k]) <= n
          /\ \A i \in 1..Len(M[k]) : M[k][i].node = node
      BY <2>3, LenProperties
    <3>4. PICK after : after = M[k + 1]
      OBVIOUS
    <3>5. /\ after \in Seq(Bucket) /\ Len(after) <= n
          /\ Len(M[k]) < n => Len(after) > Len(M[k])
          /\ Len(M[k]) = n => after = M[k]
          /\ \A i \in 1..Len(after) : after[i].node = node
      <4>1. PICK j \in 1..n, before \in Seq(Bucket) : j = k + 1 /\ before = M[k]
        BY <3>1, <3>3
      <4>2. after = Digested(node, n, j, before)
        BY <3>2, <3>4, <4>1
      <4>3. \A i \in 1..Len(before) : before[i].node = node
        BY <3>3, <4>1
      <4>4. /\ after \in Seq(Bucket)
            /\ Len(before) <= n => Len(after) <= n
            /\ Len(before) < n => Len(after) > Len(before)
            /\ Len(before) = n => after = before
            /\ \A i \in 1..Len(after) : after[i].node = node
        BY <4>2, <4>3, DigestedIs
      <4> QED
        BY <3>3, <4>1, <4>4
    <3>6. Len(after) >= k + 1
      <4>1. Len(after) \in Nat
        BY <3>5, LenProperties
      <4> QED
        BY <2>0, <3>3, <3>5, <4>1
    <3> QED
      BY <3>1, <3>4, <3>5, <3>6
  <2> HIDE DEF T
  <2>4. n \in T
    <3>1. 0..n \subseteq T
      BY <2>0, <2>2, <2>3, InductTo
    <3> QED
      BY <2>0, <3>1
  <2>5. /\ M[n] \in Seq(Bucket) /\ Len(M[n]) \in Nat /\ Len(M[n]) >= n /\ Len(M[n]) <= n
        /\ \A i \in 1..Len(M[n]) : M[n][i].node = node
    BY <2>4, LenProperties DEF T
  <2>6. Made(node, n) = M[n] /\ ~ (n < 0)
    BY <1>2, <2>0, <1>4 DEF M
  <2> QED
    BY <2>0, <2>5, <2>6
<1> QED
  BY <1>1, <1>3, <1>4

LEMMA CountMade ==
  ASSUME NEW node \in Nodes, NEW n \in BucketCounts \cup {Default}, NEW other
  PROVE  CountOf(Made(node, n), other) = IF other = node /\ n > 0 THEN n ELSE 0
<1>1. PICK s, l : s = Made(node, n) /\ l = Len(s)
  OBVIOUS
<1>2. /\ l \in Nat /\ l = (IF n < 0 THEN 0 ELSE n) /\ n \in Int
      /\ \A i \in 1..l : s[i].node = node
  <2>1. n \in Int
    BY RingAssumption
  <2> QED
    BY <1>1, <2>1, MadeIs, LenProperties
<1>3. CASE other = node
  <2>1. {i \in 1..l : s[i].node = other} = 1..l
    BY <1>2, <1>3
  <2>2. CountOf(s, other) = l
    BY <1>1, <1>2, <2>1, UpTo DEF CountOf
  <2> QED
    BY <1>1, <1>2, <1>3, <2>2
<1>4. CASE other # node
  <2>1. {i \in 1..l : s[i].node = other} = {}
    BY <1>2, <1>4
  <2>2. CountOf(s, other) = 0
    BY <1>1, <2>1, FS_EmptySet DEF CountOf
  <2> QED
    BY <1>1, <1>4, <2>2
<1> QED
  BY <1>3, <1>4

Adding(nodes) ==
  LET added[i \in 0..Len(nodes)] ==
        IF i = 0 THEN <<>> ELSE added[i - 1] \o Made(nodes[i], Default)
  IN  added

LEMMA AddingIs ==
  ASSUME NEW nodes \in FirstNodes
  PROVE  /\ Len(nodes) \in Nat /\ \A i \in 1..Len(nodes) : nodes[i] \in Nodes
         /\ \A i \in 0..Len(nodes) :
              Adding(nodes)[i] = IF i = 0 THEN <<>>
                                 ELSE Adding(nodes)[i - 1] \o Made(nodes[i], Default)
<1>0. PICK n : n = Len(nodes)
  OBVIOUS
<1>1. n \in Nat /\ \A i \in 1..n : nodes[i] \in Nodes
  <2>1. nodes \in Seq(Nodes)
    BY RingAssumption
  <2> QED
    BY <1>0, <2>1, LenProperties, ElementOfSeq
<1> DEFINE V == Seq(Bucket)
           G == [i \in 1..n |-> [v \in V |-> v \o Made(nodes[i], Default)]]
           IsAdded(f) == f = [i \in 0..n |-> IF i = 0 THEN <<>> ELSE f[i - 1] \o Made(nodes[i], Default)]
<1>2. \A i \in 1..n : \A v \in V : v \o Made(nodes[i], Default) \in V
  BY <1>1, MadeIs, ConcatProperties
<1>3. Iterates(n, V, <<>>, G)
  <2>1. <<>> \in V
    BY EmptySeq
  <2> HIDE DEF V
  <2> QED
    BY <1>1, <1>2, <2>1 DEF Iterates
<1>4. PICK f \in [0..n -> V] : \A i \in 0..n : f[i] = IF i = 0 THEN <<>> ELSE G[i][f[i - 1]]
  <2> HIDE DEF G, V
  <2> QED
    BY <1>3, Iterated
<1>5. ASSUME NEW i \in 0..n, i # 0 PROVE f[i] = f[i - 1] \o Made(nodes[i], Default)
  <2>1. i \in 1..n /\ i - 1 \in 0..n
    BY <1>1, <1>5
  <2>2. f[i - 1] \in V
    BY <2>1
  <2> QED
    BY <1>4, <1>5, <2>1, <2>2
<1>6. IsAdded(f)
  <2> HIDE DEF V, G
  <2> QED
    BY <1>4, <1>5
<1>7. Adding(nodes) = CHOOSE g : IsAdded(g)
  BY <1>0 DEF Adding
<1> HIDE DEF IsAdded
<1>8. IsAdded(Adding(nodes))
  BY <1>6, <1>7
<1>9. \A i \in 0..n : Adding(nodes)[i] = IF i = 0 THEN <<>>
                                         ELSE Adding(nodes)[i - 1] \o Made(nodes[i], Default)
  BY <1>8 DEF IsAdded
<1> QED
  BY <1>0, <1>1, <1>9

LEMMA AddedIs ==
  ASSUME NEW nodes \in FirstNodes
  PROVE  /\ Added(nodes) \in Seq(Bucket)
         /\ \A n \in Nodes :
              CountOf(Added(nodes), n) = Default * Cardinality({i \in 1..Len(nodes) : nodes[i] = n})
<1> DEFINE C(k, n) == Cardinality({i \in 1..k : nodes[i] = n})
<1>1. PICK A, l : A = Adding(nodes) /\ l = Len(nodes)
  OBVIOUS
<1>2. /\ l \in Nat /\ \A i \in 1..l : nodes[i] \in Nodes
      /\ \A i \in 0..l : A[i] = IF i = 0 THEN <<>> ELSE A[i - 1] \o Made(nodes[i], Default)
  BY <1>1, AddingIs
<1>3. Added(nodes) = A[l] /\ Default \in Nat
  BY <1>1, RingAssumption DEF Added, Adding
<1> DEFINE T == {k \in 0..l : A[k] \in Seq(Bucket) /\ \A n \in Nodes : CountOf(A[k], n) = Default * C(k, n)}
<1>4. 0 \in T
  <2>1. A[0] = <<>>
    BY <1>2
  <2>2. A[0] \in Seq(Bucket) /\ Len(A[0]) = 0
    BY <2>1, EmptySeq
  <2>3. ASSUME NEW n \in Nodes PROVE CountOf(A[0], n) = 0 /\ C(0, n) = 0
    <3>1. {i \in 1..0 : A[0][i].node = n} = {} /\ {i \in 1..0 : nodes[i] = n} = {}
      OBVIOUS
    <3> QED
      BY <2>2, <3>1, FS_EmptySet DEF CountOf
  <2> HIDE DEF C
  <2> QED
    BY <1>2, <1>3, <2>2, <2>3
<1>5. ASSUME NEW k \in 0..(l - 1), k \in T PROVE k + 1 \in T
  <2>1. /\ k + 1 \in 0..l /\ k + 1 \in 1..l /\ k \in Nat
        /\ A[k] \in Seq(Bucket) /\ nodes[k + 1] \in Nodes
        /\ A[k + 1] = A[k] \o Made(nodes[k + 1], Default)
    <3>1. k + 1 \in 0..l /\ k + 1 \in 1..l /\ k \in Nat /\ k + 1 # 0 /\ (k + 1) - 1 = k
      BY <1>2
    <3>2. A[k + 1] = A[(k + 1) - 1] \o Made(nodes[k + 1], Default)
      BY <1>2, <3>1
    <3> QED
      BY <1>2, <1>5, <3>1, <3>2
  <2>2. PICK s, t, node : s = A[k] /\ t = Made(nodes[k + 1], Default) /\ node = nodes[k + 1]
    OBVIOUS
  <2>3. t \in Seq(Bucket) /\ A[k + 1] = s \o t /\ s \in Seq(Bucket)
    BY <2>1, <2>2, MadeIs
  <2>4. A[k + 1] \in Seq(Bucket)
    BY <2>3, ConcatProperties
  <2>5. ASSUME NEW n \in Nodes PROVE CountOf(A[k + 1], n) = Default * C(k + 1, n)
    <3>1. CountOf(A[k + 1], n) = CountOf(s, n) + CountOf(t, n)
      BY <2>3, CountConcat
    <3>2. CountOf(s, n) = Default * C(k, n)
      BY <1>5, <2>2
    <3>3. CountOf(t, n) = IF n = node THEN Default ELSE 0
      <4>1. CountOf(t, n) = IF n = node /\ Default > 0 THEN Default ELSE 0
        BY <2>1, <2>2, CountMade
      <4> QED
        BY <1>3, <4>1
    <3>4. /\ C(k, n) \in Nat
          /\ C(k + 1, n) = IF n = node THEN C(k, n) + 1 ELSE C(k, n)
      <4>1. PICK I : I = {i \in 1..k : nodes[i] = n}
        OBVIOUS
      <4>2. IsFiniteSet(I) /\ k + 1 \notin I
        <5>1. IsFiniteSet(1..k) /\ I \in SUBSET (1..k)
          BY <2>1, <4>1, UpTo
        <5> QED
          BY <2>1, <4>1, <5>1, FS_Subset
      <4>3. {i \in 1..(k + 1) : nodes[i] = n} = IF n = node THEN I \cup {k + 1} ELSE I
        BY <2>1, <2>2, <4>1
      <4>4. /\ Cardinality(I) \in Nat
            /\ Cardinality(I \cup {k + 1}) = Cardinality(I) + 1
        BY <4>2, FS_CardinalityType, FS_AddElement
      <4> QED
        BY <4>1, <4>3, <4>4
    <3> HIDE DEF C
    <3>5. \A c \in Nat : Default * (c + 1) = Default * c + Default
      BY <1>3
    <3>6. Default * C(k, n) + 0 = Default * C(k, n)
      <4>1. \A c \in Nat : Default * c + 0 = Default * c
        BY <1>3
      <4> QED
        BY <3>4, <4>1
    <3> QED
      BY <3>1, <3>2, <3>3, <3>4, <3>5, <3>6
  <2> HIDE DEF C
  <2> QED
    BY <2>1, <2>4, <2>5
<1> HIDE DEF T
<1>6. l \in T
  <2>1. 0..l \subseteq T
    BY <1>2, <1>4, <1>5, InductTo
  <2> QED
    BY <1>2, <2>1
<1> QED
  BY <1>1, <1>3, <1>6 DEF T

----------------------------------------------------------------------------
(* The ring stays sorted, with as many buckets of each node as were asked for *)

RingInv == RingShape /\ asked \in [Nodes -> Nat]

LEMMA InitRing == RingInit => RingInv
<1> SUFFICES ASSUME RingInit PROVE RingInv
  OBVIOUS
<1>1. PICK nodes \in FirstNodes :
        /\ \E tie \in Ties(Added(nodes)) : buckets = Sort(Added(nodes), tie)
        /\ asked = [n \in Nodes |-> Default * Cardinality({i \in 1..Len(nodes) : nodes[i] = n})]
  BY DEF RingInit
<1>2. PICK tie \in Ties(Added(nodes)) : buckets = Sort(Added(nodes), tie)
  BY <1>1
<1>3. PICK s \in Seq(Bucket) :
        /\ s = Added(nodes)
        /\ \A n \in Nodes :
             CountOf(s, n) = Default * Cardinality({i \in 1..Len(nodes) : nodes[i] = n})
  BY AddedIs
<1>4. buckets \in Seq(Bucket) /\ Sorted(buckets)
  BY <1>2, <1>3, SortIs
<1>5. \A n \in Nodes : CountOf(buckets, n) = CountOf(s, n)
  BY <1>2, <1>3, CountSorted
<1>6. \A n \in Nodes : asked[n] = CountOf(buckets, n)
  BY <1>1, <1>3, <1>5
<1>7. \A n \in Nodes : CountOf(buckets, n) \in Nat
  BY <1>4, CountConcat
<1> QED
  BY <1>1, <1>4, <1>6, <1>7 DEF RingInv, RingShape, Sorted

LEMMA AddRing ==
  ASSUME RingInv, NEW node \in Nodes, NEW n \in BucketCounts \cup {Default}, AddWithOpts(node, n)
  PROVE  RingInv'
<1>1. PICK kept, made, all : /\ kept = WithoutNode(buckets, node) /\ made = Made(node, n)
                            /\ all = kept \o made
  OBVIOUS
<1>2. PICK tie \in Ties(all) : buckets' = Sort(all, tie)
  BY <1>1 DEF AddWithOpts
<1>3. /\ buckets \in Seq(Bucket) /\ n \in Int
      /\ asked \in [Nodes -> Nat] /\ \A m \in Nodes : CountOf(buckets, m) = asked[m]
  BY RingAssumption DEF RingInv, RingShape
<1>4. kept \in Seq(Bucket) /\ made \in Seq(Bucket) /\ all \in Seq(Bucket)
  BY <1>1, <1>3, WithoutIs, MadeIs, ConcatProperties
<1>5. buckets' \in Seq(Bucket) /\ Sorted(buckets')
  BY <1>2, <1>4, SortIs
<1>6. asked' = [asked EXCEPT ![node] = IF n < 0 THEN 0 ELSE n]
  BY DEF AddWithOpts
<1>7. asked' \in [Nodes -> Nat]
  BY <1>3, <1>6
<1>8. ASSUME NEW m \in Nodes PROVE CountOf(buckets', m) = asked'[m]
  <2>1. CountOf(buckets', m) = CountOf(all, m)
    BY <1>2, <1>4, CountSorted
  <2>2. /\ CountOf(all, m) = CountOf(kept, m) + CountOf(made, m)
        /\ CountOf(kept, m) \in Nat
    BY <1>1, <1>4, CountConcat
  <2>3. CountOf(kept, m) = IF m = node THEN 0 ELSE CountOf(buckets, m)
    BY <1>1, <1>3, CountWithout
  <2>4. CountOf(made, m) = IF m = node /\ n > 0 THEN n ELSE 0
    BY <1>1, CountMade
  <2>5. asked'[m] = IF m # node THEN asked[m] ELSE IF n < 0 THEN 0 ELSE n
    BY <1>3, <1>6
  <2> QED
    BY <1>3, <2>1, <2>2, <2>3, <2>4, <2>5
<1> QED
  BY <1>5, <1>7, <1>8 DEF RingInv, RingShape, Sorted, CountOf

LEMMA RemoveRing ==
  ASSUME RingInv, NEW node \in Nodes, RemoveNode(node)
  PROVE  RingInv'
<1>1. /\ buckets \in Seq(Bucket) /\ Sorted(buckets)
      /\ asked \in [Nodes -> Nat] /\ \A m \in Nodes : CountOf(buckets, m) = asked[m]
  BY DEF RingInv, RingShape, Sorted
<1>2. buckets' = WithoutNode(buckets, node) /\ asked' = [asked EXCEPT ![node] = 0]
  BY DEF RemoveNode
<1>3. buckets' \in Seq(Bucket) /\ Sorted(buckets')
  BY <1>1, <1>2, WithoutIs, WithoutSorted
<1>4. \A m \in Nodes : CountOf(buckets', m) = asked'[m]
  BY <1>1, <1>2, CountWithout
<1>5. asked' \in [Nodes -> Nat]
  BY <1>1, <1>2
<1> QED
  BY <1>3, <1>4, <1>5 DEF RingInv, RingShape, Sorted, CountOf

LEMMA NextRing ==
  ASSUME RingInv, [RingNext]_ringVars
  PROVE  RingInv'
<1>1. CASE RingNext
  BY <1>1, AddRing, RemoveRing DEF RingNext
<1>2. CASE UNCHANGED ringVars
  BY <1>2 DEF ringVars, RingInv, RingShape, CountOf, Bucket
<1> QED
  BY <1>1, <1>2

\* However nodes are added, added again and removed, the buckets stay sorted, and each node
\* has as many as were asked for last.
THEOREM Shape == RingSpec => []RingShape
<1>1. RingInv /\ [RingNext]_ringVars => RingInv'
  BY NextRing
<1>2. RingInv => RingShape
  BY DEF RingInv
<1> QED
  BY InitRing, <1>1, <1>2, PTL DEF RingSpec

----------------------------------------------------------------------------
(* The binary search *)

Ranges(n) == [i : 0..n, j : 0..n]

Middle(r) == r.i + (r.j - r.i) \div 2

\* What the loop goes on with when it has looked at the middle of a range.
Half(s, c, r) ==
  IF s[Middle(r) + 1].id < c THEN [r EXCEPT !.i = Middle(r) + 1] ELSE [r EXCEPT !.j = Middle(r)]

Searching(s, c) ==
  LET search[r \in Ranges(Len(s))] ==
        IF r.i >= r.j THEN r.i
        ELSE IF s[Middle(r) + 1].id < c THEN search[[r EXCEPT !.i = Middle(r) + 1]]
                                        ELSE search[[r EXCEPT !.j = Middle(r)]]
  IN  search

LEMMA HalfIs ==
  ASSUME NEW n \in Nat, NEW r \in Ranges(n), r.i < r.j, NEW s, NEW c
  PROVE  /\ r.i \in 0..n /\ r.j \in 0..n
         /\ Middle(r) \in Nat /\ r.i <= Middle(r) /\ Middle(r) < r.j
         /\ Half(s, c, r) \in Ranges(n)
         /\ Half(s, c, r).i = IF s[Middle(r) + 1].id < c THEN Middle(r) + 1 ELSE r.i
         /\ Half(s, c, r).j = IF s[Middle(r) + 1].id < c THEN r.j ELSE Middle(r)
<1>1. r.i \in 0..n /\ r.j \in 0..n
  BY DEF Ranges
<1>2. PICK i \in 0..n, j \in 0..n : i = r.i /\ j = r.j
  BY <1>1
<1>3. i + (j - i) \div 2 \in Nat /\ i <= i + (j - i) \div 2 /\ i + (j - i) \div 2 < j
  BY <1>2
<1>4. PICK p \in Nat : p = Middle(r)
  BY <1>2, <1>3 DEF Middle
<1>5. i <= p /\ p < j
  BY <1>2, <1>3, <1>4 DEF Middle
<1>6. p + 1 \in 0..n /\ p \in 0..n
  BY <1>5
<1>7. r = [i |-> i, j |-> j]
  BY <1>2 DEF Ranges
<1>8. Half(s, c, r) = IF s[p + 1].id < c THEN [i |-> p + 1, j |-> j] ELSE [i |-> i, j |-> p]
  BY <1>4, <1>7 DEF Half
<1> QED
  BY <1>1, <1>2, <1>4, <1>5, <1>6, <1>8 DEF Ranges

LEMMA SearchingIs ==
  ASSUME NEW s, Len(s) \in Nat, NEW c
  PROVE  \A r \in Ranges(Len(s)) :
           Searching(s, c)[r] = IF r.i >= r.j THEN r.i ELSE Searching(s, c)[Half(s, c, r)]
<1> DEFINE n == Len(s)
           D == Ranges(n)
           V == 0..n
           F == [r \in D |-> [g \in [D -> V] |-> IF r.i >= r.j THEN r.i ELSE g[Half(s, c, r)]]]
           IsSearch(f) ==
             f = [r \in D |-> IF r.i >= r.j THEN r.i
                              ELSE IF s[Middle(r) + 1].id < c THEN f[[r EXCEPT !.i = Middle(r) + 1]]
                                                              ELSE f[[r EXCEPT !.j = Middle(r)]]]
<1>1. \A r \in D : r.i \in 0..n /\ r.j \in 0..n
  BY DEF Ranges
<1>2. PICK m \in [D -> 0..n] : \A r \in D : m[r] = IF r.i < r.j THEN r.j - r.i ELSE 0
  <2>1. ASSUME NEW r \in D PROVE (IF r.i < r.j THEN r.j - r.i ELSE 0) \in 0..n
    BY <1>1
  <2> HIDE DEF D
  <2>2. [r \in D |-> IF r.i < r.j THEN r.j - r.i ELSE 0] \in [D -> 0..n]
    BY <2>1
  <2> QED
    BY <2>2
<1>3. ASSUME NEW r \in D, ~ (r.i >= r.j) PROVE Half(s, c, r) \in D /\ m[Half(s, c, r)] < m[r]
  <2>1. r.i < r.j
    BY <1>1, <1>3
  <2>2. PICK h \in D : /\ h = Half(s, c, r)
                       /\ h.i \in 0..n /\ h.j \in 0..n /\ Middle(r) \in Nat
                       /\ r.i <= Middle(r) /\ Middle(r) < r.j
                       /\ \/ h.i = Middle(r) + 1 /\ h.j = r.j
                          \/ h.i = r.i /\ h.j = Middle(r)
    <3>1. n \in Nat
      OBVIOUS
    <3>2. Ranges(n) = D
      OBVIOUS
    <3> HIDE DEF n, D
    <3>3. /\ Half(s, c, r) \in D /\ Middle(r) \in Nat
          /\ r.i <= Middle(r) /\ Middle(r) < r.j
          /\ \/ Half(s, c, r).i = Middle(r) + 1 /\ Half(s, c, r).j = r.j
             \/ Half(s, c, r).i = r.i /\ Half(s, c, r).j = Middle(r)
      BY <2>1, <3>1, <3>2, HalfIs
    <3> QED
      BY <1>1, <3>3
  <2>3. (IF h.i < h.j THEN h.j - h.i ELSE 0) < r.j - r.i
    BY <1>1, <2>1, <2>2
  <2> QED
    BY <1>2, <2>1, <2>2, <2>3
<1> HIDE DEF D
<1>4. ASSUME NEW r \in D, NEW g \in [D -> V]
      PROVE  (IF r.i >= r.j THEN r.i ELSE g[Half(s, c, r)]) \in V
  BY <1>1, <1>3
<1>5. F \in [D -> [[D -> V] -> V]]
  <2> HIDE DEF V
  <2> QED
    BY <1>4
<1>6. ASSUME NEW r \in D, NEW g \in [D -> V], NEW h \in [D -> V],
             \A y \in D : m[y] < m[r] => g[y] = h[y]
      PROVE  F[r][g] = F[r][h]
  <2>1. ~ (r.i >= r.j) => g[Half(s, c, r)] = h[Half(s, c, r)]
    BY <1>3, <1>6
  <2> HIDE DEF V
  <2> QED
    BY <2>1
<1>7. \A r \in D : \A g \in [D -> V] : F[r][g] = IF r.i >= r.j THEN r.i ELSE g[Half(s, c, r)]
  OBVIOUS
<1> HIDE DEF F
<1>8. Descends(D, V, n, m, F)
  <2>1. V # {} /\ n \in Nat
    OBVIOUS
  <2> QED
    BY <1>5, <1>6, <2>1 DEF Descends
<1>9. PICK f \in [D -> V] : \A r \in D : f[r] = F[r][f]
  <2> HIDE DEF V
  <2> QED
    BY <1>8, Recursed
<1>a. ASSUME NEW g, NEW r
      PROVE  g[Half(s, c, r)] = IF s[Middle(r) + 1].id < c THEN g[[r EXCEPT !.i = Middle(r) + 1]]
                                                           ELSE g[[r EXCEPT !.j = Middle(r)]]
  BY DEF Half
<1>10. IsSearch(f)
  <2> HIDE DEF V
  <2>1. \A r \in D : f[r] = IF r.i >= r.j THEN r.i ELSE f[Half(s, c, r)]
    BY <1>7, <1>9
  <2> QED
    BY <1>a, <2>1
<1>11. Searching(s, c) = CHOOSE g : IsSearch(g)
  BY DEF Searching, D
<1> HIDE DEF IsSearch
<1>12. IsSearch(Searching(s, c))
  BY <1>10, <1>11
<1>13. \A r \in D : Searching(s, c)[r] = IF r.i >= r.j THEN r.i ELSE Searching(s, c)[Half(s, c, r)]
  BY <1>a, <1>12 DEF IsSearch
<1> QED
  BY <1>13 DEF D

\* f is the index of the first bucket that is not below c, or 1 when all are.
IsFirst(s, c, f) ==
  /\ f \in 1..Len(s)
  /\ \/ s[f].id >= c /\ \A k \in 1..(f - 1) : s[k].id < c
     \/ f = 1 /\ \A k \in 1..Len(s) : s[k].id < c

LEMMA SearchIs ==
  ASSUME NEW s \in Seq(Bucket), Sorted(s), s # <<>>, NEW c \in Nat
  PROVE  IsFirst(s, c, Search(s, c) + 1) /\ Search(s, c) \in Nat
<1> DEFINE Splits(f, i, j) == /\ f \in i..j
                              /\ \A k \in 1..f : s[k].id < c
                              /\ \A k \in (f + 1)..Len(s) : s[k].id >= c
           Around(r) == /\ r.i <= r.j
                        /\ \A k \in 1..r.i : s[k].id < c
                        /\ \A k \in (r.j + 1)..Len(s) : s[k].id >= c
<1>1. /\ Len(s) \in Nat /\ Len(s) # 0
      /\ \A k \in 1..Len(s) : s[k].id \in Nat
  BY BucketAt, EmptySeq
<1>2. PICK n \in Nat : n = Len(s)
  BY <1>1
<1>a. PICK S : S = Searching(s, c)
  OBVIOUS
<1>3. \A r \in Ranges(n) : S[r] = IF r.i >= r.j THEN r.i ELSE S[Half(s, c, r)]
  BY <1>1, <1>2, <1>a, SearchingIs
<1> DEFINE T == {d \in Nat : \A r \in Ranges(n) :
                                Around(r) /\ r.j - r.i <= d => Splits(S[r], r.i, r.j)}
<1>4. \A r \in Ranges(n) : r.i \in 0..n /\ r.j \in 0..n
  BY DEF Ranges
<1>5. ASSUME NEW r \in Ranges(n), Around(r), r.i >= r.j PROVE Splits(S[r], r.i, r.j)
  <2>1. S[r] = r.i /\ r.i = r.j
    BY <1>3, <1>4, <1>5
  <2> QED
    BY <1>4, <1>5, <2>1
<1>6. 0 \in T
  <2>1. ASSUME NEW r \in Ranges(n), Around(r), r.j - r.i <= 0 PROVE r.i >= r.j
    BY <1>4, <2>1
  <2> HIDE DEF Around, Splits
  <2> QED
    BY <1>5, <2>1
<1>7. ASSUME NEW d \in T PROVE d + 1 \in T
  <2>1. ASSUME NEW r \in Ranges(n), Around(r), r.j - r.i <= d + 1, r.i < r.j
        PROVE  Splits(S[r], r.i, r.j)
    <3>1. PICK h \in Ranges(n), p \in Nat :
            /\ h = Half(s, c, r) /\ r.i <= p /\ p < r.j
            /\ h.i = IF s[p + 1].id < c THEN p + 1 ELSE r.i
            /\ h.j = IF s[p + 1].id < c THEN r.j ELSE p
      <4>1. /\ Half(s, c, r) \in Ranges(n) /\ Middle(r) \in Nat
            /\ r.i <= Middle(r) /\ Middle(r) < r.j
            /\ Half(s, c, r).i = IF s[Middle(r) + 1].id < c THEN Middle(r) + 1 ELSE r.i
            /\ Half(s, c, r).j = IF s[Middle(r) + 1].id < c THEN r.j ELSE Middle(r)
        <5> HIDE DEF Around, Splits, T
        <5> QED
          BY <2>1, HalfIs
      <4> QED
        BY <4>1
    <3>2. r.i \in 0..n /\ r.j \in 0..n /\ h.i \in 0..n /\ h.j \in 0..n /\ p + 1 \in 1..n
      BY <1>4, <3>1
    <3>3. h.j - h.i <= d
      BY <1>7, <2>1, <3>1, <3>2
    <3>4. S[r] = S[h]
      BY <1>3, <2>1, <3>1, <3>2
    <3>5. CASE s[p + 1].id < c
      <4>1. ASSUME NEW k \in 1..h.i PROVE s[k].id < c
        <5>1. k \in 1..n /\ (k = p + 1 \/ k < p + 1)
          BY <3>1, <3>2, <3>5
        <5>2. s[k].id \in Nat /\ s[p + 1].id \in Nat /\ s[k].id <= s[p + 1].id
          BY <1>1, <1>2, <3>2, <5>1 DEF Sorted
        <5> QED
          BY <3>5, <5>2
      <4>2. Around(h)
        BY <2>1, <3>1, <3>2, <3>5, <4>1
      <4>3. Splits(S[h], h.i, h.j)
        BY <1>7, <3>3, <4>2
      <4> QED
        BY <3>1, <3>2, <3>4, <3>5, <4>3
    <3>6. CASE ~ (s[p + 1].id < c)
      <4>1. ASSUME NEW k \in (h.j + 1)..Len(s) PROVE s[k].id >= c
        <5>1. k \in 1..n /\ (k = p + 1 \/ p + 1 < k)
          BY <1>2, <3>1, <3>2, <3>6
        <5>2. s[k].id \in Nat /\ s[p + 1].id \in Nat /\ s[p + 1].id <= s[k].id
          BY <1>1, <1>2, <3>2, <5>1 DEF Sorted
        <5> QED
          BY <3>6, <5>2
      <4>2. Around(h)
        BY <2>1, <3>1, <3>2, <3>6, <4>1
      <4>3. Splits(S[h], h.i, h.j)
        BY <1>7, <3>3, <4>2
      <4> QED
        BY <3>1, <3>2, <3>4, <3>6, <4>3
    <3> QED
      BY <3>5, <3>6
  <2>2. ASSUME NEW r \in Ranges(n) PROVE r.i >= r.j \/ r.i < r.j
    BY <1>4
  <2> HIDE DEF Around, Splits
  <2> QED
    BY <1>5, <1>7, <2>1, <2>2
<1>8. T = Nat
  <2>1. T \subseteq Nat
    OBVIOUS
  <2> HIDE DEF T
  <2> QED
    BY <1>6, <1>7, <2>1, Induct
<1>9. PICK f : f = S[[i |-> 0, j |-> n]]
  OBVIOUS
<1>10. Splits(f, 0, n)
  <2>0. [i |-> 0, j |-> n] \in Ranges(n)
    BY DEF Ranges
  <2>1. PICK r \in Ranges(n) : r = [i |-> 0, j |-> n]
    BY <2>0
  <2>2. r.i = 0 /\ r.j = n
    BY <2>1
  <2>3. Around(r) /\ r.j - r.i <= n
    BY <1>1, <1>2, <2>2
  <2>4. n \in T
    BY <1>8
  <2>5. Splits(S[r], r.i, r.j)
    BY <2>3, <2>4
  <2> QED
    BY <1>9, <2>1, <2>2, <2>5
<1>11. Search(s, c) = IF f = n THEN 0 ELSE f
  <2>1. Search(s, c) = IF Searching(s, c)[[i |-> 0, j |-> Len(s)]] = Len(s) THEN 0
                       ELSE Searching(s, c)[[i |-> 0, j |-> Len(s)]]
    BY DEF Search, Searching, Ranges, Middle
  <2> QED
    BY <1>2, <1>a, <1>9, <2>1
<1> QED
  BY <1>1, <1>2, <1>10, <1>11 DEF IsFirst

----------------------------------------------------------------------------
(* Nearest buckets, and the keys that move *)

\* From c on, x comes no later than y.
Sooner(c, x, y) ==
  \/ x >= c /\ y >= c /\ x <= y
  \/ x >= c /\ y < c
  \/ x < c /\ y < c /\ x <= y

LEMMA NearestIs ==
  ASSUME NEW s \in Seq(Bucket), NEW c \in Nat, NEW w
  PROVE  w \in Nearest(s, c)
           <=> \E k \in 1..Len(s) : /\ s[k].node = w
                                   /\ \A i \in 1..Len(s) : Sooner(c, s[k].id, s[i].id)
<1> DEFINE ids   == {s[i].id : i \in 1..Len(s)}
           ahead == {x \in ids : x >= c}
           from  == IF ahead = {} THEN ids ELSE ahead
           least(x) == x \in from /\ \A y \in from : x <= y
<1>1. \A i \in 1..Len(s) : s[i].id \in Nat
  BY BucketAt
<1>2. w \in Nearest(s, c) <=> \E k \in 1..Len(s) : s[k].node = w /\ least(s[k].id)
  BY DEF Nearest
<1>3. ASSUME NEW k \in 1..Len(s)
      PROVE  least(s[k].id) <=> \A i \in 1..Len(s) : Sooner(c, s[k].id, s[i].id)
  <2>1. CASE ahead = {}
    <3>1. from = ids /\ \A i \in 1..Len(s) : s[i].id < c
      <4>1. ASSUME NEW i \in 1..Len(s) PROVE s[i].id < c
        <5>1. s[i].id \in Nat /\ s[i].id \notin ahead /\ s[i].id \in ids
          BY <1>1, <2>1
        <5> QED
          BY <5>1
      <4> QED
        BY <2>1, <4>1
    <3> HIDE DEF from
    <3>2. least(s[k].id) <=> \A i \in 1..Len(s) : s[k].id <= s[i].id
      BY <3>1
    <3> QED
      BY <1>1, <3>1, <3>2 DEF Sooner
  <2>2. CASE ahead # {}
    <3>1. from = ahead
      BY <2>2
    <3>2. PICK j \in 1..Len(s) : s[j].id >= c
      BY <2>2
    <3> HIDE DEF from
    <3>3. least(s[k].id) <=> s[k].id >= c /\ \A i \in 1..Len(s) : s[i].id >= c => s[k].id <= s[i].id
      BY <3>1
    <3>4. ASSUME \A i \in 1..Len(s) : Sooner(c, s[k].id, s[i].id) PROVE s[k].id >= c
      BY <1>1, <3>2, <3>4 DEF Sooner
    <3> HIDE DEF least
    <3>5. ASSUME NEW i \in 1..Len(s), s[k].id >= c
          PROVE  Sooner(c, s[k].id, s[i].id) <=> (s[i].id >= c => s[k].id <= s[i].id)
      BY <1>1, <3>5 DEF Sooner
    <3> HIDE DEF Sooner
    <3> QED
      BY <3>3, <3>4, <3>5
  <2> QED
    BY <2>1, <2>2
<1> QED
  BY <1>2, <1>3

LEMMA FirstNearest ==
  ASSUME NEW s \in Seq(Bucket), Sorted(s), NEW c \in Nat, NEW f, IsFirst(s, c, f)
  PROVE  s[f].node \in Nearest(s, c)
<1>1. Len(s) \in Nat /\ \A i \in 1..Len(s) : s[i].id \in Nat
  BY BucketAt
<1>2. f \in 1..Len(s)
  BY DEF IsFirst
<1>3. ASSUME NEW i \in 1..Len(s) PROVE Sooner(c, s[f].id, s[i].id)
  <2>1. i = f \/ i < f \/ f < i
    BY <1>2
  <2>2. i = f \/ f < i => s[f].id <= s[i].id
    BY <1>1, <1>2 DEF Sorted
  <2>3. CASE s[f].id >= c /\ \A k \in 1..(f - 1) : s[k].id < c
    <3>1. i < f => s[i].id < c
      BY <1>2, <2>3
    <3> QED
      BY <1>1, <1>2, <2>1, <2>2, <2>3, <3>1 DEF Sooner
  <2>4. CASE f = 1 /\ \A k \in 1..Len(s) : s[k].id < c
    <3>1. s[f].id <= s[i].id /\ s[f].id < c /\ s[i].id < c
      BY <1>2, <2>1, <2>2, <2>4
    <3> QED
      BY <3>1 DEF Sooner
  <2> QED
    BY <2>3, <2>4 DEF IsFirst
<1> QED
  BY <1>2, <1>3, NearestIs

LEMMA FindIs ==
  ASSUME NEW s \in Seq(Bucket), Sorted(s), NEW c \in Nat
  PROVE  /\ s = <<>> => Find(s, c) = <<>>
         /\ s # <<>> => \E f : IsFirst(s, c, f) /\ Find(s, c) = <<s[f].node>>
                              /\ f = Search(s, c) + 1
  BY SearchIs DEF Find

\* Find returns the node of a nearest bucket.
THEOREM FindsNearest == RingSpec => []FindNearest
<1>1. RingShape => FindNearest
  <2> SUFFICES ASSUME RingShape, buckets # <<>>, NEW c \in Ids
               PROVE  Find(buckets, c)[1] \in Nearest(buckets, c)
    BY DEF FindNearest
  <2>1. buckets \in Seq(Bucket) /\ Sorted(buckets) /\ c \in Nat
    BY RingAssumption DEF RingShape, Sorted
  <2>2. PICK f : IsFirst(buckets, c, f) /\ Find(buckets, c) = <<buckets[f].node>>
    BY <2>1, FindIs
  <2> QED
    BY <2>1, <2>2, FirstNearest
<1> QED
  BY <1>1, Shape, PTL

Has(s, b) == \E i \in 1..Len(s) : s[i] = b

LEMMA SortHas ==
  ASSUME NEW s \in Seq(Bucket), NEW tie \in Ties(s), NEW b
  PROVE  Has(Sort(s, tie), b) <=> Has(s, b)
<1>1. PICK at \in Bijection(1..Len(s), 1..Len(s)) :
        Sort(s, tie) = [k \in 1..Len(s) |-> s[at[k]]]
  BY SortIs
<1>2. /\ \A k \in 1..Len(s) : at[k] \in 1..Len(s)
      /\ \A i \in 1..Len(s) : \E k \in 1..Len(s) : at[k] = i
  BY DEF Bijection, Injection, Surjection
<1>3. PICK t, n : t = Sort(s, tie) /\ n = Len(s) /\ n = Len(t)
  BY SortIs
<1>4. \A k \in 1..n : t[k] = s[at[k]]
  BY <1>1, <1>3
<1>5. ASSUME NEW k \in 1..n, t[k] = b PROVE \E i \in 1..n : s[i] = b
  BY <1>2, <1>3, <1>4, <1>5
<1>6. ASSUME NEW i \in 1..n, s[i] = b PROVE \E k \in 1..n : t[k] = b
  <2>1. PICK k \in 1..n : at[k] = i
    BY <1>2, <1>3
  <2> QED
    BY <1>4, <1>6, <2>1
<1>7. (\E k \in 1..Len(t) : t[k] = b) <=> \E i \in 1..Len(s) : s[i] = b
  BY <1>3, <1>5, <1>6
<1> QED
  BY <1>3, <1>7 DEF Has

LEMMA WithoutHas ==
  ASSUME NEW s \in Seq(Bucket), NEW node, NEW b
  PROVE  Has(WithoutNode(s, node), b) <=> Has(s, b) /\ b.node # node
<1>1. PICK at : Keeps(at, s, node)
  BY WithoutIs
<1>2. PICK n, t : n = Cardinality(Kept(s, node)) /\ t = WithoutNode(s, node) /\ n = Len(t)
  BY WithoutIs
<1>3. /\ \A k \in 1..n : at[k] \in Kept(s, node)
      /\ \A i \in Kept(s, node) : \E k \in 1..n : at[k] = i
  BY <1>1, <1>2 DEF Keeps, Bijection, Injection, Surjection
<1>4. \A k \in 1..n : t[k] = s[at[k]]
  BY <1>1, <1>2 DEF Keeps
<1>5. ASSUME NEW k \in 1..n, t[k] = b PROVE b.node # node /\ \E i \in 1..Len(s) : s[i] = b
  BY <1>3, <1>4, <1>5 DEF Kept
<1>6. ASSUME NEW i \in 1..Len(s), s[i] = b, b.node # node PROVE \E k \in 1..n : t[k] = b
  <2>1. PICK k \in 1..n : at[k] = i
    BY <1>3, <1>6 DEF Kept
  <2> QED
    BY <1>4, <1>6, <2>1
<1>7. (\E k \in 1..Len(t) : t[k] = b) <=> b.node # node /\ \E i \in 1..Len(s) : s[i] = b
  BY <1>2, <1>5, <1>6
<1> QED
  BY <1>2, <1>7 DEF Has

\* A change of a node leaves the buckets of the others.
LEMMA OthersStay ==
  ASSUME RingInv, NEW node \in Nodes, Changes(node), NEW b, b.node # node
  PROVE  Has(buckets, b) <=> Has(buckets', b)
<1>1. buckets \in Seq(Bucket)
  BY DEF RingInv, RingShape
<1>2. Has(WithoutNode(buckets, node), b) <=> Has(buckets, b)
  BY <1>1, WithoutHas
<1>3. CASE RemoveNode(node)
  BY <1>2, <1>3 DEF RemoveNode
<1>4. ASSUME NEW n \in BucketCounts \cup {Default}, AddWithOpts(node, n)
      PROVE  Has(buckets, b) <=> Has(buckets', b)
  <2>1. PICK kept, made, all : /\ kept = WithoutNode(buckets, node) /\ made = Made(node, n)
                              /\ all = kept \o made
    OBVIOUS
  <2>2. PICK tie \in Ties(all) : buckets' = Sort(all, tie)
    BY <1>4, <2>1 DEF AddWithOpts
  <2>3. /\ kept \in Seq(Bucket) /\ made \in Seq(Bucket) /\ all \in Seq(Bucket)
        /\ Len(kept) \in Nat /\ Len(made) \in Nat
        /\ \A i \in 1..Len(made) : made[i].node = node
    BY <1>1, <2>1, WithoutIs, MadeIs, ConcatProperties, LenProperties
  <2>4. /\ Len(all) = Len(kept) + Len(made)
        /\ \A i \in 1..(Len(kept) + Len(made)) :
             all[i] = IF i <= Len(kept) THEN kept[i] ELSE made[i - Len(kept)]
    BY <2>1, <2>3, ConcatProperties
  <2>5. Has(buckets', b) <=> Has(all, b)
    BY <2>2, <2>3, SortHas
  <2>6. ASSUME NEW i \in 1..Len(kept) PROVE i \in 1..Len(all) /\ all[i] = kept[i]
    BY <2>3, <2>4
  <2>7. ASSUME NEW i \in 1..Len(all), all[i] = b PROVE i \in 1..Len(kept) /\ kept[i] = b
    <3>1. CASE i <= Len(kept)
      BY <2>3, <2>4, <2>7, <3>1
    <3>2. CASE ~ (i <= Len(kept))
      <4>1. i - Len(kept) \in 1..Len(made) /\ all[i] = made[i - Len(kept)]
        BY <2>3, <2>4, <3>2
      <4> QED
        BY <2>3, <2>7, <4>1
    <3> QED
      BY <3>1, <3>2
  <2>8. Has(all, b) <=> Has(kept, b)
    BY <2>6, <2>7 DEF Has
  <2> QED
    BY <1>2, <2>1, <2>5, <2>8
<1> QED
  BY <1>3, <1>4 DEF Changes

LEMMA KeysMove ==
  ASSUME RingInv, RingInv', NEW node \in Nodes, Changes(node), NEW c \in Ids
  PROVE  Moves(c, node)
<1>1. PICK s, t : s = buckets /\ t = buckets'
  OBVIOUS
<1>2. c \in Nat /\ s \in Seq(Bucket) /\ Sorted(s) /\ t \in Seq(Bucket) /\ Sorted(t)
  BY <1>1, RingAssumption DEF RingInv, RingShape, Sorted, Bucket
<1>3. CASE s = <<>> \/ t = <<>>
  <2>1. Find(s, c) = <<>> \/ Find(t, c) = <<>>
    BY <1>2, <1>3, FindIs
  <2> QED
    BY <1>1, <2>1 DEF Moves
<1>4. CASE s # <<>> /\ t # <<>>
  <2>1. PICK f : IsFirst(s, c, f) /\ Find(s, c) = <<s[f].node>>
    BY <1>2, <1>4, FindIs
  <2>2. PICK g : IsFirst(t, c, g) /\ Find(t, c) = <<t[g].node>>
    BY <1>2, <1>4, FindIs
  <2>3. s[f].node \in Nearest(s, c) /\ t[g].node \in Nearest(t, c)
    BY <1>2, <2>1, <2>2, FirstNearest
  <2>4. ASSUME s[f].node # node, t[g].node # node PROVE t[g].node \in Nearest(s, c)
    <3>1. PICK k \in 1..Len(s) : /\ s[k].node = s[f].node
                                 /\ \A i \in 1..Len(s) : Sooner(c, s[k].id, s[i].id)
      <4>1. PICK w : w = s[f].node
        OBVIOUS
      <4>2. w \in Nearest(s, c)
        BY <2>3, <4>1
      <4>3. \E k \in 1..Len(s) : /\ s[k].node = w
                                /\ \A i \in 1..Len(s) : Sooner(c, s[k].id, s[i].id)
        BY <1>2, <4>2, NearestIs
      <4> QED
        BY <4>1, <4>3
    <3>2. PICK l \in 1..Len(t) : /\ t[l].node = t[g].node
                                 /\ \A i \in 1..Len(t) : Sooner(c, t[l].id, t[i].id)
      <4>1. PICK w : w = t[g].node
        OBVIOUS
      <4>2. w \in Nearest(t, c)
        BY <2>3, <4>1
      <4>3. \E l \in 1..Len(t) : /\ t[l].node = w
                                /\ \A i \in 1..Len(t) : Sooner(c, t[l].id, t[i].id)
        BY <1>2, <4>2, NearestIs
      <4> QED
        BY <4>1, <4>3
    <3>3. PICK l2 \in 1..Len(s) : s[l2] = t[l]
      <4>1. Has(t, t[l]) /\ t[l].node # node
        BY <2>4, <3>2 DEF Has
      <4> QED
        BY <1>1, <4>1, OthersStay DEF Has
    <3>4. PICK k2 \in 1..Len(t) : t[k2] = s[k]
      <4>1. Has(s, s[k]) /\ s[k].node # node
        BY <2>4, <3>1 DEF Has
      <4> QED
        BY <1>1, <4>1, OthersStay DEF Has
    <3>5. s[k].id \in Nat /\ s[l2].id \in Nat
      BY <1>2, BucketAt
    <3>6. Sooner(c, s[k].id, s[l2].id) /\ Sooner(c, s[l2].id, s[k].id)
      BY <3>1, <3>2, <3>3, <3>4
    <3>7. s[k].id = s[l2].id
      BY <1>2, <3>5, <3>6 DEF Sooner
    <3> QED
      BY <1>2, <3>1, <3>2, <3>3, <3>7, NearestIs
  <2>5. \/ s[f].node = node \/ t[g].node = node
        \/ {s[f].node, t[g].node} \subseteq Nearest(s, c)
    BY <2>3, <2>4
  <2>6. /\ Find(buckets, c) = <<s[f].node>> /\ Find(buckets', c) = <<t[g].node>>
        /\ Nearest(buckets, c) = Nearest(s, c)
    BY <1>1, <2>1, <2>2
  <2> QED
    BY <2>5, <2>6 DEF Moves
<1> QED
  BY <1>3, <1>4

\* Consistent hashing: adding a node, adding it again or removing it moves no key between
\* two others, unless their buckets share the id nearest to it.
THEOREM MovesLittle == RingSpec => MinimalMovement
<1>1. RingInv /\ [RingNext]_ringVars => RingInv'
  BY NextRing
<1>2. RingInv /\ RingInv' =>
        \A node \in Nodes : (\A c \in Ids : Moves(c, node)) \/ ~ Changes(node)
  BY KeysMove
<1> QED
  BY InitRing, <1>1, <1>2, PTL DEF RingSpec, MinimalMovement

----------------------------------------------------------------------------
(* FindMultiple's walk *)

\* The nodes found when the next bucket is one of node.
Finds(count, before, node) ==
  IF Len(before) >= count \/ Contains(before, node) THEN before ELSE Append(before, node)

Finding(s, c, count) ==
  LET first == Search(s, c)
      found[k \in 0..Len(s)] ==
        IF k = 0 THEN <<>> ELSE Finds(count, found[k - 1], Onward(s, first, k - 1))
  IN  found

\* The walk from the bucket after first meets every bucket.
LEMMA OnwardIs ==
  ASSUME NEW s \in Seq(Bucket), NEW first \in 0..(Len(s) - 1)
  PROVE  /\ \A k \in 0..(Len(s) - 1) : Onward(s, first, k) \in Nodes /\ Onward(s, first, k) \in Names(s)
         /\ \A n \in Names(s) : \E k \in 0..(Len(s) - 1) : Onward(s, first, k) = n
         /\ Len(s) \in Nat \ {0} /\ Onward(s, first, 0) = s[first + 1].node
<1>1. Len(s) \in Nat /\ \A i \in 1..Len(s) : s[i].node \in Nodes
  BY BucketAt
<1>2. PICK l \in Nat : l = Len(s)
  BY <1>1
<1>3. ASSUME NEW k \in 0..(l - 1)
      PROVE  \E i \in 1..l : Onward(s, first, k) = s[i].node
  <2>1. (IF first + k < l THEN first + k + 1 ELSE first + k - l + 1) \in 1..l
    BY <1>2
  <2> QED
    BY <1>2, <2>1 DEF Onward
<1>4. ASSUME NEW i \in 1..l PROVE \E k \in 0..(l - 1) : Onward(s, first, k) = s[i].node
  <2>1. CASE i > first
    <3>1. PICK k \in 0..(l - 1) : first + k < l /\ first + k + 1 = i
      <4>1. i - first - 1 \in 0..(l - 1) /\ first + (i - first - 1) < l /\ first + (i - first - 1) + 1 = i
        BY <1>2, <2>1
      <4> QED
        BY <4>1
    <3> QED
      BY <1>2, <3>1 DEF Onward
  <2>2. CASE ~ (i > first)
    <3>1. PICK k \in 0..(l - 1) : ~ (first + k < l) /\ first + k - l + 1 = i
      <4>1. /\ i + l - first - 1 \in 0..(l - 1) /\ ~ (first + (i + l - first - 1) < l)
            /\ first + (i + l - first - 1) - l + 1 = i
        BY <1>2, <2>2
      <4> QED
        BY <4>1
    <3> QED
      BY <1>2, <3>1 DEF Onward
  <2> QED
    BY <2>1, <2>2
<1>5. l # 0 /\ first < l /\ first + 0 = first
  BY <1>2
<1>6. Onward(s, first, 0) = s[first + 1].node
  BY <1>2, <1>5 DEF Onward
<1>7. \A k \in 0..(l - 1) : Onward(s, first, k) \in Nodes /\ Onward(s, first, k) \in Names(s)
  BY <1>1, <1>2, <1>3 DEF Names
<1>8. \A n \in Names(s) : \E k \in 0..(l - 1) : Onward(s, first, k) = n
  BY <1>2, <1>4 DEF Names
<1> QED
  BY <1>2, <1>5, <1>6, <1>7, <1>8

LEMMA FindsIs ==
  ASSUME NEW count, NEW before \in Seq(Nodes), NEW node \in Nodes
  PROVE  Finds(count, before, node) \in Seq(Nodes)
  BY AppendProperties DEF Finds

LEMMA FindingIs ==
  ASSUME NEW s \in Seq(Bucket), NEW c, NEW count, Search(s, c) \in 0..(Len(s) - 1)
  PROVE  \A k \in 0..Len(s) :
           Finding(s, c, count)[k] =
             IF k = 0 THEN <<>>
             ELSE Finds(count, Finding(s, c, count)[k - 1], Onward(s, Search(s, c), k - 1))
<1>0. PICK n, first : n = Len(s) /\ first = Search(s, c)
  OBVIOUS
<1>1. n \in Nat /\ \A k \in 0..(n - 1) : Onward(s, first, k) \in Nodes
  BY <1>0, OnwardIs
<1> DEFINE V == Seq(Nodes)
           G == [k \in 1..n |-> [v \in V |-> Finds(count, v, Onward(s, first, k - 1))]]
           IsFound(f) ==
             f = [k \in 0..n |-> IF k = 0 THEN <<>>
                                 ELSE Finds(count, f[k - 1], Onward(s, first, k - 1))]
<1>2. ASSUME NEW k \in 1..n, NEW v \in V PROVE Finds(count, v, Onward(s, first, k - 1)) \in V
  <2>1. k - 1 \in 0..(n - 1)
    BY <1>1
  <2>2. Onward(s, first, k - 1) \in Nodes
    BY <1>1, <2>1
  <2> QED
    BY <2>2, FindsIs
<1>3. Iterates(n, V, <<>>, G)
  <2>1. <<>> \in V
    BY EmptySeq
  <2> HIDE DEF V
  <2> QED
    BY <1>1, <1>2, <2>1 DEF Iterates
<1>4. PICK f \in [0..n -> V] : \A k \in 0..n : f[k] = IF k = 0 THEN <<>> ELSE G[k][f[k - 1]]
  <2> HIDE DEF G, V
  <2> QED
    BY <1>3, Iterated
<1>5. ASSUME NEW k \in 0..n, k # 0 PROVE f[k] = Finds(count, f[k - 1], Onward(s, first, k - 1))
  <2>1. k \in 1..n /\ k - 1 \in 0..n
    BY <1>1, <1>5
  <2>2. f[k - 1] \in V
    BY <2>1
  <2> QED
    BY <1>4, <1>5, <2>1, <2>2
<1>6. IsFound(f)
  <2> HIDE DEF V, G
  <2> QED
    BY <1>4, <1>5
<1>7. Finding(s, c, count) = CHOOSE g : IsFound(g)
  BY <1>0 DEF Finding
<1> HIDE DEF IsFound
<1>8. IsFound(Finding(s, c, count))
  BY <1>6, <1>7
<1>9. \A k \in 0..n : Finding(s, c, count)[k] =
                       IF k = 0 THEN <<>>
                       ELSE Finds(count, Finding(s, c, count)[k - 1], Onward(s, first, k - 1))
  BY <1>8 DEF IsFound
<1> QED
  BY <1>0, <1>9

\* found is what the first k steps of a walk over the nodes on[0], on[1], ... find.
FoundNodes(found, count, on, k) ==
  /\ found \in Seq(Nodes) /\ Len(found) <= count
  /\ \A i, j \in 1..Len(found) : found[i] = found[j] => i = j
  /\ \A i \in 1..Len(found) : \E j \in 0..(k - 1) : found[i] = on[j]
  /\ Len(found) < count => \A j \in 0..(k - 1) : \E i \in 1..Len(found) : found[i] = on[j]
  /\ k > 0 => Len(found) > 0 /\ found[1] = on[0]

\* found is more's beginning, and all of it if it is not full.
Begins(found, count, more) ==
  /\ Len(found) <= Len(more) /\ \A i \in 1..Len(found) : found[i] = more[i]
  /\ Len(found) < count => found = more

LEMMA FindsOne ==
  ASSUME NEW count \in Nat \ {0}, NEW k \in Nat, NEW on, NEW found, FoundNodes(found, count, on, k),
         on[k] \in Nodes
  PROVE  FoundNodes(Finds(count, found, on[k]), count, on, k + 1)
<1>1. PICK n \in Nat : n = Len(found)
  BY LenProperties DEF FoundNodes
<1>2. CASE Len(found) >= count
  <2>1. Finds(count, found, on[k]) = found /\ n > 0 /\ ~ (n < count)
    BY <1>1, <1>2 DEF Finds
  <2>2. k > 0
    <3>1. 1 \in 1..n
      BY <1>1, <2>1
    <3>2. PICK j \in 0..(k - 1) : found[1] = on[j]
      BY <1>1, <3>1 DEF FoundNodes
    <3> QED
      BY <3>2
  <2>3. \A j \in 0..(k - 1) : j \in 0..((k + 1) - 1)
    OBVIOUS
  <2> QED
    BY <1>1, <2>1, <2>2, <2>3 DEF FoundNodes
<1>3. CASE ~ (Len(found) >= count) /\ Contains(found, on[k])
  <2>1. Finds(count, found, on[k]) = found
    BY <1>3 DEF Finds
  <2>2. PICK i \in 1..n : found[i] = on[k]
    BY <1>1, <1>3 DEF Contains
  <2>3. k > 0
    <3>1. PICK j \in 0..(k - 1) : found[i] = on[j]
      BY <1>1, <2>2 DEF FoundNodes
    <3> QED
      BY <3>1
  <2>4. \A j \in 0..((k + 1) - 1) : j \in 0..(k - 1) \/ j = k
    OBVIOUS
  <2>5. \A j \in 0..(k - 1) : j \in 0..((k + 1) - 1)
    OBVIOUS
  <2>6. \A j \in 0..((k + 1) - 1) : \E i2 \in 1..n : found[i2] = on[j]
    BY <1>1, <1>3, <2>2, <2>4 DEF FoundNodes
  <2>7. ASSUME NEW i2 \in 1..n PROVE \E j \in 0..((k + 1) - 1) : found[i2] = on[j]
    <3>1. PICK j \in 0..(k - 1) : found[i2] = on[j]
      BY <1>1 DEF FoundNodes
    <3> QED
      BY <2>5, <3>1
  <2>9. /\ found \in Seq(Nodes) /\ \A x, y \in 1..n : found[x] = found[y] => x = y
        /\ n > 0 /\ found[1] = on[0]
    BY <1>1, <2>3 DEF FoundNodes
  <2> SUFFICES FoundNodes(found, count, on, k + 1)
    BY <2>1
  <2>10. Len(found) <= count
    BY DEF FoundNodes
  <2>11. \A x \in 1..Len(found) : \E j \in 0..((k + 1) - 1) : found[x] = on[j]
    BY <1>1, <2>7
  <2>12. \A j \in 0..((k + 1) - 1) : \E x \in 1..Len(found) : found[x] = on[j]
    BY <1>1, <2>6
  <2> QED
    BY <1>1, <2>9, <2>10, <2>11, <2>12 DEF FoundNodes
<1>4. CASE ~ (Len(found) >= count) /\ ~ Contains(found, on[k])
  <2>1. PICK g : g = Finds(count, found, on[k])
    OBVIOUS
  <2>2. g = Append(found, on[k])
    BY <1>4, <2>1 DEF Finds
  <2>3. /\ g \in Seq(Nodes) /\ Len(g) = n + 1
        /\ \A i \in 1..n : g[i] = found[i]
        /\ g[n + 1] = on[k]
    BY <1>1, <2>2, AppendProperties DEF FoundNodes
  <2>4. n + 1 <= count /\ (\A i \in 1..(n + 1) : i \in 1..n \/ i = n + 1)
    BY <1>1, <1>4
  <2>5. \A i \in 1..n : found[i] # on[k]
    BY <1>1, <1>4 DEF Contains
  <2>6. ASSUME NEW i \in 1..(n + 1), NEW j \in 1..(n + 1), g[i] = g[j] PROVE i = j
    <3>1. ASSUME NEW x \in 1..n, NEW y \in 1..n, g[x] = g[y] PROVE x = y
      BY <1>1, <2>3, <3>1 DEF FoundNodes
    <3>2. ASSUME NEW x \in 1..n PROVE g[x] # g[n + 1]
      BY <2>3, <2>5
    <3> QED
      BY <2>4, <2>6, <3>1, <3>2
  <2>7. ASSUME NEW i \in 1..(n + 1) PROVE \E j \in 0..((k + 1) - 1) : g[i] = on[j]
    <3>1. CASE i \in 1..n
      <4>1. PICK j \in 0..(k - 1) : found[i] = on[j]
        BY <1>1, <3>1 DEF FoundNodes
      <4>2. j \in 0..((k + 1) - 1)
        OBVIOUS
      <4> QED
        BY <2>3, <3>1, <4>1, <4>2
    <3>2. CASE i = n + 1
      <4>1. k \in 0..((k + 1) - 1)
        OBVIOUS
      <4> QED
        BY <2>3, <3>2, <4>1
    <3> QED
      BY <2>4, <3>1, <3>2
  <2>8. ASSUME NEW j \in 0..((k + 1) - 1) PROVE \E i \in 1..(n + 1) : g[i] = on[j]
    <3>1. CASE j = k
      <4>1. n + 1 \in 1..(n + 1)
        OBVIOUS
      <4> QED
        BY <2>3, <3>1, <4>1
    <3>2. CASE j # k
      <4>1. j \in 0..(k - 1)
        BY <3>2
      <4>x. Len(found) < count
        BY <1>1, <1>4
      <4>2. PICK i \in 1..n : found[i] = on[j]
        BY <1>1, <4>x, <4>1 DEF FoundNodes
      <4>3. i \in 1..(n + 1)
        OBVIOUS
      <4> QED
        BY <2>3, <4>2, <4>3
    <3> QED
      BY <3>1, <3>2
  <2>9. g[1] = on[0] /\ n + 1 > 0
    <3>1. CASE n = 0
      <4>1. k = 0
        <5>1. SUFFICES ASSUME k # 0 PROVE FALSE
          OBVIOUS
        <5>2. k > 0
          BY <5>1
        <5> QED
          BY <1>1, <3>1, <5>2 DEF FoundNodes
      <4> QED
        BY <2>3, <3>1, <4>1
    <3>2. CASE n # 0
      <4>1. 1 \in 1..n
        BY <3>2
      <4>2. PICK j \in 0..(k - 1) : found[1] = on[j]
        BY <1>1, <4>1 DEF FoundNodes
      <4>3. k > 0
        BY <4>2
      <4> QED
        BY <2>3, <4>1, <4>3 DEF FoundNodes
    <3> QED
      BY <3>1, <3>2
  <2> QED
    BY <2>1, <2>3, <2>4, <2>6, <2>7, <2>8, <2>9 DEF FoundNodes
<1> QED
  BY <1>2, <1>3, <1>4

LEMMA FindsBegins ==
  ASSUME NEW count \in Nat, NEW found \in Seq(Nodes), NEW more \in Seq(Nodes), NEW node \in Nodes,
         Len(found) <= count, Begins(found, count, more)
  PROVE  Begins(Finds(count, found, node), count, Finds(count + 1, more, node))
<1>1. PICK n \in Nat, m \in Nat : n = Len(found) /\ m = Len(more) /\ n <= m
  BY LenProperties DEF Begins
<1>2. CASE n < count
  <2>1. found = more /\ ~ (n >= count) /\ ~ (n >= count + 1)
    BY <1>1, <1>2 DEF Begins
  <2>2. Finds(count, found, node) = Finds(count + 1, more, node)
    BY <1>1, <2>1 DEF Finds
  <2>3. Len(Finds(count, found, node)) \in Nat
    BY FindsIs, LenProperties
  <2> QED
    BY <2>2, <2>3 DEF Begins
<1>3. CASE ~ (n < count)
  <2>1. Finds(count, found, node) = found
    BY <1>1, <1>3 DEF Finds
  <2>2. CASE Finds(count + 1, more, node) = more
    BY <2>1, <2>2
  <2>3. CASE Finds(count + 1, more, node) = Append(more, node)
    <3>1. PICK g : g = Append(more, node)
      OBVIOUS
    <3>2. Len(g) = m + 1 /\ \A i \in 1..m : g[i] = more[i]
      BY <1>1, <3>1, AppendProperties
    <3>3. n <= m + 1 /\ \A i \in 1..n : i \in 1..m
      BY <1>1
    <3>4. Begins(found, count, g)
      BY <1>1, <1>3, <3>2, <3>3 DEF Begins
    <3> QED
      BY <2>1, <2>3, <3>1, <3>4
  <2> QED
    BY <2>2, <2>3 DEF Finds
<1> QED
  BY <1>2, <1>3

\* What FindMultiple returns is what a walk along all buckets finds.
LEMMA WalkFinds ==
  ASSUME NEW s \in Seq(Bucket), s # <<>>, NEW c, NEW first \in 0..(Len(s) - 1), first = Search(s, c),
         NEW count \in Nat \ {0},
         NEW on, on = [k \in 0..(Len(s) - 1) |-> Onward(s, first, k)]
  PROVE  /\ \A k \in 0..Len(s) : FoundNodes(Finding(s, c, count)[k], count, on, k)
         /\ \A k \in 0..Len(s) : Begins(Finding(s, c, count)[k], count, Finding(s, c, count + 1)[k])
         /\ FindMultiple(s, c, count) = Finding(s, c, count)[Len(s)]
<1>1. PICK n \in Nat : n = Len(s)
  BY LenProperties
<1>2. PICK M, L : M = Finding(s, c, count) /\ L = Finding(s, c, count + 1)
  OBVIOUS
<1>3. \A k \in 0..(n - 1) : on[k] = Onward(s, first, k) /\ on[k] \in Nodes
  BY <1>1, OnwardIs
<1>4. ASSUME NEW k \in 0..n, k # 0
      PROVE  M[k] = Finds(count, M[k - 1], on[k - 1]) /\ L[k] = Finds(count + 1, L[k - 1], on[k - 1])
  <2>1. on[k - 1] = Onward(s, Search(s, c), k - 1)
    <3>1. k - 1 \in 0..(n - 1)
      BY <1>1, <1>4
    <3> QED
      BY <1>3, <3>1
  <2> QED
    BY <1>1, <1>2, <1>4, <2>1, FindingIs
<1>5. M[0] = <<>> /\ L[0] = <<>>
  BY <1>1, <1>2, FindingIs
<1> DEFINE T == {k \in 0..n : /\ FoundNodes(M[k], count, on, k)
                              /\ Begins(M[k], count, L[k])
                              /\ L[k] \in Seq(Nodes)}
<1>6. 0 \in T
  <2>1. <<>> \in Seq(Nodes) /\ Len(<<>>) = 0
    BY EmptySeq
  <2>2. FoundNodes(<<>>, count, on, 0)
    BY <2>1 DEF FoundNodes
  <2>3. Begins(<<>>, count, <<>>)
    BY <2>1 DEF Begins
  <2>4. PICK f, m : f = M[0] /\ m = L[0]
    OBVIOUS
  <2>5. f = <<>> /\ m = <<>>
    BY <1>5, <2>4
  <2>6. FoundNodes(f, count, on, 0) /\ Begins(f, count, m) /\ m \in Seq(Nodes)
    BY <2>1, <2>2, <2>3, <2>5
  <2> QED
    BY <1>1, <2>4, <2>6
<1>7. ASSUME NEW k \in 0..(n - 1), k \in T PROVE k + 1 \in T
  <2>1. k + 1 \in 0..n /\ k + 1 # 0 /\ (k + 1) - 1 = k /\ k \in Nat
    BY <1>1
  <2>2. M[k + 1] = Finds(count, M[k], on[k]) /\ L[k + 1] = Finds(count + 1, L[k], on[k])
    BY <1>4, <2>1
  <2>3. PICK f, m, node : f = M[k] /\ m = L[k] /\ node = on[k]
    OBVIOUS
  <2>4. /\ FoundNodes(f, count, on, k) /\ Begins(f, count, m) /\ m \in Seq(Nodes) /\ node \in Nodes
        /\ f \in Seq(Nodes) /\ Len(f) <= count
    BY <1>3, <1>7, <2>3 DEF FoundNodes
  <2>5. FoundNodes(Finds(count, f, on[k]), count, on, k + 1)
    BY <2>1, <2>3, <2>4, FindsOne
  <2>6. Begins(Finds(count, f, node), count, Finds(count + 1, m, node))
    BY <2>4, FindsBegins
  <2>7. Finds(count + 1, m, node) \in Seq(Nodes)
    BY <2>4, FindsIs
  <2> QED
    BY <2>1, <2>2, <2>3, <2>5, <2>6, <2>7
<1> HIDE DEF T
<1>8. 0..n \subseteq T
  BY <1>1, <1>6, <1>7, InductTo
<1>9. FindMultiple(s, c, count) = M[n]
  BY <1>1, <1>2 DEF FindMultiple, Finding, Finds
<1> QED
  BY <1>1, <1>2, <1>8, <1>9 DEF T

\* A list without repetitions has as many members as it is long.
LEMMA Members ==
  ASSUME NEW found \in Seq(Nodes), \A i, j \in 1..Len(found) : found[i] = found[j] => i = j
  PROVE  IsFiniteSet(ToSet(found)) /\ Cardinality(ToSet(found)) = Len(found)
<1>1. PICK n \in Nat : n = Len(found)
  BY LenProperties
<1>2. DOMAIN found = 1..n /\ found = [i \in 1..n |-> found[i]]
  BY <1>1, LenProperties
<1>3. ToSet(found) = {found[i] : i \in 1..n}
  BY <1>2 DEF ToSet
<1>4. found \in Bijection(1..n, ToSet(found))
  <2>1. found \in [1..n -> ToSet(found)]
    BY <1>2, <1>3
  <2>2. found \in Injection(1..n, ToSet(found))
    BY <1>1, <2>1 DEF Injection, IsInjective
  <2>3. found \in Surjection(1..n, ToSet(found))
    BY <1>3, <2>1 DEF Surjection
  <2> QED
    BY <2>2, <2>3 DEF Bijection
<1>5. ExistsBijection(1..n, ToSet(found))
  BY <1>4 DEF ExistsBijection
<1>6. IsFiniteSet(1..n) /\ Cardinality(1..n) = n
  BY UpTo
<1> QED
  BY <1>1, <1>5, <1>6, FS_Bijection

LEMMA NamesFinite ==
  ASSUME NEW s \in Seq(Bucket)
  PROVE  IsFiniteSet(Names(s)) /\ Cardinality(Names(s)) \in Nat
<1>1. PICK n \in Nat : n = Len(s)
  BY LenProperties
<1> DEFINE f == [i \in 1..n |-> s[i].node]
<1>2. f \in Surjection(1..n, Names(s))
  BY <1>1 DEF Surjection, Names
<1>3. IsFiniteSet(1..n)
  BY UpTo
<1> HIDE DEF f
<1>4. IsFiniteSet(Names(s))
  BY <1>2, <1>3, FS_Surjection
<1> QED
  BY <1>4, FS_CardinalityType

LEMMA FindsNodes ==
  ASSUME NEW s \in Seq(Bucket), Sorted(s), NEW c \in Nat, NEW count \in Nat \ {0},
         NEW few, few = FindMultiple(s, c, count), NEW all, all = Cardinality(Names(s))
  PROVE  /\ Len(few) = IF count < all THEN count ELSE all
         /\ Cardinality(ToSet(few)) = Len(few) /\ ToSet(few) \subseteq Names(s)
         /\ few # <<>> => few[1] = Find(s, c)[1]
         /\ IsPrefix(few, FindMultiple(s, c, count + 1))
<1>0. all \in Nat /\ IsFiniteSet(Names(s))
  BY NamesFinite
<1>1. CASE s = <<>>
  <2>1. few = <<>> /\ FindMultiple(s, c, count + 1) = <<>> /\ Len(s) = 0 /\ Len(few) = 0
    BY <1>1 DEF FindMultiple
  <2>2. Names(s) = {} /\ ToSet(few) = {}
    BY <2>1 DEF Names, ToSet
  <2>3. all = 0
    BY <2>2, FS_EmptySet
  <2> QED
    BY <2>1, <2>2, <2>3, FS_EmptySet DEF IsPrefix
<1>2. CASE s # <<>>
  <2>0. PICK n \in Nat : n = Len(s)
    BY LenProperties
  <2>1. PICK first \in 0..(n - 1) : n = Len(s) /\ first = Search(s, c)
    <3>1. IsFirst(s, c, Search(s, c) + 1) /\ Len(s) \in Nat
      BY <1>2, SearchIs, LenProperties
    <3>2. Search(s, c) + 1 \in 1..Len(s)
      BY <3>1 DEF IsFirst
    <3>3. Search(s, c) \in Int
      BY <1>2, SearchIs
    <3> QED
      BY <2>0, <3>1, <3>2, <3>3
  <2>2. PICK on : on = [k \in 0..(n - 1) |-> Onward(s, first, k)]
    OBVIOUS
  <2>3. PICK more : more = FindMultiple(s, c, count + 1)
    OBVIOUS
  <2>4. /\ FoundNodes(few, count, on, n) /\ Begins(few, count, more)
        /\ FoundNodes(more, count + 1, on, n)
    <3>1. n \in 0..n /\ count + 1 \in Nat \ {0} /\ first \in 0..(Len(s) - 1)
      BY <2>1
    <3>2. /\ FoundNodes(Finding(s, c, count)[n], count, on, n) /\ few = Finding(s, c, count)[n]
          /\ Begins(Finding(s, c, count)[n], count, Finding(s, c, count + 1)[n])
      BY <1>2, <2>1, <2>2, <3>1, WalkFinds
    <3>3. /\ FoundNodes(Finding(s, c, count + 1)[n], count + 1, on, n)
          /\ more = Finding(s, c, count + 1)[n]
      BY <1>2, <2>1, <2>2, <2>3, <3>1, WalkFinds
    <3> QED
      BY <3>2, <3>3
  <2>5. /\ \A k \in 0..(n - 1) : on[k] \in Names(s)
        /\ \A m \in Names(s) : \E k \in 0..(n - 1) : on[k] = m
        /\ n > 0 /\ on[0] = s[first + 1].node
    <3>1. /\ \A k \in 0..(n - 1) : Onward(s, first, k) \in Names(s)
          /\ \A m \in Names(s) : \E k \in 0..(n - 1) : Onward(s, first, k) = m
          /\ n # 0 /\ Onward(s, first, 0) = s[first + 1].node
      BY <2>1, OnwardIs
    <3>2. n > 0 /\ 0 \in 0..(n - 1)
      BY <3>1
    <3> QED
      BY <2>2, <3>1, <3>2
  <2>6. few \in Seq(Nodes) /\ more \in Seq(Nodes) /\ Len(few) \in Nat /\ Len(more) \in Nat
    BY <2>4, LenProperties DEF FoundNodes
  <2>7. ToSet(few) = {few[i] : i \in 1..Len(few)}
    BY <2>6, LenProperties DEF ToSet
  <2>8. ToSet(few) \subseteq Names(s)
    <3>1. ASSUME NEW i \in 1..Len(few) PROVE few[i] \in Names(s)
      BY <2>4, <2>5 DEF FoundNodes
    <3> QED
      BY <2>7, <3>1
  <2>9. IsFiniteSet(ToSet(few)) /\ Cardinality(ToSet(few)) = Len(few)
    BY <2>4, Members DEF FoundNodes
  <2>10. Len(few) <= count /\ Len(few) <= all
    <3>1. Cardinality(ToSet(few)) <= all
      BY <1>0, <2>8, FS_Subset
    <3> QED
      BY <2>4, <2>9, <3>1 DEF FoundNodes
  <2>11. ASSUME Len(few) < count PROVE Len(few) = all
    <3>1. ASSUME NEW m \in Names(s) PROVE m \in ToSet(few)
      <4>1. PICK k \in 0..(n - 1) : on[k] = m
        BY <2>5
      <4>2. PICK i \in 1..Len(few) : few[i] = on[k]
        BY <2>4, <2>11 DEF FoundNodes
      <4> QED
        BY <2>7, <4>1, <4>2
    <3>2. ToSet(few) = Names(s)
      BY <2>8, <3>1
    <3> QED
      BY <2>9, <3>2
  <2>12. Len(few) = IF count < all THEN count ELSE all
    BY <1>0, <2>6, <2>10, <2>11
  <2>13. few[1] = Find(s, c)[1]
    BY <1>2, <2>1, <2>4, <2>5 DEF FoundNodes, Find
  <2>14. IsPrefix(few, more)
    <3>1. /\ Len(few) <= Len(more) /\ \A i \in 1..Len(few) : few[i] = more[i]
      BY <2>4 DEF Begins
    <3>2. SubSeq(few, 1, Len(few)) = SubSeq(more, 1, Len(few))
      BY <2>6, <3>1
    <3> QED
      BY <3>1, <3>2 DEF IsPrefix
  <2> QED
    BY <2>3, <2>8, <2>9, <2>12, <2>13, <2>14
<1> QED
  BY <1>1, <1>2

\* FindMultiple returns as many nodes as it can, Find's first, and asking for more only
\* adds to them.
THEOREM FindsSuccessors == RingSpec => []Successors
<1>1. RingShape => Successors
  <2> SUFFICES ASSUME RingShape, NEW c \in Ids,
                      NEW count \in 1..(Cardinality(Names(buckets)) + 1),
                      NEW few, few = FindMultiple(buckets, c, count),
                      NEW all, all = Cardinality(Names(buckets))
               PROVE  /\ Len(few) = IF count < all THEN count ELSE all
                      /\ Cardinality(ToSet(few)) = Len(few) /\ ToSet(few) \subseteq Names(buckets)
                      /\ few # <<>> => few[1] = Find(buckets, c)[1]
                      /\ IsPrefix(few, FindMultiple(buckets, c, count + 1))
    BY DEF Successors
  <2>1. buckets \in Seq(Bucket) /\ Sorted(buckets) /\ c \in Nat
    BY RingAssumption DEF RingShape, Sorted
  <2>2. count \in Nat \ {0}
    BY <2>1, NamesFinite
  <2>3. PICK s : s = buckets
    OBVIOUS
  <2>4. /\ s \in Seq(Bucket) /\ Sorted(s)
        /\ few = FindMultiple(s, c, count) /\ all = Cardinality(Names(s))
    BY <2>1, <2>3
  <2>5. /\ Len(few) = IF count < all THEN count ELSE all
        /\ Cardinality(ToSet(few)) = Len(few) /\ ToSet(few) \subseteq Names(s)
        /\ few # <<>> => few[1] = Find(s, c)[1]
        /\ IsPrefix(few, FindMultiple(s, c, count + 1))
    BY <2>1, <2>2, <2>4, FindsNodes
  <2> QED
    BY <2>3, <2>5
<1> QED
  BY <1>1, Shape, PTL

----------------------------------------------------------------------------
(* The node that takes over *)

\* The second node found is the first other one of the walk.
Second(found, on, k) ==
  Len(found) = 2 => \E p \in 1..(k - 1) : /\ on[p] = found[2] /\ on[p] # on[0]
                                          /\ \A j \in 0..(p - 1) : on[j] = on[0]

LEMMA SecondIs ==
  ASSUME NEW s \in Seq(Bucket), s # <<>>, NEW c, NEW first \in 0..(Len(s) - 1), first = Search(s, c),
         NEW on, on = [k \in 0..(Len(s) - 1) |-> Onward(s, first, k)]
  PROVE  Second(FindMultiple(s, c, 2), on, Len(s))
<1>1. PICK n \in Nat : n = Len(s)
  BY LenProperties
<1>2. PICK M : M = Finding(s, c, 2)
  OBVIOUS
<1>3. /\ \A k \in 0..n : FoundNodes(M[k], 2, on, k)
      /\ FindMultiple(s, c, 2) = M[n]
  <2>1. 2 \in Nat \ {0}
    OBVIOUS
  <2> QED
    BY <1>1, <1>2, <2>1, WalkFinds
<1>4. ASSUME NEW k \in 0..n, k # 0 PROVE M[k] = Finds(2, M[k - 1], on[k - 1])
  <2>1. on[k - 1] = Onward(s, Search(s, c), k - 1)
    <3>1. k - 1 \in 0..(Len(s) - 1)
      BY <1>1, <1>4
    <3> QED
      BY <3>1
  <2> QED
    BY <1>1, <1>2, <1>4, <2>1, FindingIs
<1> DEFINE T == {k \in 0..n : Second(M[k], on, k)}
<1>5. 0 \in T
  <2>1. M[0] = <<>>
    BY <1>1, <1>2, FindingIs
  <2>2. PICK f : f = M[0]
    OBVIOUS
  <2>3. Len(f) = 0
    BY <2>1, <2>2
  <2>4. Second(f, on, 0)
    BY <2>3 DEF Second
  <2> QED
    BY <1>1, <2>2, <2>4
<1>6. ASSUME NEW k \in 0..(n - 1), k \in T PROVE k + 1 \in T
  <2>1. k + 1 \in 0..n /\ k + 1 # 0 /\ (k + 1) - 1 = k /\ k \in Nat /\ k \in 0..n
    BY <1>1
  <2>2. PICK f, g : f = M[k] /\ g = M[k + 1]
    OBVIOUS
  <2>3. g = Finds(2, f, on[k])
    BY <1>4, <2>1, <2>2
  <2>4. FoundNodes(f, 2, on, k) /\ Second(f, on, k) /\ Len(f) \in Nat
    <3>1. FoundNodes(f, 2, on, k) /\ Second(f, on, k)
      BY <1>3, <1>6, <2>1, <2>2
    <3>2. f \in Seq(Nodes)
      BY <3>1 DEF FoundNodes
    <3> QED
      BY <3>1, <3>2, LenProperties
  <2>5. CASE g = f
    <3>1. \A p \in 1..(k - 1) : p \in 1..((k + 1) - 1)
      OBVIOUS
    <3>2. Second(g, on, k + 1)
      BY <2>4, <2>5, <3>1 DEF Second
    <3> QED
      BY <2>1, <2>2, <3>2
  <2>6. CASE g # f
    <3>1. Len(f) < 2 /\ ~ Contains(f, on[k]) /\ g = Append(f, on[k])
      BY <2>3, <2>4, <2>6 DEF Finds
    <3>2. Len(g) = Len(f) + 1 /\ g[Len(f) + 1] = on[k]
      <4>1. /\ Len(Append(f, on[k])) = Len(f) + 1
            /\ Append(f, on[k])[Len(f) + 1] = on[k]
        BY <2>4 DEF FoundNodes
      <4> QED
        BY <3>1, <4>1
    <3>3. ASSUME Len(g) = 2
          PROVE  \E p \in 1..((k + 1) - 1) : /\ on[p] = g[2] /\ on[p] # on[0]
                                            /\ \A j \in 0..(p - 1) : on[j] = on[0]
      <4>1. Len(f) = 1 /\ g[2] = on[k] /\ 1 \in 1..Len(f)
        <5>1. Len(f) + 1 = 2 /\ Len(f) \in Nat
          BY <2>4, <3>2, <3>3
        <5>2. Len(f) = 1
          <6>1. PICK l \in Nat : l = Len(f)
            BY <5>1
          <6>2. l = 1
            BY <5>1, <6>1
          <6> QED
            BY <6>1, <6>2
        <5>3. g[2] = on[k]
          BY <3>2, <5>1
        <5> QED
          BY <5>2, <5>3
      <4>2. PICK j0 \in 0..(k - 1) : f[1] = on[j0]
        BY <2>4, <4>1 DEF FoundNodes
      <4>3. k > 0 /\ k \in 1..((k + 1) - 1)
        BY <4>2
      <4>4. f[1] = on[0]
        BY <2>4, <4>3 DEF FoundNodes
      <4>5. on[k] # on[0]
        BY <3>1, <4>1, <4>4 DEF Contains
      <4>6. \A j \in 0..(k - 1) : on[j] = on[0]
        <5>1. ASSUME NEW j \in 0..(k - 1) PROVE on[j] = on[0]
          <6>0. \A l \in 0..(k - 1) : \E i \in 1..Len(f) : f[i] = on[l]
            BY <2>4, <3>1 DEF FoundNodes
          <6>1. PICK i \in 1..Len(f) : f[i] = on[j]
            BY <6>0
          <6>2. i = 1
            BY <4>1, <6>1
          <6> QED
            BY <4>4, <6>1, <6>2
        <5> QED
          BY <5>1
      <4> QED
        BY <4>1, <4>3, <4>5, <4>6
    <3>4. Second(g, on, k + 1)
      BY <3>3 DEF Second
    <3> QED
      BY <2>1, <2>2, <3>4
  <2> QED
    BY <2>5, <2>6
<1> HIDE DEF T
<1>7. 0..n \subseteq T
  BY <1>1, <1>5, <1>6, InductTo
<1>8. n \in T
  BY <1>7
<1>9. PICK f : f = M[n]
  OBVIOUS
<1>10. Second(f, on, n)
  BY <1>8, <1>9 DEF T
<1> QED
  BY <1>1, <1>3, <1>9, <1>10

\* There is one first bucket.
LEMMA FirstIsOne ==
  ASSUME NEW s \in Seq(Bucket), NEW c \in Nat, NEW f, IsFirst(s, c, f), NEW g, IsFirst(s, c, g)
  PROVE  f = g
<1>1. \A i \in 1..Len(s) : s[i].id \in Nat
  BY BucketAt
<1>2. f \in 1..Len(s) /\ g \in 1..Len(s) /\ Len(s) \in Nat
  BY BucketAt DEF IsFirst
<1>3. CASE s[f].id >= c /\ s[g].id >= c
  <2>1. \A k \in 1..(f - 1) : s[k].id < c
    BY <1>1, <1>2, <1>3 DEF IsFirst
  <2>2. \A k \in 1..(g - 1) : s[k].id < c
    BY <1>1, <1>2, <1>3 DEF IsFirst
  <2>3. ~ (f < g)
    <3>1. f < g => f \in 1..(g - 1)
      BY <1>2
    <3> QED
      BY <1>1, <1>2, <1>3, <2>2, <3>1
  <2>4. ~ (g < f)
    <3>1. g < f => g \in 1..(f - 1)
      BY <1>2
    <3> QED
      BY <1>1, <1>2, <1>3, <2>1, <3>1
  <2> QED
    BY <1>2, <2>3, <2>4
<1>4. CASE ~ (s[f].id >= c /\ s[g].id >= c)
  <2>1. \A k \in 1..Len(s) : s[k].id < c
    BY <1>1, <1>2, <1>4 DEF IsFirst
  <2>2. ~ (s[f].id >= c) /\ ~ (s[g].id >= c)
    BY <1>1, <1>2, <2>1
  <2> QED
    BY <2>2 DEF IsFirst
<1> QED
  BY <1>3, <1>4

LEMMA TakesOver ==
  ASSUME NEW s \in Seq(Bucket), Sorted(s), NEW c \in Nat, NEW node,
         NEW next, next = FindMultiple(s, c, 2), Len(next) = 2, next[1] = node
  PROVE  Find(WithoutNode(s, node), c) = <<next[2]>>
<1>1. s # <<>>
  <2>1. SUFFICES ASSUME s = <<>> PROVE FALSE
    OBVIOUS
  <2>2. next = <<>> /\ Len(next) = 0
    BY <2>1 DEF FindMultiple
  <2> QED
    BY <2>2
<1>2. PICK n \in Nat : n = Len(s)
  BY LenProperties
<1>3. IsFirst(s, c, Search(s, c) + 1) /\ Search(s, c) \in Nat
  BY <1>1, SearchIs
<1>4. PICK first \in 0..(n - 1) : first = Search(s, c)
  <2>1. Search(s, c) + 1 \in 1..n
    BY <1>2, <1>3 DEF IsFirst
  <2>2. Search(s, c) \in 0..(n - 1)
    BY <1>2, <1>3, <2>1
  <2> QED
    BY <2>2
<1>5. PICK on : on = [k \in 0..(n - 1) |-> Onward(s, first, k)]
  OBVIOUS
<1>6. PICK p \in 1..(n - 1) : /\ on[p] = next[2] /\ on[p] # on[0]
                              /\ \A j \in 0..(p - 1) : on[j] = on[0]
  <2>1. Second(FindMultiple(s, c, 2), on, Len(s))
    BY <1>1, <1>2, <1>4, <1>5, SecondIs
  <2>2. Second(next, on, n)
    BY <1>2, <2>1
  <2> QED
    BY <2>2 DEF Second
<1>7. on[0] = node
  <2>1. FoundNodes(next, 2, on, n)
    <3>1. 2 \in Nat \ {0} /\ n \in 0..n
      BY <1>2
    <3>2. /\ FoundNodes(Finding(s, c, 2)[n], 2, on, n)
          /\ next = Finding(s, c, 2)[n]
      BY <1>1, <1>2, <1>4, <1>5, <3>1, WalkFinds
    <3> QED
      BY <3>2
  <2>2. n > 0
    BY <1>2, <1>4
  <2> QED
    BY <2>1, <2>2 DEF FoundNodes
<1>8. \A k \in 0..(n - 1) : /\ first + k < n => on[k] = s[first + k + 1].node
                            /\ ~ (first + k < n) => on[k] = s[first + k - n + 1].node
  BY <1>2, <1>5 DEF Onward
<1>9. PICK q \in 1..n : /\ q = IF first + p < n THEN first + p + 1 ELSE first + p - n + 1
                        /\ s[q].node = next[2] /\ s[q].node # node
  <2>1. PICK q \in 1..n : q = IF first + p < n THEN first + p + 1 ELSE first + p - n + 1
    <3>1. CASE first + p < n
      <4>1. first + p + 1 \in 1..n
        BY <3>1
      <4> QED
        BY <3>1, <4>1
    <3>2. CASE ~ (first + p < n)
      <4>1. first + p - n + 1 \in 1..n
        BY <3>2
      <4> QED
        BY <3>2, <4>1
    <3> QED
      BY <3>1, <3>2
  <2>2. p \in 0..(n - 1)
    BY <1>6
  <2> QED
    BY <1>6, <1>7, <1>8, <2>1, <2>2
\* The buckets that the walk passes are the removed node's.
<1>10. ASSUME NEW i \in 1..n, s[i].node # node
       PROVE  IF first + p < n THEN i <= first \/ i >= q ELSE i <= first /\ i >= q
  <2>1. ASSUME NEW j \in 0..(p - 1), first + j < n PROVE i # first + j + 1
    <3>1. j \in 0..(n - 1) /\ on[j] = node
      BY <1>2, <1>6, <1>7
    <3>2. s[first + j + 1].node = node
      BY <1>8, <2>1, <3>1
    <3> QED
      BY <1>10, <3>2
  <2>2. ASSUME NEW j \in 0..(p - 1), ~ (first + j < n) PROVE i # first + j - n + 1
    <3>1. j \in 0..(n - 1) /\ on[j] = node
      BY <1>2, <1>6, <1>7
    <3>2. s[first + j - n + 1].node = node
      BY <1>8, <2>2, <3>1
    <3> QED
      BY <1>10, <3>2
  <2>3. CASE first + p < n
    <3>1. SUFFICES ASSUME first < i, i < q PROVE FALSE
      BY <1>9, <2>3
    <3>2. i - first - 1 \in 0..(p - 1) /\ first + (i - first - 1) < n
          /\ i = first + (i - first - 1) + 1
      BY <1>9, <2>3, <3>1
    <3> QED
      BY <2>1, <3>2
  <2>4. CASE ~ (first + p < n)
    <3>1. i <= first
      <4>1. SUFFICES ASSUME first < i PROVE FALSE
        BY <1>4
      <4>2. i - first - 1 \in 0..(p - 1) /\ first + (i - first - 1) < n
            /\ i = first + (i - first - 1) + 1
        BY <1>4, <1>6, <2>4, <4>1
      <4> QED
        BY <2>1, <4>2
    <3>2. i >= q
      <4>1. SUFFICES ASSUME i < q PROVE FALSE
        BY <1>9
      <4>2. q = first + p - n + 1 /\ i >= 1
        BY <1>9, <2>4
      <4>3. PICK j \in Int : j = i - 1 + n - first
        OBVIOUS
      <4>4. j >= 0 /\ j < p /\ ~ (first + j < n) /\ i = first + j - n + 1
        BY <4>1, <4>2, <4>3
      <4>5. j \in 0..(p - 1)
        BY <4>4
      <4> QED
        BY <2>2, <4>4, <4>5
    <3> QED
      BY <2>4, <3>1, <3>2
  <2> QED
    BY <2>3, <2>4
<1>11. PICK at : Keeps(at, s, node)
  BY WithoutIs
<1>12. PICK t, m : /\ t = WithoutNode(s, node) /\ m \in Nat
                   /\ m = Len(t) /\ m = Cardinality(Kept(s, node))
  BY <1>11, WithoutIs DEF Keeps
<1>13. /\ \A k \in 1..m : at[k] \in 1..n /\ s[at[k]].node # node /\ t[k] = s[at[k]]
       /\ \A k, l \in 1..m : k <= l <=> at[k] <= at[l]
  <2>1. \A k \in 1..m : at[k] \in Kept(s, node) /\ t[k] = s[at[k]]
    BY <1>11, <1>12 DEF Keeps, Bijection, Injection
  <2> QED
    BY <1>2, <1>11, <1>12, <2>1 DEF Keeps, Kept
<1>14. PICK k \in 1..m : at[k] = q
  BY <1>2, <1>9, <1>11, <1>12 DEF Keeps, Bijection, Surjection, Kept
<1>15. \A i \in 1..n : s[i].id \in Nat
  BY <1>2, BucketAt
<1>16. t \in Seq(Bucket) /\ Sorted(t)
  BY <1>12, WithoutIs, WithoutSorted
<1>17. ASSUME NEW l \in 1..(k - 1) PROVE l \in 1..m /\ at[l] < q
  <2>1. l \in 1..m /\ ~ (k <= l)
    BY <1>12, <1>14
  <2>2. ~ (at[k] <= at[l])
    BY <1>13, <2>1
  <2> QED
    BY <1>13, <1>14, <2>1, <2>2
<1>18. IsFirst(t, c, k)
  <2>1. CASE s[first + 1].id >= c /\ \A i \in 1..first : s[i].id < c
    <3>1. CASE first + p < n
      <4>1. t[k].id >= c
        <5>1. first + 1 \in 1..n /\ first + 1 < q
          BY <1>4, <1>6, <1>9, <3>1
        <5>2. s[first + 1].id <= s[q].id
          BY <1>2, <5>1 DEF Sorted
        <5>3. t[k] = s[q] /\ q \in 1..n
          BY <1>13, <1>14
        <5>4. PICK x, y \in Nat : x = s[first + 1].id /\ y = s[q].id
          BY <1>15, <5>1, <5>3
        <5>5. t[k].id = y /\ x >= c /\ x <= y /\ c \in Nat
          BY <2>1, <5>2, <5>3, <5>4 DEF RingAssumption
        <5> QED
          BY <5>4, <5>5
      <4>2. ASSUME NEW l \in 1..(k - 1) PROVE t[l].id < c
        <5>1. l \in 1..m /\ at[l] < q /\ at[l] \in 1..n /\ s[at[l]].node # node
          BY <1>13, <1>17
        <5>2. at[l] \in 1..first
          BY <1>10, <3>1, <5>1
        <5> QED
          BY <1>13, <2>1, <5>1, <5>2
      <4> QED
        BY <1>12, <4>1, <4>2 DEF IsFirst
    <3>2. CASE ~ (first + p < n)
      <4>1. k = 1
        <5>1. SUFFICES ASSUME k # 1 PROVE FALSE
          OBVIOUS
        <5>2. 1 \in 1..(k - 1)
          BY <5>1
        <5>3. 1 \in 1..m /\ at[1] < q /\ at[1] \in 1..n /\ s[at[1]].node # node
          BY <1>13, <1>17, <5>2
        <5> QED
          BY <1>10, <3>2, <5>3
      <4>2. ASSUME NEW l \in 1..m PROVE t[l].id < c
        <5>1. at[l] \in 1..first
          BY <1>10, <1>13, <3>2
        <5> QED
          BY <1>13, <2>1, <5>1
      <4> QED
        BY <1>12, <4>1, <4>2 DEF IsFirst
    <3> QED
      BY <3>1, <3>2
  <2>2. CASE first + 1 = 1 /\ \A i \in 1..n : s[i].id < c
    <3>1. first + p < n
      BY <1>4, <1>6, <2>2
    <3>2. k = 1
      <4>1. SUFFICES ASSUME k # 1 PROVE FALSE
        OBVIOUS
      <4>2. 1 \in 1..(k - 1)
        BY <4>1
      <4>3. 1 \in 1..m /\ at[1] < q /\ at[1] \in 1..n /\ s[at[1]].node # node
        BY <1>13, <1>17, <4>2
      <4>4. at[1] \in 1..first
        BY <1>10, <3>1, <4>3
      <4> QED
        BY <2>2, <4>4
    <3>3. \A l \in 1..m : t[l].id < c
      BY <1>13, <2>2
    <3> QED
      BY <1>12, <3>2, <3>3 DEF IsFirst
  <2>3. first + 1 - 1 = first
    BY <1>4
  <2> QED
    BY <1>2, <1>3, <1>4, <2>1, <2>2, <2>3 DEF IsFirst
<1>19. t # <<>>
  <2>1. m # 0
    BY <1>14
  <2> QED
    BY <1>12, <2>1
<1>20. PICK g : IsFirst(t, c, g) /\ Find(t, c) = <<t[g].node>>
  BY <1>16, <1>19, FindIs
<1>21. g = k
  BY <1>16, <1>18, <1>20, FirstIsOne
<1> QED
  BY <1>9, <1>12, <1>13, <1>14, <1>20, <1>21

\* When a key's node is removed, the next one FindMultiple gave for the key has it.
THEOREM NextTakesOver == RingSpec => Takeover
<1>1. RingShape => \A c \in Ids, node \in Nodes :
                     LET next == FindMultiple(buckets, c, 2)
                     IN  Len(next) = 2 /\ next[1] = node /\ buckets' = WithoutNode(buckets, node)
                           => Find(buckets', c) = <<next[2]>>
  <2> SUFFICES ASSUME RingShape, NEW c \in Ids, NEW node \in Nodes,
                      NEW next, next = FindMultiple(buckets, c, 2),
                      Len(next) = 2, next[1] = node, buckets' = WithoutNode(buckets, node)
               PROVE  Find(buckets', c) = <<next[2]>>
    OBVIOUS
  <2>1. PICK s, t : s = buckets /\ t = buckets'
    OBVIOUS
  <2>2. s \in Seq(Bucket) /\ Sorted(s) /\ c \in Nat /\ next = FindMultiple(s, c, 2)
        /\ t = WithoutNode(s, node)
    BY <2>1, RingAssumption DEF RingShape, Sorted
  <2>3. Find(t, c) = <<next[2]>>
    BY <2>2, TakesOver
  <2> QED
    BY <2>1, <2>3
<1> QED
  BY <1>1, Shape, PTL DEF Takeover
==============================================================================

--------------------------------- MODULE Ring ---------------------------------
(***************************************************************************)
(* hash/ring.go: consistent hashing.  A ring is a list of buckets, each a  *)
(* node's name and a number its SHA-512 digests gave for it; a key belongs *)
(* to the node of the first bucket that is not below the key's CRC.        *)
(*                                                                         *)
(* Every method holds the ring's RWMutex throughout, so each is one step   *)
(* of whichever goroutine calls it.  Keys appear as their CRCs.            *)
(***************************************************************************)
EXTENDS Integers, Sequences, FiniteSets, SequencesExt, TLC

CONSTANTS
  Nodes,        \* the names of nodes
  Ids,          \* the numbers a digest's words and a key's CRC may be
  Digests,      \* Digests[node][k]: the words of the k-th digest of a node
  Default,      \* defaultBucketsPerNode
  BucketCounts, \* the numberOfBuckets AddWithOpts is called with
  FirstNodes    \* the arguments NewRing is called with

\* A digest has 64 bytes; no amount takes more digests than it has buckets.
ASSUME RingAssumption ==
  /\ Ids \subseteq Nat
  /\ Default \in Nat /\ BucketCounts \subseteq Int
  /\ Digests \in [Nodes -> Seq([1..16 -> Ids])]
  /\ \A node \in Nodes, n \in BucketCounts \cup {Default} : n <= Len(Digests[node])
  /\ FirstNodes \subseteq Seq(Nodes)

VARIABLES
  buckets,
  asked  \* history: the number of buckets each node should have

ringVars == <<buckets, asked>>

Bucket == [id : Ids, node : Nodes]

----------------------------------------------------------------------------
(* The methods' loops *)

\* The buckets add appends for a node, after its first k digests: of what is left of
\* the n to make (64 at most) it uses every fourth byte.
Made(node, n) ==
  LET made[k \in 0..n] ==
        IF k = 0 THEN <<>>
        ELSE LET before == made[k - 1]
                 i == Len(before)
                 m == IF n - i > 64 THEN 64 ELSE n - i
             IN  before \o [j \in 1..((m + 3) \div 4) |->
                              [id |-> Digests[node][k][j], node |-> node]]
  IN  IF n <= 0 THEN <<>> ELSE made[n]

\* The buckets of s at the indices I, in the order R of these.
Listed(s, I, R) ==
  LET place == [i \in I |-> Cardinality({j \in I : <<j, i>> \in R})]
  IN  [k \in 1..Cardinality(I) |-> s[CHOOSE i \in I : place[i] = k]]

\* sort.Sort is not stable: buckets of different nodes with the same id may come out in
\* any order, that of the numbers chosen for them.
Ties(s) ==
  LET all  == 1..Len(s)
      tied == {i \in all : \E j \in all : s[j].id = s[i].id /\ s[j].node # s[i].node}
  IN  {[i \in all |-> IF i \in tied THEN r[i] ELSE i] : r \in Injection(tied, tied)}

Sort(s, tie) ==
  LET all == 1..Len(s)
  IN  Listed(s, all, {p \in all \X all :
                        \/ s[p[1]].id < s[p[2]].id
                        \/ s[p[1]].id = s[p[2]].id /\ tie[p[1]] <= tie[p[2]]})

\* Slip: the loop ends at the first bucket it has removed.
WithoutFirst(s, node) ==
  RemoveFirstMatch(s, LAMBDA b : b.node = node)

\* r.remove: buckets of other nodes keep their order.
WithoutNode(s, node) ==
  LET kept == {i \in 1..Len(s) : s[i].node # node}
  IN  Listed(s, kept, {p \in kept \X kept : p[1] <= p[2]})

\* Slip: the search passes the bucket at c itself.
SearchBelow(s, c) ==
  LET n == Len(s)
      search[r \in [i : 0..n, j : 0..n]] ==
        IF r.i >= r.j THEN r.i
        ELSE LET p == r.i + (r.j - r.i) \div 2
             IN  IF s[p + 1].id <= c THEN search[[r EXCEPT !.i = p + 1]]
                                     ELSE search[[r EXCEPT !.j = p]]
      found == search[[i |-> 0, j |-> n]]
  IN  IF found = n THEN 0 ELSE found

\* The binary search of Find: the index, from 0, of the first bucket that is not below
\* c, or 0 when all are.
Search(s, c) ==
  LET n == Len(s)
      search[r \in [i : 0..n, j : 0..n]] ==
        IF r.i >= r.j THEN r.i
        ELSE LET p == r.i + (r.j - r.i) \div 2
             IN  IF s[p + 1].id < c THEN search[[r EXCEPT !.i = p + 1]]
                                    ELSE search[[r EXCEPT !.j = p]]
      found == search[[i |-> 0, j |-> n]]
  IN  IF found = n THEN 0 ELSE found

Find(s, c) == IF s = <<>> THEN <<>> ELSE <<s[Search(s, c) + 1].node>>

\* Slip: the walk ends where the list does.
OnwardToEnd(s, first, k) ==
  LET i == first + k IN s[IF i < Len(s) THEN i + 1 ELSE Len(s)].node

\* The node FindMultiple looks at k buckets after the first.
Onward(s, first, k) ==
  LET i == first + k IN s[IF i < Len(s) THEN i + 1 ELSE i - Len(s) + 1].node

\* Slip: a node that was found already is taken again.
FindMultipleRepeats(s, c, count) ==
  LET first == Search(s, c)
      found[k \in 0..Len(s)] ==
        IF k = 0 THEN <<>>
        ELSE LET before == found[k - 1]
             IN  IF Len(before) >= count THEN before
                 ELSE Append(before, Onward(s, first, k - 1))
  IN  IF count <= 0 \/ s = <<>> THEN <<>> ELSE found[Len(s)]

\* The nodes found in the first k buckets: they are appended until there are enough or
\* the walk has come full circle.
FindMultiple(s, c, count) ==
  LET first == Search(s, c)
      found[k \in 0..Len(s)] ==
        IF k = 0 THEN <<>>
        ELSE LET before == found[k - 1]
                 next == Onward(s, first, k - 1)
             IN  IF Len(before) >= count \/ Contains(before, next) THEN before
                 ELSE Append(before, next)
  IN  IF count <= 0 \/ s = <<>> THEN <<>> ELSE found[Len(s)]

----------------------------------------------------------------------------
(* Steps *)

\* NewRing adds without removing, and so takes a repeated name twice.
Added(nodes) ==
  LET added[i \in 0..Len(nodes)] ==
        IF i = 0 THEN <<>> ELSE added[i - 1] \o Made(nodes[i], Default)
  IN  added[Len(nodes)]

RingInit ==
  \E nodes \in FirstNodes :
    /\ \E tie \in Ties(Added(nodes)) : buckets = Sort(Added(nodes), tie)
    /\ asked = [n \in Nodes |-> Default * Cardinality({i \in 1..Len(nodes) : nodes[i] = n})]

\* Slip: add does not sort.
AddWithOptsUnsorted(node, n) ==
  /\ buckets' = WithoutNode(buckets, node) \o Made(node, n)
  /\ asked' = [asked EXCEPT ![node] = IF n < 0 THEN 0 ELSE n]

\* Add is AddWithOpts with Default.
AddWithOpts(node, n) ==
  /\ LET added == WithoutNode(buckets, node) \o Made(node, n)
     IN  \E tie \in Ties(added) : buckets' = Sort(added, tie)
  /\ asked' = [asked EXCEPT ![node] = IF n < 0 THEN 0 ELSE n]

\* r.Remove
RemoveNode(node) ==
  /\ buckets' = WithoutNode(buckets, node)
  /\ asked' = [asked EXCEPT ![node] = 0]

RingNext ==
  \E node \in Nodes :
    \/ \E n \in BucketCounts \cup {Default} : AddWithOpts(node, n)
    \/ RemoveNode(node)

RingSpec == RingInit /\ [][RingNext]_ringVars

----------------------------------------------------------------------------
(* Properties *)

Names(s)     == {s[i].node : i \in 1..Len(s)}
CountOf(s, n) == Cardinality({i \in 1..Len(s) : s[i].node = n})

\* The list stays sorted, which the search needs, and each node has as many buckets
\* as were asked for, whatever was added, added again and removed before.
RingShape ==
  /\ buckets \in Seq(Bucket)
  /\ \A i \in 1..Len(buckets), j \in 1..Len(buckets) : i < j => buckets[i].id <= buckets[j].id
  /\ \A n \in Nodes : CountOf(buckets, n) = asked[n]

\* The nodes of the buckets nearest to c: those with the least id that is not below
\* c, or, past the last of them, with the least of all.
Nearest(s, c) ==
  LET ids   == {s[i].id : i \in 1..Len(s)}
      ahead == {x \in ids : x >= c}
      from  == IF ahead = {} THEN ids ELSE ahead
  IN  {s[i].node : i \in {k \in 1..Len(s) : s[k].id \in from /\ \A x \in from : s[k].id <= x}}

\* Find returns the node of a nearest bucket.
FindNearest ==
  buckets # <<>> => \A c \in Ids : Find(buckets, c)[1] \in Nearest(buckets, c)

\* FindMultiple returns as many distinct nodes as it is asked for, or all there are,
\* Find's first, and asking for more only adds to the list.
Successors ==
  \A c \in Ids, count \in 1..(Cardinality(Names(buckets)) + 1) :
    LET few == FindMultiple(buckets, c, count)
        all == Cardinality(Names(buckets))
    IN  /\ Len(few) = IF count < all THEN count ELSE all
        /\ Cardinality(ToSet(few)) = Len(few) /\ ToSet(few) \subseteq Names(buckets)
        /\ few # <<>> => few[1] = Find(buckets, c)[1]
        /\ IsPrefix(few, FindMultiple(buckets, c, count + 1))

\* A key moves only to a node that is being added or away from a node that is being
\* removed or added again.  With an id that two nodes share it may move between these two.
Moves(c, node) ==
  LET old == Find(buckets, c)
      new == Find(buckets', c)
  IN  \/ old = new \/ old = <<>> \/ new = <<>>
      \/ old[1] = node \/ new[1] = node
      \/ {old[1], new[1]} \subseteq Nearest(buckets, c)

\* A step that adds or removes the node.
Changes(node) ==
  RemoveNode(node) \/ \E n \in BucketCounts \cup {Default} : AddWithOpts(node, n)

\* Consistent hashing: when a node is added, added again or removed, no key moves but to
\* it or from it, or between nodes whose buckets share the nearest id, which the sort may
\* put in another order.
MinimalMovement ==
  [][\A node \in Nodes : (\A c \in Ids : Moves(c, node)) \/ ~ Changes(node)]_ringVars

\* When a key's node is removed, the second node FindMultiple returned takes over.
Takeover ==
  [][\A c \in Ids, node \in Nodes :
       LET next == FindMultiple(buckets, c, 2)
       IN  Len(next) = 2 /\ next[1] = node /\ buckets' = WithoutNode(buckets, node)
             => Find(buckets', c) = <<next[2]>>]_ringVars
=============================================================================

------------------------------ MODULE PrefixTree ------------------------------
(***************************************************************************)
(* structure/prefixtree.go: a radix tree.  A tree is used by one goroutine *)
(* at a time; each method is a step, and Insert is several where it goes   *)
(* astray.  Nodes are numbered as they are made, and stay in the heap when *)
(* the tree has lost them.                                                 *)
(*                                                                         *)
(* `map` is what the calls should have stored, `mishaps` the places where  *)
(* the code left the way of a radix tree:                                  *)
(*   "empty"  a proper prefix of a label was inserted, and got a child     *)
(*            with an empty label instead of the node above it;            *)
(*   "stray"  after its place was found, Insert went on with the children  *)
(*            of the root that follow, and entered another one;            *)
(*   "pruned" Delete went past a node with a value, up to one without, and *)
(*            removed that with all below it.                              *)
(***************************************************************************)
EXTENDS Integers, SequencesExt

CONSTANTS
  Keys,      \* strings of bytes, none empty: with "" every method returns at once
  Values,
  MaxCalls   \* a bound on the calls

None == 0     \* nil
Panic == -1

ASSUME TreeAssumption ==
  /\ Keys \subseteq Seq(0..255) \ {<<>>}
  /\ None \notin Values /\ Panic \notin Values

VARIABLES
  heap,      \* the nodes, [label, value, nodes]
  treeSize,
  panicked,
  map,
  mishaps,
  astray,    \* the Insert that has gone astray, <<>> without one
  calls

treeVars == <<heap, treeSize, panicked, map, mishaps, astray, calls>>

Root == 1

Leaf(label, v) == [label |-> label, value |-> v, nodes |-> <<>>]

\* NewPrefixTree
TreeInit ==
  /\ heap = <<Leaf(<<>>, None)>>
  /\ treeSize = 0
  /\ panicked = FALSE
  /\ map = [k \in {} |-> None]
  /\ mishaps = {}
  /\ astray = <<>>
  /\ calls = 0

\* s[n:]
Rest(s, n) == SubSeq(s, n + 1, Len(s))

----------------------------------------------------------------------------
(* The way down, the same in all four methods *)

\* The loop over subnodes: the first from the given one on whose label begins with char,
\* 0 without one.  label[0] of an empty label panics.
Seek(nodes, char, from) ==
  LET label(i) == heap[nodes[i]].label
      stops == {i \in from..Len(nodes) : label(i) = <<>> \/ label(i)[1] = char}
  IN  IF stops = {} THEN 0
      ELSE IF label(Min(stops)) = <<>> THEN Panic ELSE Min(stops)

\* Slip: the label is not compared beyond its first character.
MatchesFirst(label, key) == Len(label) < Len(key)

\* The label is all of a prefix of the key (101, 143, 212; in Insert 45-58).
Matches(label, key) == IsStrictPrefix(label, key)

\* A turn of the loop at node n: it has the key, or the way goes on with what is left of the
\* key, or it ends because key and label part.
Judged(n, key, char) ==
  LET label == heap[n].label
      out == IF key = label THEN "found" ELSE IF Matches(label, key) THEN "on" ELSE "apart"
  IN  [node |-> n, char |-> char, out |-> out,
       key |-> IF out = "apart" THEN key ELSE Rest(key, Len(label))]

\* The way goes on to a child, or ends at a node without one.
Onto(s) ==
  LET nodes == heap[s.node].nodes
      i == Seek(nodes, s.key[1], 1)
  IN  IF s.out # "on" THEN s
      ELSE IF i = Panic THEN [s EXCEPT !.out = "panic"]
      ELSE IF i = 0 THEN [s EXCEPT !.out = "stuck", !.char = s.key[1]]
      ELSE Judged(nodes[i], s.key, s.key[1])

Start(key) == [node |-> Root, char |-> key[1], out |-> "on", key |-> key]

\* A turn takes a character at least.
Way(s) ==
  LET way[t \in 0..Len(s.key)] == IF t = 0 THEN s ELSE Onto(way[t - 1])
  IN  way

End(s) == Way(s)[Len(s.key)]

----------------------------------------------------------------------------
(* Insert *)

\* How many characters key and label have in common (45-56).
Match(key, label) == Max({m \in 0..Len(label) : IsPrefix(SubSeq(label, 1, m), key)})

\* Slip: a node that is split keeps its value.
UpperKeepsValue(n, m, lower) ==
  [label |-> SubSeq(n.label, 1, m), value |-> n.value, nodes |-> <<lower>>]

\* A node is cut after m characters of its label (59-67): what stays, and its new child.
Upper(n, m, lower) == [label |-> SubSeq(n.label, 1, m), value |-> None, nodes |-> <<lower>>]
Lower(n, m) == [n EXCEPT !.label = Rest(n.label, m)]

Cut(s) ==
  LET n == heap[s.node]
      m == Match(s.key, n.label)
  IN  Append([heap EXCEPT ![s.node] = Upper(n, m, Len(heap) + 1)], Lower(n, m))

\* The inner loop has ended (36-78) in the root's child before `from`.  A cut changes no label
\* that is looked at after it.
Settle(s, from, key, v) ==
  LET n == heap[s.node]
      apart == s.out = "apart"
      cut == IF apart THEN Cut(s) ELSE heap
      left == IF apart THEN Rest(s.key, Match(s.key, n.label)) ELSE s.key
      j == Seek(heap[Root].nodes, s.char, from)
  IN  \/ /\ s.out = "found"
         /\ heap' = [heap EXCEPT ![s.node].value = v]
         /\ treeSize' = IF n.value = None THEN treeSize + 1 ELSE treeSize
         /\ map' = [k \in DOMAIN map \cup {key} |-> IF k = key THEN v ELSE map[k]]
         /\ astray' = <<>>
         /\ UNCHANGED <<panicked, mishaps>>
      \/ /\ s.out = "panic" \/ (s.out \in {"stuck", "apart"} /\ j = Panic)
         /\ heap' = cut
         /\ panicked' = TRUE
         /\ UNCHANGED <<treeSize, map, mishaps, astray>>
      \/ /\ s.out \in {"stuck", "apart"} /\ j > 0
         /\ heap' = cut
         /\ astray' = [child |-> j, left |-> left, char |-> s.char, key |-> key, value |-> v]
         /\ mishaps' = mishaps \cup {"stray"}
         /\ UNCHANGED <<treeSize, panicked, map>>
      \/ /\ s.out \in {"stuck", "apart"} /\ j = 0
         /\ heap' = Append([cut EXCEPT ![s.node].nodes = Append(@, Len(cut) + 1)], Leaf(left, v))
         /\ treeSize' = treeSize + 1
         /\ map' = [k \in DOMAIN map \cup {key} |-> IF k = key THEN v ELSE map[k]]
         /\ mishaps' = mishaps \cup IF left = <<>> THEN {"empty"} ELSE {}
         /\ astray' = <<>>
         /\ UNCHANGED panicked

Insert(key, v) ==
  /\ astray = <<>>
  /\ Settle(End(Start(key)), Seek(heap[Root].nodes, key[1], 1) + 1, key, v)

\* The loop over the root's children enters another one (33-35) with what is left of the key.
GoAstray ==
  /\ astray # <<>>
  /\ LET n == heap[Root].nodes[astray.child]
     IN  Settle(End(Judged(n, astray.left, astray.char)), astray.child + 1, astray.key, astray.value)

----------------------------------------------------------------------------
(* Lookup and MatchPrefix *)

\* The value, None, or a panic.
Lookup(key) ==
  LET s == End(Start(key))
  IN  IF s.out = "found" THEN heap[s.node].value ELSE IF s.out = "panic" THEN Panic ELSE None

\* The values on the way, each with what is left of the key.
Collected(key) ==
  LET way == Way(Start(key))
      match[t \in 0..Len(key)] ==
        IF t = 0 THEN <<>>
        ELSE LET s == way[t]
                 value == heap[s.node].value
             IN  IF way[t - 1].out = "on" /\ s.out \in {"on", "found"} /\ value # None
                 THEN Append(match[t - 1], [suffix |-> s.key, value |-> value])
                 ELSE match[t - 1]
  IN  match

MatchPrefix(key) == Collected(key)[Len(key)]

MatchPanics(key) == End(Start(key)).out = "panic"

----------------------------------------------------------------------------
(* Delete *)

\* A node without a value whose parent has other children, or is the root, is removed (169-187).
Useless(h, node, prev) ==
  h[node].value = None /\ (prev = Root \/ Len(h[prev].nodes) # 1)

\* The loop that goes from the end of the way up (161-189), to the first such node.
Prune(h, way, depth) ==
  LET useless == {t \in 1..depth : Useless(h, way[t].node, way[t - 1].node)}
      top == Max(useless)
      prev == way[top - 1].node
      place == CHOOSE i \in DOMAIN h[prev].nodes : h[prev].nodes[i] = way[top].node
  IN  IF useless = {} THEN [heap |-> h, odd |-> {}]
      ELSE [heap |-> [h EXCEPT ![prev].nodes = RemoveAt(@, place)],
            odd |-> IF \E t \in top + 1..depth : h[way[t].node].value # None
                    THEN {"pruned"} ELSE {}]

TreeDelete(key) ==
  LET way == Way(Start(key))
      s == End(Start(key))
      n == heap[s.node]
      cleared == [heap EXCEPT ![s.node].value = None]
      depth == Min({t \in 0..Len(key) : way[t].out # "on"})
      done == IF n.nodes = <<>> THEN Prune(cleared, way, depth)
              ELSE [heap |-> cleared, odd |-> {}]
  IN  /\ astray = <<>>
      /\ map' = [k \in DOMAIN map \ {key} |-> map[k]]
      /\ panicked' = (s.out = "panic")
      /\ IF s.out = "found" /\ n.value # None
         THEN /\ heap' = done.heap
              /\ treeSize' = treeSize - 1
              /\ mishaps' = mishaps \cup done.odd
         ELSE UNCHANGED <<heap, treeSize, mishaps>>
      /\ UNCHANGED astray

----------------------------------------------------------------------------

Call ==
  /\ ~ panicked
  /\ calls < MaxCalls
  /\ calls' = calls + 1

TreeNext ==
  \/ \E key \in Keys, v \in Values : Call /\ Insert(key, v)
  \/ \E key \in Keys : Call /\ TreeDelete(key)
  \/ ~ panicked /\ GoAstray /\ UNCHANGED calls

TreeSpec == TreeInit /\ [][TreeNext]_treeVars

----------------------------------------------------------------------------
(* Properties *)

\* A tree that never left the way of a radix tree implements the map, whatever was inserted,
\* replaced and deleted in it: every key has the value it was given last, no other key
\* has one, the size is the number of keys, and no call panics.
Agrees ==
  mishaps = {} =>
    /\ ~ panicked
    /\ \A key \in Keys : Lookup(key) = IF key \in DOMAIN map THEN map[key] ELSE None
    /\ treeSize = Cardinality(DOMAIN map)

\* In any tree, odd ones too, MatchPrefix returns exactly what Lookup finds for the prefixes
\* of the key, shortest first, and panics when and only when Lookup of one of them does.
MatchesAgree ==
  \A key \in Keys :
    LET answer(i) == Lookup(SubSeq(key, 1, i))
        match == MatchPrefix(key)
    IN  /\ MatchPanics(key) <=> \E i \in DOMAIN key : answer(i) = Panic
        /\ ~ MatchPanics(key) =>
             /\ ToSet(match) = {[suffix |-> Rest(key, i), value |-> answer(i)] :
                                  i \in {i \in DOMAIN key : answer(i) # None}}
             /\ \A k, l \in DOMAIN match : k < l => Len(match[k].suffix) > Len(match[l].suffix)
=============================================================================

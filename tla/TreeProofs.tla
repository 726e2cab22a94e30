----------------------------- MODULE TreeProofs -----------------------------
(***************************************************************************)
(* Machine-checked proofs about PrefixTree, for any keys and values and    *)
(* any number of calls.                                                    *)
(*                                                                         *)
(* The heap is a tree when each of some nodes, the root among them, stands *)
(* for a string of its own (sp): a child's string is its parent's followed *)
(* by its label, and the children of a node differ in their first          *)
(* characters (Radix).  It then holds the map when the value of each node  *)
(* is that of its string (Held).  A way down such a tree keeps that what   *)
(* it has taken of the key is the string of the node it is at, so where it *)
(* ends tells whether the key has a node (At).  MatchesAgree needs no tree,*)
(* only typed nodes: the way of a prefix of the key is that of the key     *)
(* until the prefix has been taken.                                        *)
(***************************************************************************)
EXTENDS PrefixTree, NumberLemmas, SequenceTheorems, FiniteSetTheorems

----------------------------------------------------------------------------
(* Strings *)

Str == Seq(0..255)

\* The beginnings of a string, and what follows them.
Begins(s, t) == Len(s) <= Len(t) /\ \A i \in 1..Len(s) : s[i] = t[i]

Continues(t, s, r) ==
  /\ Len(t) = Len(s) + Len(r)
  /\ \A i \in 1..Len(s) : t[i] = s[i]
  /\ \A i \in 1..Len(r) : t[Len(s) + i] = r[i]

LEMMA StrTyped ==
  ASSUME NEW s \in Str
  PROVE  Len(s) \in Nat /\ DOMAIN s = 1..Len(s) /\ \A i \in 1..Len(s) : s[i] \in 0..255
BY LenProperties, ElementOfSeq DEF Str

LEMMA SameStr ==
  ASSUME NEW s \in Str, NEW t \in Str, Len(s) = Len(t), \A i \in 1..Len(s) : s[i] = t[i]
  PROVE  s = t
BY SeqEqual DEF Str

LEMMA EmptyStr ==
  ASSUME NEW s \in Str
  PROVE  s = <<>> <=> Len(s) = 0
BY EmptySeq DEF Str

LEMMA ContinuesFrom ==
  ASSUME NEW t \in Str, NEW s \in Str, NEW r \in Str, Continues(t, s, r)
  PROVE  Begins(s, t) /\ Len(s) <= Len(t) /\ (r # <<>> => Len(s) # Len(t)) /\ Len(s) \in Nat /\ Len(t) \in Nat
<1> DEFINE x == Len(s)
           y == Len(r)
           z == Len(t)
<1>1. x \in Nat /\ y \in Nat /\ z = x + y /\ (r # <<>> => y # 0)
  BY StrTyped, EmptyStr DEF Continues
<1>2. \A i \in 1..x : s[i] = t[i]
  BY DEF Continues
<1> HIDE DEF x, y, z
<1>3. x <= z /\ (y # 0 => x # z) /\ z \in Nat
  BY <1>1
<1> QED
  BY <1>1, <1>2, <1>3 DEF Begins, x, y, z

LEMMA BeginsBoth ==
  ASSUME NEW s \in Str, NEW t \in Str, Begins(s, t), Len(s) = Len(t)
  PROVE  s = t
BY SameStr DEF Begins

LEMMA BeginsTrans ==
  ASSUME NEW s \in Str, NEW t \in Str, NEW u \in Str, Begins(s, t), Begins(t, u)
  PROVE  Begins(s, u)
BY StrTyped DEF Begins

\* Of two beginnings of one string the shorter begins the longer.
LEMMA BeginsOne ==
  ASSUME NEW s \in Str, NEW t \in Str, NEW u \in Str, Begins(s, u), Begins(t, u), Len(s) <= Len(t)
  PROVE  Begins(s, t)
BY StrTyped DEF Begins

LEMMA PrefixIs ==
  ASSUME NEW s \in Str, NEW t \in Str
  PROVE  IsPrefix(s, t) <=> Begins(s, t)
<1>1. Len(s) \in Nat /\ Len(t) \in Nat
  BY StrTyped
<1>2. CASE Len(s) <= Len(t)
  <2> DEFINE a == SubSeq(s, 1, Len(s))
             b == SubSeq(t, 1, Len(s))
  <2>1. /\ a \in Str /\ Len(a) = Len(s) /\ \A i \in 1..Len(s) : a[i] = s[i]
        /\ b \in Str /\ Len(b) = Len(s) /\ \A i \in 1..Len(s) : b[i] = t[i]
    BY <1>1, <1>2, StrTyped, SubSeqProperties DEF Str
  <2> HIDE DEF a, b
  <2>2. a = b <=> \A i \in 1..Len(s) : s[i] = t[i]
    BY <2>1, SameStr
  <2> QED
    BY <1>2, <2>2 DEF IsPrefix, Begins, a, b
<1>3. CASE ~ (Len(s) <= Len(t))
  BY <1>3 DEF IsPrefix, Begins
<1> QED
  BY <1>2, <1>3

LEMMA SliceIs ==
  ASSUME NEW s \in Str, NEW m \in Nat, NEW n \in Nat, 1 <= m, m <= n + 1, n <= Len(s)
  PROVE  /\ SubSeq(s, m, n) \in Str /\ Len(SubSeq(s, m, n)) = (n - m) + 1
         /\ \A i \in 1..(n - m) + 1 : SubSeq(s, m, n)[i] = s[(m + i) - 1]
<1>1. \A i \in m..n : s[i] \in 0..255
  <2>1. Len(s) \in Nat /\ \A i \in 1..Len(s) : s[i] \in 0..255
    BY StrTyped
  <2>2. \A i \in m..n : i \in 1..Len(s)
    BY <2>1
  <2> QED
    BY <2>1, <2>2
<1>2. m \in Int /\ n \in Int
  OBVIOUS
<1>3. /\ SubSeq(s, m, n) \in Str
      /\ Len(SubSeq(s, m, n)) = IF m <= n THEN n - m + 1 ELSE 0
      /\ \A i \in 1..n - m + 1 : SubSeq(s, m, n)[i] = s[m + i - 1]
  BY <1>1, <1>2, SubSeqProperties DEF Str
<1> QED
  BY <1>3

LEMMA RestIs ==
  ASSUME NEW s \in Str, NEW n \in 0..Len(s)
  PROVE  /\ Rest(s, n) \in Str /\ Len(Rest(s, n)) = Len(s) - n
         /\ \A i \in 1..Len(s) - n : Rest(s, n)[i] = s[n + i]
<1>1. Len(s) \in Nat /\ n \in Nat /\ n + 1 \in Nat /\ 1 <= n + 1 /\ n + 1 <= Len(s) + 1
  BY StrTyped
<1>2. /\ Rest(s, n) \in Str /\ Len(Rest(s, n)) = (Len(s) - (n + 1)) + 1
      /\ \A i \in 1..(Len(s) - (n + 1)) + 1 : Rest(s, n)[i] = s[((n + 1) + i) - 1]
  BY <1>1, SliceIs DEF Rest
<1>3. (Len(s) - (n + 1)) + 1 = Len(s) - n
  BY <1>1
<1>4. ASSUME NEW i \in 1..Len(s) - n PROVE Rest(s, n)[i] = s[n + i]
  <2>1. ((n + 1) + i) - 1 = n + i
    BY <1>1
  <2> QED
    BY <1>2, <1>3, <2>1
<1> QED
  BY <1>2, <1>3, <1>4

LEMMA HeadIs ==
  ASSUME NEW s \in Str, NEW n \in 0..Len(s)
  PROVE  /\ SubSeq(s, 1, n) \in Str /\ Len(SubSeq(s, 1, n)) = n
         /\ \A i \in 1..n : SubSeq(s, 1, n)[i] = s[i]
<1>1. Len(s) \in Nat /\ n \in Nat /\ 1 <= n + 1 /\ n <= Len(s)
  BY StrTyped
<1>2. /\ SubSeq(s, 1, n) \in Str /\ Len(SubSeq(s, 1, n)) = (n - 1) + 1
      /\ \A i \in 1..(n - 1) + 1 : SubSeq(s, 1, n)[i] = s[(1 + i) - 1]
  BY <1>1, SliceIs
<1>3. (n - 1) + 1 = n /\ \A i \in 1..n : (1 + i) - 1 = i
  BY <1>1
<1> QED
  BY <1>2, <1>3

\* What follows s in t, less what follows it in u.
LEMMA ContinuesOn ==
  ASSUME NEW t \in Str, NEW s \in Str, NEW r \in Str, NEW u \in Str, NEW l \in Str,
         Continues(t, s, r), Continues(u, s, l), Begins(l, r)
  PROVE  Continues(t, u, Rest(r, Len(l))) /\ Begins(u, t)
<1> DEFINE rest == Rest(r, Len(l))
<1>1. /\ Len(t) \in Nat /\ Len(s) \in Nat /\ Len(r) \in Nat /\ Len(u) \in Nat /\ Len(l) \in Nat
      /\ Len(l) <= Len(r) /\ Len(l) \in 0..Len(r)
  BY StrTyped DEF Begins
<1>2. Len(rest) = Len(r) - Len(l) /\ \A i \in 1..Len(r) - Len(l) : rest[i] = r[Len(l) + i]
  BY <1>1, RestIs
<1> HIDE DEF rest
<1>3. Len(t) = Len(u) + Len(rest)
  BY <1>1, <1>2 DEF Continues
<1>4. ASSUME NEW i \in 1..Len(u) PROVE t[i] = u[i]
  <2>1. CASE i <= Len(s)
    BY <1>1, <2>1 DEF Continues
  <2>2. CASE i > Len(s)
    <3>1. i - Len(s) \in 1..Len(l) /\ i - Len(s) \in 1..Len(r) /\ Len(s) + (i - Len(s)) = i
      BY <1>1, <2>2 DEF Continues
    <3>2. t[Len(s) + (i - Len(s))] = r[i - Len(s)] /\ u[Len(s) + (i - Len(s))] = l[i - Len(s)]
      BY <3>1 DEF Continues
    <3> QED
      BY <3>1, <3>2 DEF Begins
  <2> QED
    BY <1>1, <2>1, <2>2
<1>5. ASSUME NEW i \in 1..Len(rest) PROVE t[Len(u) + i] = rest[i]
  <2>1. /\ i \in 1..Len(r) - Len(l) /\ Len(l) + i \in 1..Len(r)
        /\ Len(u) + i = Len(s) + (Len(l) + i)
    BY <1>1, <1>2 DEF Continues
  <2>2. t[Len(s) + (Len(l) + i)] = r[Len(l) + i]
    BY <2>1 DEF Continues
  <2> QED
    BY <1>2, <2>1, <2>2
<1> QED
  BY <1>1, <1>3, <1>4, <1>5 DEF Continues, Begins, rest

\* Both continue s, and u begins t: so begins what follows it.
LEMMA ContinuesBegins ==
  ASSUME NEW t \in Str, NEW s \in Str, NEW r \in Str, NEW u \in Str, NEW l \in Str,
         Continues(t, s, r), Continues(u, s, l), Begins(u, t)
  PROVE  Begins(l, r)
<1>1. Len(t) \in Nat /\ Len(s) \in Nat /\ Len(r) \in Nat /\ Len(u) \in Nat /\ Len(l) \in Nat
  BY StrTyped
<1>2. Len(l) <= Len(r)
  BY <1>1 DEF Continues, Begins
<1>3. ASSUME NEW i \in 1..Len(l) PROVE l[i] = r[i]
  <2>1. i \in 1..Len(r) /\ Len(s) + i \in 1..Len(u)
    BY <1>1, <1>2 DEF Continues
  <2>2. t[Len(s) + i] = r[i] /\ u[Len(s) + i] = l[i]
    BY <2>1 DEF Continues
  <2> QED
    BY <2>1, <2>2 DEF Begins
<1> QED
  BY <1>2, <1>3 DEF Begins

Nodes(h) == 1..Len(h)

HeapTyped(h) ==
  /\ h \in Seq([label : Str, value : Values \cup {None}, nodes : Seq(Nat)])
  /\ Root \in Nodes(h)
  /\ \A n \in Nodes(h) : \A i \in 1..Len(h[n].nodes) : h[n].nodes[i] \in Nodes(h) \ {Root}

LEMMA NodeTyped ==
  ASSUME NEW h, HeapTyped(h)
  PROVE  /\ Len(h) \in Nat /\ DOMAIN h = Nodes(h)
         /\ \A n \in Nodes(h) :
              /\ h[n] \in [label : Str, value : Values \cup {None}, nodes : Seq(Nat)]
              /\ h[n].label \in Str /\ h[n].value \in Values \cup {None}
              /\ h[n].nodes \in Seq(Nat) /\ h[n].nodes \in Seq(Nodes(h))
              /\ Len(h[n].nodes) \in Nat /\ DOMAIN h[n].nodes = 1..Len(h[n].nodes)
<1>1. Len(h) \in Nat /\ DOMAIN h = Nodes(h)
  BY LenProperties DEF HeapTyped, Nodes
<1>2. ASSUME NEW n \in Nodes(h)
      PROVE  /\ h[n] \in [label : Str, value : Values \cup {None}, nodes : Seq(Nat)]
             /\ h[n].nodes \in Seq(Nat) /\ h[n].nodes \in Seq(Nodes(h))
             /\ Len(h[n].nodes) \in Nat /\ DOMAIN h[n].nodes = 1..Len(h[n].nodes)
  <2>1. h[n] \in [label : Str, value : Values \cup {None}, nodes : Seq(Nat)]
    BY ElementOfSeq DEF HeapTyped, Nodes
  <2>2. h[n].nodes \in Seq(Nat)
    BY <2>1
  <2>3. Len(h[n].nodes) \in Nat /\ DOMAIN h[n].nodes = 1..Len(h[n].nodes)
    BY <2>2, LenProperties
  <2>4. h[n].nodes = [i \in 1..Len(h[n].nodes) |-> h[n].nodes[i]]
    BY <2>2, <2>3
  <2>5. h[n].nodes \in Seq(Nodes(h))
    <3>1. \A i \in 1..Len(h[n].nodes) : h[n].nodes[i] \in Nodes(h)
      BY DEF HeapTyped
    <3>2. [i \in 1..Len(h[n].nodes) |-> h[n].nodes[i]] \in Seq(Nodes(h))
      BY <2>3, <3>1, IsASeq
    <3> QED
      BY <2>4, <3>2
  <2> QED
    BY <2>1, <2>2, <2>3, <2>5
<1> QED
  BY <1>1, <1>2

Sought(i, nodes, char, from) ==
  /\ i \in {Panic, 0} \cup from..Len(nodes)
  /\ i = Panic => \E j \in from..Len(nodes) : heap[nodes[j]].label = <<>>
  /\ i = 0 => \A j \in from..Len(nodes) : /\ heap[nodes[j]].label # <<>>
                                         /\ heap[nodes[j]].label[1] # char
  /\ i > 0 => heap[nodes[i]].label # <<>> /\ heap[nodes[i]].label[1] = char

LEMMA SeekIs ==
  ASSUME NEW nodes, NEW char, NEW from \in Nat, from >= 1
  PROVE  Sought(Seek(nodes, char, from), nodes, char, from)
<1> DEFINE label(j) == heap[nodes[j]].label
           stops == {j \in from..Len(nodes) : label(j) = <<>> \/ label(j)[1] = char}
           first == Min(stops)
<1>1. Seek(nodes, char, from) = IF stops = {} THEN 0 ELSE IF label(first) = <<>> THEN Panic ELSE first
  BY DEF Seek
<1>2. stops # {} => first \in stops
  <2>1. stops \subseteq Nat
    OBVIOUS
  <2> HIDE DEF stops
  <2>2. stops # {} => \E x \in stops : \A y \in stops : x <= y
    BY <2>1, Least
  <2> QED
    BY <2>2 DEF Min
<1> HIDE DEF first
<1>3. CASE stops = {}
  <2>1. Sought(0, nodes, char, from)
    BY <1>3 DEF Sought, Panic
  <2> QED
    BY <1>1, <1>3, <2>1
<1>4. CASE stops # {} /\ label(first) = <<>>
  <2>1. Sought(Panic, nodes, char, from)
    BY <1>2, <1>4 DEF Sought, Panic
  <2> QED
    BY <1>1, <1>4, <2>1
<1>5. CASE stops # {} /\ label(first) # <<>>
  <2>1. Sought(first, nodes, char, from)
    BY <1>2, <1>5 DEF Sought, Panic
  <2> QED
    BY <1>1, <1>5, <2>1
<1> QED
  BY <1>3, <1>4, <1>5

Outs == {"on", "found", "apart", "stuck", "panic"}

\* Where a way may be.
Ways == {s \in [node : Nodes(heap), char : 0..255, out : Outs, key : Str] :
           (s.out = "on" => s.key # <<>>) /\ (s.out = "apart" => s.node # Root)}

IsJudged(s, n, key, char) ==
  /\ s \in Ways /\ s.node = n /\ s.char = char
  /\ s.out \in {"on", "found", "apart"}
  /\ s.out = "found" => key = heap[n].label /\ s.key = <<>>
  /\ s.out = "on" => Begins(heap[n].label, key)
  /\ s.out = "apart" => ~ Begins(heap[n].label, key) /\ s.key = key
  /\ s.out # "apart" => Begins(heap[n].label, key) /\ s.key = Rest(key, Len(heap[n].label))

LEMMA JudgedIs ==
  ASSUME HeapTyped(heap), NEW n \in Nodes(heap) \ {Root}, NEW key \in Str,
         NEW char \in 0..255
  PROVE  IsJudged(Judged(n, key, char), n, key, char)
<1> DEFINE label == heap[n].label
           out == IF key = label THEN "found" ELSE IF Matches(label, key) THEN "on" ELSE "apart"
           s == Judged(n, key, char)
<1>1. s = [node |-> n, char |-> char, out |-> out,
           key |-> IF out = "apart" THEN key ELSE Rest(key, Len(label))]
  BY DEF Judged
<1>2. label \in Str
  BY NodeTyped
<1>3. Begins(label, key) => Len(label) \in 0..Len(key)
  BY <1>2, StrTyped DEF Begins
<1>4. CASE key = label
  <2>1. Begins(label, key)
    BY <1>2, <1>4, StrTyped DEF Begins
  <2>2. Rest(key, Len(label)) \in Str /\ Len(Rest(key, Len(label))) = Len(key) - Len(label)
    BY <1>3, <2>1, RestIs
  <2>3. Rest(key, Len(label)) = <<>>
    <3>1. Len(key) - Len(label) = 0
      BY <1>4, StrTyped
    <3> QED
      BY <2>2, <3>1, EmptyStr
  <2>4. s = [node |-> n, char |-> char, out |-> "found", key |-> Rest(key, Len(label))]
    BY <1>1, <1>4
  <2> QED
    BY <1>4, <2>1, <2>2, <2>3, <2>4 DEF Ways, Outs, IsJudged
<1>5. CASE key # label /\ Matches(label, key)
  <2>1. Begins(label, key)
    BY <1>2, <1>5, PrefixIs DEF Matches, IsStrictPrefix
  <2>2. Rest(key, Len(label)) \in Str /\ Len(Rest(key, Len(label))) = Len(key) - Len(label)
    BY <1>3, <2>1, RestIs
  <2>3. Rest(key, Len(label)) # <<>>
    <3>1. Len(key) # Len(label)
      BY <1>2, <1>5, <2>1, BeginsBoth
    <3>2. Len(key) - Len(label) # 0
      BY <1>2, <3>1, StrTyped
    <3> QED
      BY <2>2, <3>2, EmptyStr
  <2>4. s = [node |-> n, char |-> char, out |-> "on", key |-> Rest(key, Len(label))]
    BY <1>1, <1>5
  <2> QED
    BY <2>1, <2>2, <2>3, <2>4 DEF Ways, Outs, IsJudged
<1>6. CASE key # label /\ ~ Matches(label, key)
  <2>1. ~ Begins(label, key)
    BY <1>2, <1>6, PrefixIs DEF Matches, IsStrictPrefix
  <2>2. s = [node |-> n, char |-> char, out |-> "apart", key |-> key]
    BY <1>1, <1>6
  <2> QED
    BY <2>1, <2>2 DEF Ways, Outs, IsJudged
<1> QED
  BY <1>4, <1>5, <1>6

\* A turn: what it was looked at, and what came of it.
LEMMA OntoIs ==
  ASSUME HeapTyped(heap), NEW s \in Ways, s.out = "on"
  PROVE  LET nodes == heap[s.node].nodes
             i == Seek(nodes, s.key[1], 1)
             t == Onto(s)
         IN  /\ Sought(i, nodes, s.key[1], 1) /\ nodes \in Seq(Nodes(heap)) /\ Len(nodes) \in Nat
             /\ s.key \in Str /\ s.key # <<>> /\ s.node \in Nodes(heap) /\ t \in Ways
             /\ \/ i = Panic /\ t.out = "panic" /\ t.key = s.key
                \/ i = 0 /\ t.out = "stuck" /\ t.key = s.key /\ t.node = s.node /\ t.char = s.key[1]
                \/ /\ i \in 1..Len(nodes) /\ nodes[i] \in Nodes(heap) \ {Root}
                   /\ t = Judged(nodes[i], s.key, s.key[1])
                   /\ t.out = "on" => Len(t.key) < Len(s.key)
<1> DEFINE nodes == heap[s.node].nodes
           i == Seek(nodes, s.key[1], 1)
           t == Onto(s)
<1>1. /\ s.node \in Nodes(heap) /\ s.key \in Str /\ s.key # <<>> /\ s.char \in 0..255
      /\ s \in [node : Nodes(heap), char : 0..255, out : Outs, key : Str]
  BY DEF Ways
<1>2. nodes \in Seq(Nodes(heap)) /\ Len(nodes) \in Nat
  BY <1>1, NodeTyped
<1>3. s.key[1] \in 0..255
  <2>1. Len(s.key) # 0 /\ Len(s.key) \in Nat
    BY <1>1, EmptyStr, StrTyped
  <2> QED
    BY <1>1, <2>1, StrTyped
<1>4. Sought(i, nodes, s.key[1], 1)
  BY SeekIs
<1>5. t = IF i = Panic THEN [s EXCEPT !.out = "panic"]
          ELSE IF i = 0 THEN [s EXCEPT !.out = "stuck", !.char = s.key[1]]
          ELSE Judged(nodes[i], s.key, s.key[1])
  BY DEF Onto
<1> HIDE DEF i, t
<1>6. CASE i = Panic
  <2>1. t = [s EXCEPT !.out = "panic"]
    BY <1>5, <1>6
  <2>2. t \in Ways /\ t.out = "panic" /\ t.key = s.key
    BY <1>1, <2>1 DEF Ways, Outs
  <2> QED
    BY <1>1, <1>2, <1>4, <1>6, <2>2 DEF i, t
<1>7. CASE i # Panic /\ i = 0
  <2>1. t = [s EXCEPT !.out = "stuck", !.char = s.key[1]]
    BY <1>5, <1>7
  <2>2. t \in Ways /\ t.out = "stuck" /\ t.key = s.key /\ t.node = s.node /\ t.char = s.key[1]
    BY <1>1, <1>3, <2>1 DEF Ways, Outs
  <2> QED
    BY <1>1, <1>2, <1>4, <1>7, <2>2 DEF i, t
<1>8. CASE i # Panic /\ i # 0
  <2>1. t = Judged(nodes[i], s.key, s.key[1])
    BY <1>5, <1>8
  <2>2. i \in 1..Len(nodes) /\ i > 0
    BY <1>2, <1>4, <1>8 DEF Sought
  <2>3. nodes[i] \in Nodes(heap) \ {Root} /\ heap[nodes[i]].label # <<>>
    <3>1. nodes[i] \in Nodes(heap) \ {Root}
      BY <1>1, <2>2 DEF HeapTyped
    <3> QED
      BY <1>4, <2>2, <3>1 DEF Sought
  <2> DEFINE n == nodes[i]
             l == heap[n].label
  <2>4. t \in Ways /\ (t.out = "on" => Begins(l, s.key) /\ t.key = Rest(s.key, Len(l)))
    <3>1. n \in Nodes(heap) \ {Root}
      BY <2>3
    <3> DEFINE key == s.key
               char == key[1]
               r == Judged(n, key, char)
    <3>k. key \in Str /\ char \in 0..255
      BY <1>1, <1>3
    <3> HIDE DEF n, nodes, key, char
    <3>j. IsJudged(r, n, key, char)
      BY <3>1, <3>k, JudgedIs
    <3> HIDE DEF r
    <3>2. /\ r \in Ways
          /\ r.out \in {"on", "found", "apart"}
          /\ r.out # "apart" => Begins(heap[n].label, key) /\ r.key = Rest(key, Len(heap[n].label))
      BY <3>j DEF IsJudged
    <3>3. t = r
      BY <2>1 DEF r, n, key, char
    <3> QED
      BY <3>2, <3>3 DEF n, key
  <2>5. t.out = "on" => Len(t.key) < Len(s.key)
    <3>1. l \in Str /\ Len(l) \in Nat /\ Len(l) # 0 /\ Len(s.key) \in Nat
      BY <1>1, <2>3, NodeTyped, StrTyped, EmptyStr
    <3> HIDE DEF l
    <3>2. Begins(l, s.key) => Len(l) \in 0..Len(s.key)
      BY <3>1 DEF Begins
    <3>3. Begins(l, s.key) => Len(Rest(s.key, Len(l))) = Len(s.key) - Len(l)
      BY <1>1, <3>2, RestIs
    <3>4. ASSUME t.out = "on" PROVE Len(t.key) < Len(s.key)
      <4>1. Len(t.key) = Len(s.key) - Len(l)
        BY <2>4, <3>3, <3>4 
      <4> QED
        BY <3>1, <4>1
    <3> QED
      BY <3>4
  <2> QED
    BY <1>1, <1>2, <1>4, <2>1, <2>2, <2>3, <2>4, <2>5 DEF i, t
<1> QED
  BY <1>6, <1>7, <1>8

LEMMA OntoTyped ==
  ASSUME HeapTyped(heap), NEW s \in Ways
  PROVE  Onto(s) \in Ways
<1>1. CASE s.out = "on"
  BY <1>1, OntoIs
<1>2. CASE s.out # "on"
  BY <1>2 DEF Onto
<1> QED
  BY <1>1, <1>2

LEMMA WayIs ==
  ASSUME HeapTyped(heap), NEW s \in Ways
  PROVE  /\ Way(s)[0] = s
         /\ \A t \in 1..Len(s.key) : Way(s)[t] = Onto(Way(s)[t - 1])
         /\ \A t \in 0..Len(s.key) : Way(s)[t] \in Ways
<1> DEFINE n == Len(s.key)
           G == [t \in 1..n |-> [v \in Ways |-> Onto(v)]]
           IsWay(f) == f = [t \in 0..n |-> IF t = 0 THEN s ELSE Onto(f[t - 1])]
           way == Way(s)
<1>1. n \in Nat
  BY StrTyped DEF Ways
<1>2. Iterates(n, Ways, s, G)
  BY <1>1, OntoTyped DEF Iterates
<1>3. PICK f \in [0..n -> Ways] : \A t \in 0..n : f[t] = IF t = 0 THEN s ELSE G[t][f[t - 1]]
  <2> HIDE DEF G
  <2> QED
    BY <1>2, Iterated
<1>4. ASSUME NEW t \in 0..n, t # 0 PROVE f[t] = Onto(f[t - 1])
  <2>1. t \in 1..n /\ t - 1 \in 0..n
    BY <1>1, <1>4
  <2>2. f[t - 1] \in Ways
    BY <2>1
  <2> QED
    BY <1>3, <1>4, <2>1, <2>2
<1>5. IsWay(f)
  <2> HIDE DEF G
  <2> QED
    BY <1>3, <1>4
<1>6. way = CHOOSE g : IsWay(g)
  BY DEF Way
<1> HIDE DEF IsWay, way, G
<1>7. IsWay(way)
  BY <1>5, <1>6
<1>8. way = [t \in 0..n |-> IF t = 0 THEN s ELSE Onto(way[t - 1])]
  BY <1>7 DEF IsWay
<1>9. way[0] = s /\ \A t \in 1..n : way[t] = Onto(way[t - 1])
  <2>1. 0 \in 0..n /\ \A t \in 1..n : t \in 0..n /\ t # 0
    BY <1>1
  <2>2. way[0] = s
    BY <1>8, <2>1
  <2>3. ASSUME NEW t \in 1..n PROVE way[t] = Onto(way[t - 1])
    BY <1>8, <2>1
  <2> QED
    BY <2>2, <2>3
<1> DEFINE T == {t \in 0..n : way[t] \in Ways}
<1>10. 0 \in T
  BY <1>1, <1>9
<1>11. ASSUME NEW t \in 0..(n - 1), t \in T PROVE t + 1 \in T
  <2>1. t + 1 \in 1..n /\ t + 1 \in 0..n /\ (t + 1) - 1 = t
    BY <1>1
  <2>2. way[t + 1] = Onto(way[t]) /\ way[t] \in Ways
    BY <1>9, <1>11, <2>1
  <2> QED
    BY <2>1, <2>2, OntoTyped
<1>12. \A t \in 0..n : way[t] \in Ways
  <2>1. 0..n \subseteq T
    <3> HIDE DEF T
    <3> QED
      BY <1>1, <1>10, <1>11, InductTo
  <2> QED
    BY <2>1
<1> QED
  BY <1>9, <1>12 DEF way

\* A way that has ended stays so,
LEMMA WayStays ==
  ASSUME HeapTyped(heap), NEW s \in Ways, NEW t \in 0..Len(s.key), Way(s)[t].out # "on"
  PROVE  End(s) = Way(s)[t]
<1> DEFINE n == Len(s.key)
           T == {d \in 0..n - t : Way(s)[t + d] = Way(s)[t]}
<1>1. n \in Nat /\ t \in Nat /\ n - t \in Nat
  BY StrTyped DEF Ways
<1>2. 0 \in T
  BY <1>1
<1>3. ASSUME NEW d \in 0..((n - t) - 1), d \in T PROVE d + 1 \in T
  <2>1. t + (d + 1) \in 1..n /\ (t + (d + 1)) - 1 = t + d /\ d + 1 \in 0..n - t
    BY <1>1
  <2>2. Way(s)[t + (d + 1)] = Onto(Way(s)[t + d])
    BY <2>1, WayIs
  <2>3. Way(s)[t + d] = Way(s)[t]
    BY <1>3
  <2>4. Onto(Way(s)[t]) = Way(s)[t]
    BY DEF Onto
  <2> QED
    BY <2>1, <2>2, <2>3, <2>4
<1>4. 0..n - t \subseteq T
  <2> HIDE DEF T
  <2> QED
    BY <1>1, <1>2, <1>3, InductTo
<1>5. n - t \in 0..n - t /\ t + (n - t) = n
  BY <1>1
<1>6. n - t \in T
  <2> HIDE DEF T
  <2> QED
    BY <1>4, <1>5
<1> QED
  BY <1>5, <1>6 DEF End

\* and every way ends.
LEMMA WayEnds ==
  ASSUME HeapTyped(heap), NEW s \in Ways
  PROVE  End(s).out # "on" /\ End(s) \in Ways
<1> DEFINE n == Len(s.key)
           T == {t \in 0..n : Way(s)[t].out = "on" => Len(Way(s)[t].key) + t <= n}
<1>1. n \in Nat
  BY StrTyped DEF Ways
<1>2. 0 \in T
  BY <1>1, WayIs
<1>3. ASSUME NEW t \in 0..(n - 1), t \in T PROVE t + 1 \in T
  <2> DEFINE a == Way(s)[t]
             b == Way(s)[t + 1]
  <2>1. t + 1 \in 1..n /\ t + 1 \in 0..n /\ (t + 1) - 1 = t /\ t \in 0..n
    BY <1>1
  <2>2. b = Onto(a) /\ a \in Ways /\ b \in Ways
    BY <2>1, WayIs
  <2>3. a.out = "on" => Len(a.key) + t <= n
    BY <1>3
  <2> HIDE DEF a, b
  <2>4. ASSUME b.out = "on" PROVE Len(b.key) + (t + 1) <= n
    <3>1. a.out = "on"
      BY <2>2, <2>4 DEF Onto
    <3>2. Len(b.key) < Len(a.key)
      BY <2>2, <2>4, <3>1, OntoIs
    <3>3. Len(a.key) \in Nat /\ Len(b.key) \in Nat
      BY <2>2, StrTyped DEF Ways
    <3> DEFINE x == Len(a.key)
               y == Len(b.key)
    <3>4. x + t <= n /\ y < x /\ x \in Nat /\ y \in Nat
      BY <2>3, <3>1, <3>2, <3>3
    <3> HIDE DEF x, y, n
    <3>5. y + (t + 1) <= n
      BY <1>1, <3>4
    <3> QED
      BY <3>5 DEF y
  <2> QED
    BY <2>1, <2>4 DEF b
<1>4. n \in T
  <2> HIDE DEF T
  <2>1. 0..n \subseteq T
    BY <1>1, <1>2, <1>3, InductTo
  <2> QED
    BY <1>1, <2>1
<1>5. End(s) = Way(s)[n] /\ End(s) \in Ways
  BY <1>1, WayIs DEF End
<1>6. ASSUME End(s).out = "on" PROVE FALSE
  <2>1. Len(End(s).key) + n <= n
    BY <1>4, <1>5, <1>6
  <2>2. End(s).key \in Str /\ End(s).key # <<>>
    BY <1>5, <1>6 DEF Ways
  <2> DEFINE x == Len(End(s).key)
  <2>3. x \in Nat /\ x # 0 /\ x + n <= n
    BY <2>1, <2>2, StrTyped, EmptyStr
  <2> HIDE DEF x, n
  <2> QED
    BY <1>1, <2>3
<1> QED
  BY <1>5, <1>6
----------------------------------------------------------------------------
(* What a tree stands for.  sp says which string each of its nodes does. *)

Radix(h, L, sp) ==
  /\ L \subseteq Nodes(h) /\ Root \in L /\ sp \in [L -> Str] /\ sp[Root] = <<>>
  /\ \A n \in L : \A i \in 1..Len(h[n].nodes) :
       /\ h[n].nodes[i] \in L /\ h[h[n].nodes[i]].label # <<>>
       /\ Continues(sp[h[n].nodes[i]], sp[n], h[h[n].nodes[i]].label)
  /\ \A n \in L : \A i, j \in 1..Len(h[n].nodes) :
       h[h[n].nodes[i]].label[1] = h[h[n].nodes[j]].label[1] => i = j
  /\ \A a, b \in L : sp[a] = sp[b] => a = b
  /\ \A a, b \in L : a # b /\ Begins(sp[a], sp[b]) =>
       \E i \in 1..Len(h[a].nodes) : Begins(sp[h[a].nodes[i]], sp[b])

Typed(m) == DOMAIN m \subseteq Keys /\ IsFiniteSet(DOMAIN m) /\ \A k \in DOMAIN m : m[k] \in Values

Held(h, L, sp, m) ==
  /\ \A n \in L : h[n].value = IF sp[n] \in DOMAIN m THEN m[sp[n]] ELSE None
  /\ \A k \in DOMAIN m : \E n \in L : sp[n] = k

Standing(h, m) == \E L, sp : Radix(h, L, sp) /\ Held(h, L, sp, m)

\* A node's child begins whatever the node begins.
LEMMA Below ==
  ASSUME NEW h, NEW L, NEW sp, HeapTyped(h), Radix(h, L, sp), NEW a \in L, NEW t \in Str, NEW r \in Str,
         Continues(t, sp[a], r), NEW b \in L, a # b, Begins(sp[a], sp[b]), Begins(sp[b], t)
  PROVE  \E i \in 1..Len(h[a].nodes) :
           LET c == h[a].nodes[i]
           IN  Begins(sp[c], sp[b]) /\ Begins(h[c].label, r) /\ h[c].label[1] = r[1]
<1>1. PICK i \in 1..Len(h[a].nodes) : Begins(sp[h[a].nodes[i]], sp[b])
  BY DEF Radix
<1> DEFINE c == h[a].nodes[i]
           l == h[c].label
<1>2. c \in L /\ c \in Nodes(h) /\ l # <<>> /\ Continues(sp[c], sp[a], l)
  BY DEF Radix
<1>3. l \in Str /\ sp[a] \in Str /\ sp[b] \in Str /\ sp[c] \in Str
  <2>1. l \in Str
    BY <1>2, NodeTyped
  <2> QED
    BY <1>2, <2>1 DEF Radix
<1>4. Begins(sp[c], sp[b])
  BY <1>1
<1> HIDE DEF c, l
<1>5. Begins(sp[c], t)
  BY <1>3, <1>4, BeginsTrans
<1>6. Begins(l, r)
  BY <1>2, <1>3, <1>5, ContinuesBegins
<1>7. l[1] = r[1]
  <2>1. Len(l) \in Nat /\ Len(l) # 0
    BY <1>2, <1>3, EmptyStr, StrTyped
  <2> QED
    BY <1>6, <2>1 DEF Begins
<1> QED
  BY <1>4, <1>6, <1>7 DEF c, l

\* What begins a child is the child or begins its parent.
LEMMA Between ==
  ASSUME NEW h, NEW L, NEW sp, HeapTyped(h), Radix(h, L, sp), NEW n \in L,
         NEW i \in 1..Len(h[n].nodes), NEW x \in L, Begins(sp[x], sp[h[n].nodes[i]])
  PROVE  x = h[n].nodes[i] \/ Begins(sp[x], sp[n])
<1> DEFINE c == h[n].nodes[i]
           l == h[c].label
<1>1. c \in L /\ c \in Nodes(h) /\ l # <<>> /\ Continues(sp[c], sp[n], l)
  BY DEF Radix
<1>2. l \in Str /\ sp[n] \in Str /\ sp[x] \in Str /\ sp[c] \in Str
  <2>1. l \in Str
    BY <1>1, NodeTyped
  <2> QED
    BY <1>1, <2>1 DEF Radix
<1>3. Begins(sp[n], sp[c]) /\ Len(sp[n]) \in Nat /\ Len(sp[x]) \in Nat
  <2> HIDE DEF c, l
  <2> QED
    BY <1>1, <1>2, StrTyped, ContinuesFrom
<1>4. CASE Len(sp[x]) <= Len(sp[n])
  BY <1>2, <1>3, <1>4, BeginsOne
<1>5. CASE ~ (Len(sp[x]) <= Len(sp[n]))
  <2>1. Begins(sp[n], sp[x]) /\ n # x
    BY <1>2, <1>3, <1>5, BeginsOne
  <2> HIDE DEF l
  <2>2. PICK j \in 1..Len(h[n].nodes) : /\ Begins(sp[h[n].nodes[j]], sp[x])
                                       /\ h[h[n].nodes[j]].label[1] = l[1]
    <3> HIDE DEF c
    <3>1. Begins(sp[x], sp[c])
      BY DEF c
    <3> QED
      BY <1>1, <1>2, <2>1, <3>1, Below
  <2>3. i = j
    BY <2>2 DEF Radix, l
  <2>4. Begins(sp[c], sp[x]) /\ Begins(sp[x], sp[c])
    BY <2>2, <2>3
  <2> HIDE DEF c
  <2>5. sp[x] = sp[c]
    <3>1. Len(sp[x]) = Len(sp[c])
      BY <1>2, <2>4, StrTyped DEF Begins
    <3> QED
      BY <1>2, <2>4, <3>1, BeginsBoth
  <2>6. x = c
    BY <1>1, <2>5 DEF Radix
  <2> QED
    BY <2>6 DEF c
<1> QED
  BY <1>4, <1>5

----------------------------------------------------------------------------
(* The way down such a tree *)

\* Where a way with the key is.
At(s, L, sp, key) ==
  /\ s.node \in L /\ s.out # "panic"
  /\ s.out = "found" => sp[s.node] = key
  /\ s.out \in {"on", "stuck"} => Continues(key, sp[s.node], s.key) /\ s.key # <<>>
  /\ s.out = "stuck" => \A i \in 1..Len(heap[s.node].nodes) : heap[heap[s.node].nodes[i]].label[1] # s.key[1]
  /\ s.out = "apart" =>
       /\ s.key # <<>> /\ heap[s.node].label[1] = s.key[1] /\ ~ Begins(heap[s.node].label, s.key)
       /\ \E p \in L : /\ Continues(key, sp[p], s.key)
                       /\ \E i \in 1..Len(heap[p].nodes) : heap[p].nodes[i] = s.node

LEMMA OntoAt ==
  ASSUME HeapTyped(heap), NEW L, NEW sp, Radix(heap, L, sp), NEW key \in Str, NEW s \in Ways,
         At(s, L, sp, key)
  PROVE  At(Onto(s), L, sp, key)
<1>1. CASE s.out # "on"
  <2>1. Onto(s) = s
    BY <1>1 DEF Onto
  <2> QED
    BY <2>1
<1>2. CASE s.out = "on"
  <2> DEFINE nodes == heap[s.node].nodes
             i == Seek(nodes, s.key[1], 1)
             t == Onto(s)
  <2>1. /\ Sought(i, nodes, s.key[1], 1) /\ nodes \in Seq(Nodes(heap)) /\ Len(nodes) \in Nat
        /\ s.key \in Str /\ s.key # <<>> /\ s.node \in Nodes(heap) /\ t \in Ways
        /\ \/ i = Panic /\ t.out = "panic" /\ t.key = s.key
           \/ i = 0 /\ t.out = "stuck" /\ t.key = s.key /\ t.node = s.node /\ t.char = s.key[1]
           \/ /\ i \in 1..Len(nodes) /\ nodes[i] \in Nodes(heap) \ {Root}
              /\ t = Judged(nodes[i], s.key, s.key[1])
              /\ t.out = "on" => Len(t.key) < Len(s.key)
    BY <1>2, OntoIs
  <2>2. s.node \in L /\ Continues(key, sp[s.node], s.key)
    BY <1>2 DEF At
  <2> HIDE DEF i, t
  <2>3. CASE i = Panic
    <3>1. PICK j \in 1..Len(nodes) : heap[nodes[j]].label = <<>>
      BY <2>1, <2>3 DEF Sought
    <3> QED
      BY <2>2, <3>1 DEF Radix
  <2>4. CASE i = 0 /\ t.out = "stuck" /\ t.key = s.key /\ t.node = s.node /\ t.char = s.key[1]
    <3>1. \A j \in 1..Len(nodes) : heap[nodes[j]].label[1] # s.key[1]
      BY <2>1, <2>4 DEF Sought
    <3> QED
      BY <2>1, <2>2, <2>4, <3>1 DEF At, t
  <2>5. CASE i \in 1..Len(nodes) /\ nodes[i] \in Nodes(heap) \ {Root} /\ t = Judged(nodes[i], s.key, s.key[1])
    <3> DEFINE n == nodes[i]
               l == heap[n].label
    <3>1. n \in L /\ l # <<>> /\ Continues(sp[n], sp[s.node], l) /\ l \in Str /\ sp[n] \in Str /\ sp[s.node] \in Str
      <4>1. n \in L /\ l # <<>> /\ Continues(sp[n], sp[s.node], l)
        BY <2>2, <2>5 DEF Radix
      <4>2. l \in Str
        BY <2>5, NodeTyped
      <4> QED
        BY <2>2, <4>1, <4>2 DEF Radix
    <3>2. IsJudged(t, n, s.key, s.key[1])
      <4> DEFINE k == s.key
                 char == k[1]
      <4>1. Len(k) # 0 /\ Len(k) \in Nat
        BY <2>1, EmptyStr, StrTyped
      <4>2. k \in Str /\ char \in 0..255
        BY <2>1, <4>1, StrTyped
      <4>3. n \in Nodes(heap) \ {Root}
        BY <2>5
      <4> HIDE DEF n, k, char
      <4>4. IsJudged(Judged(n, k, char), n, k, char)
        BY <4>2, <4>3, JudgedIs
      <4> QED
        BY <2>5, <4>4 DEF n, k, char
    <3>3. l[1] = s.key[1]
      <4>1. i > 0
        BY <2>1, <2>5
      <4> QED
        BY <2>1, <4>1 DEF Sought
    <3>4. n = heap[s.node].nodes[i]
      OBVIOUS
    <3> HIDE DEF n, l, nodes
    <3>5. t.out # "apart" => Continues(key, sp[n], t.key)
      <4>1. ASSUME t.out # "apart" PROVE Continues(key, sp[n], t.key)
        <5>1. Begins(l, s.key) /\ t.key = Rest(s.key, Len(l))
          BY <3>2, <4>1 DEF IsJudged, l
        <5>2. Continues(key, sp[n], Rest(s.key, Len(l)))
          BY <2>1, <2>2, <3>1, <5>1, ContinuesOn
        <5> QED
          BY <5>1, <5>2
      <4> QED
        BY <4>1
    <3>6. CASE t.out = "apart"
      <4>1. t.node = n /\ t.key = s.key /\ ~ Begins(l, s.key)
        BY <3>2, <3>6 DEF IsJudged, l
      <4> QED
        BY <2>1, <2>2, <2>5, <3>1, <3>3, <3>4, <3>6, <4>1 DEF At, t, l, nodes
    <3>7. CASE t.out = "on"
      <4>1. t.node = n /\ t.key # <<>>
        BY <2>1, <3>2, <3>7 DEF IsJudged, Ways
      <4> QED
        BY <3>1, <3>5, <3>7, <4>1 DEF At, t
    <3>8. CASE t.out = "found"
      <4>1. t.node = n /\ t.key = <<>>
        BY <3>2, <3>8 DEF IsJudged
      <4>2. Continues(key, sp[n], <<>>)
        BY <3>5, <3>8, <4>1
      <4>3. key = sp[n]
        <5>1. <<>> \in Str /\ Len(<<>>) = 0
          BY EmptySeq DEF Str
        <5>2. Len(key) = Len(sp[n]) /\ \A j \in 1..Len(sp[n]) : key[j] = sp[n][j]
          BY <3>1, <4>2, <5>1, StrTyped DEF Continues
        <5> QED
          BY <3>1, <5>2, SameStr
      <4> QED
        BY <3>1, <3>8, <4>1, <4>3 DEF At, t
    <3> QED
      BY <3>2, <3>6, <3>7, <3>8 DEF IsJudged
  <2> QED
    BY <2>1, <2>3, <2>4, <2>5
<1> QED
  BY <1>1, <1>2

LEMMA StartIs ==
  ASSUME HeapTyped(heap), NEW key \in Str, key # <<>>
  PROVE  Start(key) \in Ways /\ Start(key).key = key /\ Start(key).node = Root /\ Start(key).out = "on"
         /\ Len(key) \in Nat /\ Len(key) > 0 /\ key[1] \in 0..255
<1>1. Len(key) \in Nat /\ Len(key) > 0 /\ key[1] \in 0..255
  BY EmptyStr, StrTyped
<1> QED
  BY <1>1 DEF Start, Ways, HeapTyped, Outs

LEMMA WayAt ==
  ASSUME HeapTyped(heap), NEW L, NEW sp, Radix(heap, L, sp), NEW key \in Str, key # <<>>
  PROVE  \A t \in 0..Len(key) : At(Way(Start(key))[t], L, sp, key)
<1> DEFINE n == Len(key)
           s == Start(key)
           T == {t \in 0..n : At(Way(s)[t], L, sp, key)}
<1>1. s \in Ways /\ s.key = key /\ s.node = Root /\ s.out = "on" /\ n \in Nat
  BY StartIs
<1> HIDE DEF s
<1>2. 0 \in T
  <2>1. Way(s)[0] = s
    BY <1>1, WayIs
  <2>2. Continues(key, <<>>, key)
    <3>1. <<>> \in Str /\ Len(<<>>) = 0
      BY EmptySeq DEF Str
    <3> QED
      BY <1>1, <3>1, StrTyped DEF Continues
  <2>3. At(s, L, sp, key)
    BY <1>1, <2>2 DEF At, Radix
  <2> QED
    BY <1>1, <2>1, <2>3
<1>3. ASSUME NEW t \in 0..(n - 1), t \in T PROVE t + 1 \in T
  <2>1. t + 1 \in 1..n /\ t + 1 \in 0..n /\ (t + 1) - 1 = t /\ t \in 0..n
    BY <1>1
  <2>2. Way(s)[t + 1] = Onto(Way(s)[t]) /\ Way(s)[t] \in Ways
    BY <1>1, <2>1, WayIs
  <2>3. At(Way(s)[t], L, sp, key)
    BY <1>3
  <2>4. At(Onto(Way(s)[t]), L, sp, key)
    BY <2>2, <2>3, OntoAt
  <2> QED
    BY <2>1, <2>2, <2>4
<1>4. 0..n \subseteq T
  <2> HIDE DEF T, n
  <2> QED
    BY <1>1, <1>2, <1>3, InductTo
<1> QED
  BY <1>4 DEF s

LEMMA EndAt ==
  ASSUME HeapTyped(heap), NEW L, NEW sp, Radix(heap, L, sp), NEW key \in Str, key # <<>>
  PROVE  /\ At(End(Start(key)), L, sp, key) /\ End(Start(key)) \in Ways
         /\ End(Start(key)).out \in {"found", "stuck", "apart"}
<1> DEFINE s == Start(key)
<1>1. s \in Ways /\ s.key = key /\ Len(key) \in Nat
  BY StartIs
<1>2. At(Way(s)[Len(key)], L, sp, key)
  <2>1. Len(key) \in 0..Len(key)
    BY <1>1
  <2> QED
    BY <2>1, WayAt
<1> HIDE DEF s
<1>3. At(End(s), L, sp, key)
  BY <1>1, <1>2 DEF End, s
<1>4. End(s).out # "on" /\ End(s) \in Ways
  BY <1>1, WayEnds
<1>5. End(s).out \in {"found", "stuck", "apart"}
  BY <1>3, <1>4 DEF Ways, Outs, At
<1> QED
  BY <1>3, <1>4, <1>5 DEF s

\* A key that is not found is no node's.
LEMMA NotFound ==
  ASSUME HeapTyped(heap), NEW L, NEW sp, Radix(heap, L, sp), NEW key \in Str, key # <<>>,
         End(Start(key)).out # "found", NEW b \in L
  PROVE  sp[b] # key
<1> SUFFICES ASSUME sp[b] = key PROVE FALSE
  OBVIOUS
<1> DEFINE s == End(Start(key))
<1>1. At(s, L, sp, key) /\ s \in Ways /\ s.out \in {"stuck", "apart"}
  BY EndAt
<1> HIDE DEF s
<1>k. s.key \in Str
  BY <1>1 DEF Ways
<1>b. Begins(sp[b], key)
  BY StrTyped DEF Begins
<1>2. ASSUME NEW a \in L, Continues(key, sp[a], s.key), s.key # <<>>
      PROVE  a # b /\ Begins(sp[a], key)
  <2>1. sp[a] \in Str
    BY DEF Radix
  <2>2. Begins(sp[a], key) /\ Len(sp[a]) # Len(key)
    BY <1>k, <1>2, <2>1, ContinuesFrom
  <2> QED
    BY <2>2
<1>3. CASE s.out = "stuck"
  <2>1. s.node \in L /\ Continues(key, sp[s.node], s.key) /\ s.key # <<>>
    BY <1>1, <1>3 DEF At
  <2>2. s.node # b /\ Begins(sp[s.node], sp[b])
    BY <1>2, <2>1
  <2>3. PICK i \in 1..Len(heap[s.node].nodes) : heap[heap[s.node].nodes[i]].label[1] = s.key[1]
    BY <1>k, <1>b, <2>1, <2>2, Below
  <2> QED
    BY <1>1, <1>3, <2>3 DEF At
<1>4. CASE s.out = "apart"
  <2>1. /\ s.key # <<>> /\ heap[s.node].label[1] = s.key[1] /\ ~ Begins(heap[s.node].label, s.key)
        /\ \E p \in L : /\ Continues(key, sp[p], s.key)
                        /\ \E i \in 1..Len(heap[p].nodes) : heap[p].nodes[i] = s.node
    BY <1>1, <1>4 DEF At
  <2>2. PICK p \in L : /\ Continues(key, sp[p], s.key)
                      /\ \E i \in 1..Len(heap[p].nodes) : heap[p].nodes[i] = s.node
    BY <2>1
  <2>3. PICK i \in 1..Len(heap[p].nodes) : heap[p].nodes[i] = s.node
    BY <2>2
  <2>4. p # b /\ Begins(sp[p], sp[b])
    BY <1>2, <2>1, <2>2
  <2>5. PICK j \in 1..Len(heap[p].nodes) : /\ Begins(heap[heap[p].nodes[j]].label, s.key)
                                          /\ heap[heap[p].nodes[j]].label[1] = s.key[1]
    BY <1>k, <1>b, <2>2, <2>4, Below
  <2>6. i = j
    BY <2>1, <2>3, <2>5 DEF Radix
  <2> QED
    BY <2>1, <2>3, <2>5, <2>6
<1> QED
  BY <1>1, <1>3, <1>4

LEMMA LookupIs ==
  ASSUME HeapTyped(heap), NEW L, NEW sp, Radix(heap, L, sp), NEW m, Held(heap, L, sp, m),
         NEW key \in Str, key # <<>>
  PROVE  Lookup(key) = IF key \in DOMAIN m THEN m[key] ELSE None
<1> DEFINE s == End(Start(key))
<1>1. At(s, L, sp, key) /\ s.out \in {"found", "stuck", "apart"}
  BY EndAt
<1>2. CASE s.out = "found"
  <2>1. s.node \in L /\ sp[s.node] = key
    BY <1>1, <1>2 DEF At
  <2>2. heap[s.node].value = IF key \in DOMAIN m THEN m[key] ELSE None
    BY <2>1 DEF Held
  <2> QED
    BY <1>2, <2>2 DEF Lookup
<1>3. CASE s.out # "found"
  <2>1. key \notin DOMAIN m
    BY <1>3, NotFound DEF Held
  <2> QED
    BY <1>1, <1>3, <2>1 DEF Lookup
<1> QED
  BY <1>2, <1>3
----------------------------------------------------------------------------
(* What the steps do to the heap *)

Node == [label : Str, value : Values \cup {None}, nodes : Seq(Nat)]

\* One node changed.
IsChanged(h2, h, n, y) ==
  /\ HeapTyped(h2) /\ Len(h2) = Len(h) /\ Nodes(h2) = Nodes(h) /\ h2[n] = y
  /\ \A b \in Nodes(h) \ {n} : h2[b] = h[b]

LEMMA Changed ==
  ASSUME NEW h, HeapTyped(h), NEW n \in Nodes(h), NEW y \in Node,
         \A i \in 1..Len(y.nodes) : y.nodes[i] \in Nodes(h) \ {Root}
  PROVE  IsChanged([h EXCEPT ![n] = y], h, n, y)
<1> DEFINE h2 == [h EXCEPT ![n] = y]
<1>1. h \in Seq(Node) /\ Len(h) \in Nat
  BY LenProperties DEF HeapTyped, Node
<1>2. /\ h2 \in Seq(Node) /\ Len(h2) = Len(h)
      /\ \A b \in 1..Len(h) : h2[b] = IF b = n THEN y ELSE h[b]
  BY <1>1, ExceptSeq DEF Nodes
<1> HIDE DEF h2
<1>3. HeapTyped(h2)
  <2>1. ASSUME NEW b \in Nodes(h2), NEW i \in 1..Len(h2[b].nodes) PROVE h2[b].nodes[i] \in Nodes(h2) \ {Root}
    <3>1. CASE b = n
      BY <1>2, <3>1 DEF Nodes
    <3>2. CASE b # n
      <4>1. b \in Nodes(h) /\ h2[b] = h[b] /\ Nodes(h2) = Nodes(h)
        BY <1>2, <3>2 DEF Nodes
      <4> QED
        BY <4>1 DEF HeapTyped
    <3> QED
      BY <3>1, <3>2
  <2>2. Root \in Nodes(h2)
    BY <1>2 DEF HeapTyped, Nodes
  <2> QED
    BY <1>2, <2>1, <2>2 DEF HeapTyped, Node
<1> QED
  BY <1>2, <1>3 DEF h2, Nodes, IsChanged

\* One node added.
LEMMA Added ==
  ASSUME NEW h, NEW y \in Node, h \in Seq(Node), Root \in Nodes(h),
         \A b \in Nodes(h) : \A i \in 1..Len(h[b].nodes) : h[b].nodes[i] \in (Nodes(h) \cup {Len(h) + 1}) \ {Root},
         \A i \in 1..Len(y.nodes) : y.nodes[i] \in (Nodes(h) \cup {Len(h) + 1}) \ {Root}
  PROVE  LET h2 == Append(h, y)
         IN  /\ HeapTyped(h2) /\ Len(h2) = Len(h) + 1 /\ Nodes(h2) = Nodes(h) \cup {Len(h) + 1}
             /\ Len(h) + 1 \notin Nodes(h) /\ h2[Len(h) + 1] = y /\ \A b \in Nodes(h) : h2[b] = h[b]
<1> DEFINE h2 == Append(h, y)
<1>1. Len(h) \in Nat
  BY LenProperties
<1>2. /\ h2 \in Seq(Node) /\ Len(h2) = Len(h) + 1
      /\ \A b \in 1..Len(h) : h2[b] = h[b]
      /\ h2[Len(h) + 1] = y
  BY <1>1, AppendProperties
<1> HIDE DEF h2
<1>3. Nodes(h2) = Nodes(h) \cup {Len(h) + 1} /\ Len(h) + 1 \notin Nodes(h) /\ \A b \in Nodes(h) : h2[b] = h[b]
  BY <1>1, <1>2 DEF Nodes
<1>4. HeapTyped(h2)
  <2>1. ASSUME NEW b \in Nodes(h2), NEW i \in 1..Len(h2[b].nodes) PROVE h2[b].nodes[i] \in Nodes(h2) \ {Root}
    BY <1>2, <1>3
  <2> QED
    BY <1>2, <1>3, <2>1 DEF HeapTyped, Node
<1> QED
  BY <1>2, <1>3, <1>4 DEF h2

\* One node changed and one added.
IsExtended(h2, h, n, y, z) ==
  /\ HeapTyped(h2) /\ Len(h2) = Len(h) + 1 /\ Nodes(h2) = Nodes(h) \cup {Len(h) + 1}
  /\ Len(h) + 1 \notin Nodes(h) /\ h2[Len(h) + 1] = z /\ h2[n] = y
  /\ \A b \in Nodes(h) \ {n} : h2[b] = h[b]

LEMMA Extended ==
  ASSUME NEW h, HeapTyped(h), NEW n \in Nodes(h), NEW y \in Node, NEW z \in Node,
         \A i \in 1..Len(y.nodes) : y.nodes[i] \in (Nodes(h) \cup {Len(h) + 1}) \ {Root},
         \A i \in 1..Len(z.nodes) : z.nodes[i] \in (Nodes(h) \cup {Len(h) + 1}) \ {Root}
  PROVE  IsExtended(Append([h EXCEPT ![n] = y], z), h, n, y, z)
<1> DEFINE g == [h EXCEPT ![n] = y]
<1>1. h \in Seq(Node) /\ Len(h) \in Nat
  BY LenProperties DEF HeapTyped, Node
<1>2. /\ g \in Seq(Node) /\ Len(g) = Len(h)
      /\ \A b \in 1..Len(h) : g[b] = IF b = n THEN y ELSE h[b]
  BY <1>1, ExceptSeq DEF Nodes
<1> HIDE DEF g
<1>3. Nodes(g) = Nodes(h) /\ Root \in Nodes(g) /\ g[n] = y /\ \A b \in Nodes(h) \ {n} : g[b] = h[b]
  BY <1>2 DEF HeapTyped, Nodes
<1>4. ASSUME NEW b \in Nodes(g), NEW i \in 1..Len(g[b].nodes)
      PROVE  g[b].nodes[i] \in (Nodes(g) \cup {Len(g) + 1}) \ {Root}
  BY <1>2, <1>3 DEF HeapTyped
<1>5. \A i \in 1..Len(z.nodes) : z.nodes[i] \in (Nodes(g) \cup {Len(g) + 1}) \ {Root}
  BY <1>2, <1>3
<1> DEFINE h2 == Append(g, z)
<1>6. /\ HeapTyped(h2) /\ Len(h2) = Len(g) + 1 /\ Nodes(h2) = Nodes(g) \cup {Len(g) + 1}
      /\ Len(g) + 1 \notin Nodes(g) /\ h2[Len(g) + 1] = z /\ \A b \in Nodes(g) : h2[b] = g[b]
  BY <1>2, <1>3, <1>4, <1>5, Added
<1> QED
  BY <1>2, <1>3, <1>6 DEF g, IsExtended

\* With the same labels and children a tree stands for the same.
LEMMA SameShape ==
  ASSUME NEW h, HeapTyped(h), NEW L, NEW sp, Radix(h, L, sp), NEW h2, Nodes(h2) = Nodes(h),
         \A b \in Nodes(h) : h2[b].label = h[b].label /\ h2[b].nodes = h[b].nodes
  PROVE  Radix(h2, L, sp)
<1>1. \A b \in L : h2[b].label = h[b].label /\ h2[b].nodes = h[b].nodes
  BY DEF Radix
<1>2. L \subseteq Nodes(h2) /\ Root \in L /\ sp \in [L -> Str] /\ sp[Root] = <<>>
  BY DEF Radix
<1>3. ASSUME NEW n \in L, NEW i \in 1..Len(h2[n].nodes)
      PROVE  /\ h2[n].nodes[i] \in L /\ h2[h2[n].nodes[i]].label # <<>>
             /\ Continues(sp[h2[n].nodes[i]], sp[n], h2[h2[n].nodes[i]].label)
  BY <1>1 DEF Radix
<1>4. ASSUME NEW n \in L, NEW i \in 1..Len(h2[n].nodes), NEW j \in 1..Len(h2[n].nodes),
             h2[h2[n].nodes[i]].label[1] = h2[h2[n].nodes[j]].label[1]
      PROVE  i = j
  <2>1. /\ i \in 1..Len(h[n].nodes) /\ j \in 1..Len(h[n].nodes) /\ h2[n].nodes = h[n].nodes
        /\ h[n].nodes[i] \in L /\ h[n].nodes[j] \in L
    BY <1>1 DEF Radix
  <2>2. h[h[n].nodes[i]].label[1] = h[h[n].nodes[j]].label[1]
    <3>1. h2[h[n].nodes[i]].label[1] = h2[h[n].nodes[j]].label[1]
      BY <1>4, <2>1
    <3> QED
      BY <1>1, <2>1, <3>1
  <2> QED
    BY <2>1, <2>2 DEF Radix
<1>5. \A a, b \in L : sp[a] = sp[b] => a = b
  BY DEF Radix
<1>6. ASSUME NEW a \in L, NEW b \in L, a # b, Begins(sp[a], sp[b])
      PROVE  \E i \in 1..Len(h2[a].nodes) : Begins(sp[h2[a].nodes[i]], sp[b])
  BY <1>1, <1>6 DEF Radix
<1> QED
  BY <1>2, <1>3, <1>4, <1>5, <1>6 DEF Radix

With(m, key, v) == [k \in DOMAIN m \cup {key} |-> IF k = key THEN v ELSE m[k]]
Without(m, key) == [k \in DOMAIN m \ {key} |-> m[k]]

\* The value of a node set or cleared.
IsValued(h2, h, n, v) ==
  /\ HeapTyped(h2) /\ Nodes(h2) = Nodes(h)
  /\ \A b \in Nodes(h) : /\ h2[b].label = h[b].label /\ h2[b].nodes = h[b].nodes
                         /\ h2[b].value = IF b = n THEN v ELSE h[b].value

LEMMA ValueSet ==
  ASSUME NEW h, HeapTyped(h), NEW n \in Nodes(h), NEW v \in Values \cup {None}
  PROVE  IsValued([h EXCEPT ![n].value = v], h, n, v)
<1> DEFINE y == [h[n] EXCEPT !.value = v]
           h2 == [h EXCEPT ![n].value = v]
<1>2. h[n] \in Node
  BY NodeTyped DEF Node
<1>3. y \in Node /\ y.label = h[n].label /\ y.nodes = h[n].nodes /\ y.value = v
  BY <1>2 DEF Node
<1>4. \A i \in 1..Len(y.nodes) : y.nodes[i] \in Nodes(h) \ {Root}
  BY <1>3 DEF HeapTyped
<1>5. h2 = [h EXCEPT ![n] = y]
  OBVIOUS
<1> HIDE DEF y, h2
<1>6. IsChanged([h EXCEPT ![n] = y], h, n, y)
  BY <1>3, <1>4, Changed
<1>7. IsChanged(h2, h, n, y)
  BY <1>5, <1>6
<1> QED
  BY <1>3, <1>7 DEF IsChanged, IsValued, h2

LEMMA Valued ==
  ASSUME NEW h, HeapTyped(h), NEW L, NEW sp, Radix(h, L, sp), NEW m, Held(h, L, sp, m),
         NEW n \in L, NEW v \in Values \cup {None}
  PROVE  LET h2 == [h EXCEPT ![n].value = v]
         IN  /\ HeapTyped(h2) /\ Radix(h2, L, sp)
             /\ v # None => Held(h2, L, sp, With(m, sp[n], v))
             /\ v = None => Held(h2, L, sp, Without(m, sp[n]))
<1> DEFINE h2 == [h EXCEPT ![n].value = v]
<1>1. n \in Nodes(h)
  BY DEF Radix
<1>2. IsValued(h2, h, n, v)
  BY <1>1, ValueSet
<1> HIDE DEF h2
<1>3. Radix(h2, L, sp)
  BY <1>2, SameShape DEF IsValued
<1>4. /\ \A b \in L : h2[b].value = IF b = n THEN v ELSE h[b].value
      /\ \A b \in L : sp[b] = sp[n] => b = n
  BY <1>2 DEF Radix, IsValued
<1>5. ASSUME v # None PROVE Held(h2, L, sp, With(m, sp[n], v))
  BY <1>4 DEF Held, With
<1>6. ASSUME v = None PROVE Held(h2, L, sp, Without(m, sp[n]))
  BY <1>4, <1>6 DEF Held, Without
<1> QED
  BY <1>2, <1>3, <1>5, <1>6 DEF h2, IsValued

\* A leaf added.
IsGrown(h2, h, n, r, v) ==
  /\ HeapTyped(h2) /\ Nodes(h2) = Nodes(h) \cup {Len(h) + 1} /\ Len(h) + 1 \notin Nodes(h)
  /\ \A b \in Nodes(h) \ {n} : h2[b] = h[b]
  /\ h2[n].label = h[n].label /\ h2[n].value = h[n].value /\ Len(h2[n].nodes) = Len(h[n].nodes) + 1
  /\ \A i \in 1..Len(h[n].nodes) : h2[n].nodes[i] = h[n].nodes[i]
  /\ h2[n].nodes[Len(h[n].nodes) + 1] = Len(h) + 1
  /\ h2[Len(h) + 1].label = r /\ h2[Len(h) + 1].value = v /\ Len(h2[Len(h) + 1].nodes) = 0

LEMMA LeafAdded ==
  ASSUME NEW h, HeapTyped(h), NEW n \in Nodes(h), NEW r \in Str, NEW v \in Values
  PROVE  IsGrown(Append([h EXCEPT ![n].nodes = Append(@, Len(h) + 1)], Leaf(r, v)), h, n, r, v)
<1> DEFINE x == Len(h) + 1
           y == [h[n] EXCEPT !.nodes = Append(@, x)]
           z == Leaf(r, v)
           h2 == Append([h EXCEPT ![n].nodes = Append(@, Len(h) + 1)], Leaf(r, v))
<1>1. Len(h) \in Nat
  BY NodeTyped
<1>2. h[n] \in Node /\ h[n].nodes \in Seq(Nat) /\ Len(h[n].nodes) \in Nat
  BY NodeTyped DEF Node
<1>3. /\ Append(h[n].nodes, x) \in Seq(Nat) /\ Len(Append(h[n].nodes, x)) = Len(h[n].nodes) + 1
      /\ \A i \in 1..Len(h[n].nodes) : Append(h[n].nodes, x)[i] = h[n].nodes[i]
      /\ Append(h[n].nodes, x)[Len(h[n].nodes) + 1] = x
  BY <1>1, <1>2, AppendProperties
<1>4. y \in Node /\ y.label = h[n].label /\ y.value = h[n].value /\ y.nodes = Append(h[n].nodes, x)
  BY <1>2, <1>3 DEF Node
<1>5. z \in Node /\ z.label = r /\ z.value = v /\ Len(z.nodes) = 0
  <2>1. <<>> \in Seq(Nat) /\ Len(<<>>) = 0
    BY EmptySeq
  <2> QED
    BY <2>1 DEF Leaf, Node
<1>6. h2 = Append([h EXCEPT ![n] = y], z)
  OBVIOUS
<1> HIDE DEF y, z, h2
<1>7. \A i \in 1..Len(y.nodes) : y.nodes[i] \in (Nodes(h) \cup {x}) \ {Root}
  <2>1. x # Root
    BY <1>1 DEF HeapTyped, Nodes
  <2>2. \A i \in 1..Len(h[n].nodes) : h[n].nodes[i] \in Nodes(h) \ {Root}
    BY DEF HeapTyped
  <2>3. \A i \in 1..Len(y.nodes) : i \in 1..Len(h[n].nodes) \/ i = Len(h[n].nodes) + 1
    BY <1>2, <1>3, <1>4
  <2> HIDE DEF x
  <2> QED
    BY <1>3, <1>4, <2>1, <2>2, <2>3
<1>8. IsExtended(h2, h, n, y, z)
  <2>1. \A i \in 1..Len(z.nodes) : z.nodes[i] \in (Nodes(h) \cup {x}) \ {Root}
    BY <1>5
  <2>2. IsExtended(Append([h EXCEPT ![n] = y], z), h, n, y, z)
    BY <1>4, <1>5, <1>7, <2>1, Extended
  <2> QED
    BY <1>6, <2>2
<1>9. h2[n] = y /\ h2[x] = z
  BY <1>8 DEF IsExtended
<1>10. /\ HeapTyped(h2) /\ Nodes(h2) = Nodes(h) \cup {x} /\ x \notin Nodes(h)
       /\ \A b \in Nodes(h) \ {n} : h2[b] = h[b]
  BY <1>8 DEF IsExtended
<1>11. IsGrown(h2, h, n, r, v)
  BY <1>3, <1>4, <1>5, <1>9, <1>10 DEF IsGrown
<1> QED
  BY <1>11 DEF h2

\* A leaf added where a way had no child to go on to.
LEMMA Grown ==
  ASSUME NEW h, HeapTyped(h), NEW L, NEW sp, Radix(h, L, sp), NEW m, Held(h, L, sp, m),
         NEW n \in L, NEW key \in Str, NEW r \in Str, r # <<>>, Continues(key, sp[n], r), NEW v \in Values,
         \A i \in 1..Len(h[n].nodes) : h[h[n].nodes[i]].label[1] # r[1],
         \A b \in L : sp[b] # key
  PROVE  Standing(Append([h EXCEPT ![n].nodes = Append(@, Len(h) + 1)], Leaf(r, v)), With(m, key, v))
<1> DEFINE x == Len(h) + 1
           h2 == Append([h EXCEPT ![n].nodes = Append(@, Len(h) + 1)], Leaf(r, v))
           L2 == L \cup {x}
           sp2 == [b \in L2 |-> IF b = x THEN key ELSE sp[b]]
<1>1. n \in Nodes(h) /\ Len(h) \in Nat /\ L \subseteq Nodes(h)
  BY NodeTyped DEF Radix
<1>2. Len(h[n].nodes) \in Nat
  BY <1>1, NodeTyped
<1>3. IsGrown(h2, h, n, r, v)
  BY <1>1, LeafAdded
<1> HIDE DEF h2
<1>8. /\ HeapTyped(h2) /\ Nodes(h2) = Nodes(h) \cup {x} /\ x \notin Nodes(h)
      /\ \A b \in Nodes(h) \ {n} : h2[b] = h[b]
      /\ h2[n].label = h[n].label /\ h2[n].value = h[n].value
      /\ \A i \in 1..Len(h[n].nodes) : h2[n].nodes[i] = h[n].nodes[i]
      /\ h2[n].nodes[Len(h[n].nodes) + 1] = x
  BY <1>3 DEF IsGrown
<1>11. /\ \A a \in L \ {n} : h2[a].nodes = h[a].nodes
       /\ Len(h2[n].nodes) = Len(h[n].nodes) + 1
       /\ Len(h2[x].nodes) = 0 /\ h2[x].label = r /\ h2[x].value = v
  BY <1>1, <1>3 DEF IsGrown
<1> HIDE DEF x
<1>9. x \notin L /\ \A b \in L : b # x /\ h2[b].label = h[b].label /\ h2[b].value = h[b].value
  BY <1>1, <1>8
<1>10. sp2 \in [L2 -> Str] /\ sp2[x] = key /\ \A b \in L : sp2[b] = sp[b] /\ sp[b] \in Str
  BY <1>9 DEF Radix
<1>12. ASSUME NEW a \in L, NEW i \in 1..Len(h2[a].nodes)
       PROVE  \/ i \in 1..Len(h[a].nodes) /\ h2[a].nodes[i] = h[a].nodes[i]
              \/ a = n /\ i = Len(h[n].nodes) + 1 /\ h2[a].nodes[i] = x
  <2>1. CASE a = n
    <3>1. i \in 1..Len(h[n].nodes) \/ i = Len(h[n].nodes) + 1
      BY <1>2, <1>11, <2>1
    <3> QED
      BY <1>8, <1>11, <2>1, <3>1
  <2>2. CASE a # n
    BY <1>11, <2>2
  <2> QED
    BY <2>1, <2>2
<1>13. ASSUME NEW a \in L, NEW i \in 1..Len(h[a].nodes)
       PROVE  i \in 1..Len(h2[a].nodes) /\ h2[a].nodes[i] = h[a].nodes[i]
  <2>1. CASE a = n
    <3>1. i \in 1..Len(h[n].nodes) + 1
      BY <1>2, <2>1
    <3> QED
      BY <1>8, <1>11, <2>1, <3>1
  <2>2. CASE a # n
    BY <1>11, <2>2
  <2> QED
    BY <2>1, <2>2
<1>14. Len(h[n].nodes) + 1 \in 1..Len(h2[n].nodes) /\ h2[n].nodes[Len(h[n].nodes) + 1] = x
  BY <1>2, <1>8, <1>11
<1> HIDE DEF L2, sp2
<1>15. ASSUME NEW a \in L2, NEW i \in 1..Len(h2[a].nodes)
       PROVE  /\ h2[a].nodes[i] \in L2 /\ h2[h2[a].nodes[i]].label # <<>>
              /\ Continues(sp2[h2[a].nodes[i]], sp2[a], h2[h2[a].nodes[i]].label)
  <2>1. a \in L
    BY <1>11 DEF L2
  <2>2. CASE i \in 1..Len(h[a].nodes) /\ h2[a].nodes[i] = h[a].nodes[i]
    <3>1. /\ h[a].nodes[i] \in L /\ h[h[a].nodes[i]].label # <<>>
          /\ Continues(sp[h[a].nodes[i]], sp[a], h[h[a].nodes[i]].label)
      BY <2>1, <2>2 DEF Radix
    <3> QED
      BY <1>9, <1>10, <2>1, <2>2, <3>1 DEF L2
  <2>3. CASE a = n /\ i = Len(h[n].nodes) + 1 /\ h2[a].nodes[i] = x
    BY <1>10, <1>11, <2>1, <2>3 DEF L2
  <2> QED
    BY <1>12, <2>1, <2>2, <2>3
<1>16. ASSUME NEW a \in L2, NEW i \in 1..Len(h2[a].nodes), NEW j \in 1..Len(h2[a].nodes),
              h2[h2[a].nodes[i]].label[1] = h2[h2[a].nodes[j]].label[1]
       PROVE  i = j
  <2>1. a \in L
    BY <1>11 DEF L2
  <2>2. \A k \in 1..Len(h[a].nodes) : h[a].nodes[k] \in L
    BY <2>1 DEF Radix
  <2>3. CASE i \in 1..Len(h[a].nodes) /\ j \in 1..Len(h[a].nodes)
    <3>1. h[h[a].nodes[i]].label[1] = h[h[a].nodes[j]].label[1]
      BY <1>9, <1>13, <1>16, <2>1, <2>2, <2>3
    <3> QED
      BY <2>1, <2>3, <3>1 DEF Radix
  <2>4. CASE ~ (i \in 1..Len(h[a].nodes)) /\ ~ (j \in 1..Len(h[a].nodes))
    BY <1>12, <2>1, <2>4
  <2>5. ASSUME NEW k \in 1..Len(h[n].nodes), a = n PROVE h2[h2[n].nodes[k]].label[1] # r[1]
    <3>1. h2[n].nodes[k] = h[n].nodes[k] /\ h[n].nodes[k] \in L
      BY <1>13, <2>1, <2>2, <2>5
    <3>2. h2[h[n].nodes[k]].label = h[h[n].nodes[k]].label
      BY <1>9, <3>1
    <3> QED
      BY <2>5, <3>1, <3>2
  <2>6. CASE i \in 1..Len(h[a].nodes) /\ ~ (j \in 1..Len(h[a].nodes))
    <3>1. a = n /\ h2[a].nodes[j] = x
      BY <1>12, <2>1, <2>6
    <3> QED
      BY <1>11, <1>16, <2>5, <2>6, <3>1
  <2>7. CASE ~ (i \in 1..Len(h[a].nodes)) /\ j \in 1..Len(h[a].nodes)
    <3>1. a = n /\ h2[a].nodes[i] = x
      BY <1>12, <2>1, <2>7
    <3> QED
      BY <1>11, <1>16, <2>5, <2>7, <3>1
  <2> QED
    BY <2>3, <2>4, <2>6, <2>7
<1>17. \A a, b \in L2 : sp2[a] = sp2[b] => a = b
  BY <1>10 DEF L2, Radix
<1>18. /\ sp[n] \in Str /\ Begins(sp[n], key) /\ Len(sp[n]) \in Nat /\ Len(key) \in Nat
       /\ Len(sp[n]) <= Len(key) /\ Len(sp[n]) # Len(key) /\ key[Len(sp[n]) + 1] = r[1]
  <2>1. sp[n] \in Str
    BY DEF Radix
  <2>2. Len(r) \in Nat /\ Len(r) # 0 /\ 1 \in 1..Len(r)
    BY StrTyped, EmptyStr
  <2> QED
    BY <2>1, <2>2, ContinuesFrom DEF Continues
<1>19. ASSUME NEW b \in L, NEW t \in Str, n # b, Begins(sp[n], sp[b]), Begins(sp[b], t), t[Len(sp[n]) + 1] = r[1],
              Len(sp[n]) < Len(t)
       PROVE  FALSE
  <2> DEFINE q == Rest(t, Len(sp[n]))
  <2>1. sp[b] \in Str /\ Begins(sp[n], t)
    <3>1. sp[b] \in Str
      BY DEF Radix
    <3> QED
      BY <1>18, <1>19, <3>1, BeginsTrans
  <2>2. Len(t) \in Nat /\ Len(sp[n]) \in 0..Len(t) /\ 1 \in 1..Len(t) - Len(sp[n])
    BY <1>18, <1>19, StrTyped
  <2>3. q \in Str /\ Continues(t, sp[n], q) /\ q[1] = r[1]
    <3>1. /\ q \in Str /\ Len(q) = Len(t) - Len(sp[n])
          /\ \A i \in 1..Len(t) - Len(sp[n]) : q[i] = t[Len(sp[n]) + i]
      BY <2>2, RestIs
    <3> HIDE DEF q
    <3>2. Len(t) = Len(sp[n]) + Len(q)
      BY <1>18, <2>2, <3>1
    <3> QED
      BY <1>19, <2>1, <2>2, <3>1, <3>2 DEF Continues, Begins
  <2> HIDE DEF q
  <2>4. PICK i \in 1..Len(h[n].nodes) : h[h[n].nodes[i]].label[1] = q[1]
    BY <1>19, <2>1, <2>3, Below
  <2> QED
    BY <2>3, <2>4
<1>20. ASSUME NEW a \in L2, NEW b \in L2, a # b, Begins(sp2[a], sp2[b])
       PROVE  \E i \in 1..Len(h2[a].nodes) : Begins(sp2[h2[a].nodes[i]], sp2[b])
  <2>k. \A i \in 1..Len(h[a].nodes) : a \in L => h[a].nodes[i] \in L
    BY DEF Radix
  <2>1. CASE a \in L /\ b \in L
    <3>1. PICK i \in 1..Len(h[a].nodes) : Begins(sp[h[a].nodes[i]], sp[b])
      BY <1>10, <1>20, <2>1 DEF Radix
    <3> QED
      BY <1>10, <1>13, <2>k, <2>1, <3>1
  <2>2. CASE a \in L /\ b = x
    <3>1. Begins(sp[a], key) /\ sp[a] \in Str /\ Len(sp[a]) \in Nat
      BY <1>10, <1>20, <2>2, StrTyped
    <3>2. CASE a = n
      <4>1. Begins(key, key)
        BY <1>18 DEF Begins
      <4> QED
        BY <1>10, <1>14, <2>2, <3>2, <4>1
    <3>3. CASE a # n /\ Len(sp[a]) <= Len(sp[n])
      <4>1. Begins(sp[a], sp[n])
        BY <1>18, <3>1, <3>3, BeginsOne
      <4>2. PICK i \in 1..Len(h[a].nodes) : Begins(sp[h[a].nodes[i]], sp[n])
        BY <2>2, <3>3, <4>1 DEF Radix
      <4>3. h[a].nodes[i] \in L /\ sp[h[a].nodes[i]] \in Str
        BY <1>10, <2>2, <2>k
      <4>4. Begins(sp[h[a].nodes[i]], key)
        BY <1>18, <4>2, <4>3, BeginsTrans
      <4> QED
        BY <1>10, <1>13, <2>2, <4>3, <4>4
    <3>4. CASE a # n /\ ~ (Len(sp[a]) <= Len(sp[n]))
      <4>1. Begins(sp[n], sp[a])
        BY <1>18, <3>1, <3>4, BeginsOne
      <4>2. Len(sp[n]) < Len(key)
        BY <1>18
      <4> QED
        BY <1>18, <1>19, <2>2, <3>1, <3>4, <4>1, <4>2
    <3> QED
      BY <3>2, <3>3, <3>4
  <2>3. CASE a = x /\ b \in L
    <3>1. Begins(key, sp[b]) /\ sp[b] \in Str /\ Len(sp[b]) \in Nat
      BY <1>10, <1>20, <2>3, StrTyped
    <3>2. Begins(sp[n], sp[b]) /\ Begins(sp[b], sp[b])
      BY <1>18, <3>1, BeginsTrans DEF Begins
    <3>3. Len(key) <= Len(sp[b]) /\ Len(sp[n]) < Len(sp[b]) /\ n # b
      BY <1>18, <3>1 DEF Begins
    <3>4. Len(sp[n]) + 1 \in 1..Len(key)
      BY <1>18
    <3>5. sp[b][Len(sp[n]) + 1] = r[1]
      BY <1>18, <3>1, <3>4 DEF Begins
    <3> QED
      BY <1>19, <2>3, <3>1, <3>2, <3>3, <3>5
  <2> QED
    BY <1>20, <2>1, <2>2, <2>3 DEF L2
<1>21. Radix(h2, L2, sp2)
  <2>1. L2 \subseteq Nodes(h2) /\ Root \in L2 /\ sp2[Root] = <<>>
    BY <1>1, <1>8, <1>10 DEF L2, Radix
  <2> QED
    BY <1>10, <1>15, <1>16, <1>17, <1>20, <2>1 DEF Radix
<1>22. Held(h2, L2, sp2, With(m, key, v))
  <2>1. ASSUME NEW b \in L2
        PROVE  h2[b].value = IF sp2[b] \in DOMAIN m \cup {key} THEN With(m, key, v)[sp2[b]] ELSE None
    <3>1. CASE b \in L
      BY <1>9, <1>10, <3>1 DEF Held, With
    <3>2. CASE b = x
      BY <1>10, <1>11, <3>2 DEF With
    <3> QED
      BY <3>1, <3>2 DEF L2
  <2>2. ASSUME NEW k \in DOMAIN m \cup {key} PROVE \E b \in L2 : sp2[b] = k
    BY <1>10 DEF L2, Held
  <2>3. DOMAIN With(m, key, v) = DOMAIN m \cup {key}
    BY DEF With
  <2> QED
    BY <2>1, <2>2, <2>3 DEF Held
<1> QED
  BY <1>21, <1>22 DEF h2, Standing
LEMMA BeginsSelf ==
  ASSUME NEW s \in Str
  PROVE  Begins(s, s)
BY StrTyped DEF Begins

\* What follows a beginning, and its first character.
LEMMA Followed ==
  ASSUME NEW s \in Str, NEW t \in Str, Begins(s, t), Len(s) < Len(t)
  PROVE  /\ Rest(t, Len(s)) \in Str /\ Continues(t, s, Rest(t, Len(s)))
         /\ Rest(t, Len(s)) # <<>> /\ Rest(t, Len(s))[1] = t[Len(s) + 1]
<1> DEFINE q == Rest(t, Len(s))
           x == Len(s)
           y == Len(t)
<1>1. x \in Nat /\ y \in Nat /\ x < y
  BY StrTyped
<1>2. x \in 0..y
  BY <1>1
<1>3. q \in Str /\ Len(q) = y - x /\ \A i \in 1..y - x : q[i] = t[x + i]
  BY <1>2, RestIs
<1>4. \A i \in 1..x : t[i] = s[i]
  BY DEF Begins
<1> HIDE DEF x, y, q
<1>5. 1 \in 1..y - x /\ y = x + (y - x) /\ y - x # 0
  BY <1>1
<1>6. q # <<>>
  BY <1>3, <1>5, EmptyStr
<1> QED
  BY <1>3, <1>4, <1>5, <1>6 DEF Continues, q, x, y

IsSplit(h2, h, L, sp, p, n, d, m) ==
  /\ HeapTyped(h2) /\ Len(h2) = Len(h) + 1 /\ h2[n].nodes = <<Len(h) + 1>>
  /\ h2[Len(h) + 1].label = Rest(h[n].label, d)
  /\ \E L2, sp2 : /\ Radix(h2, L2, sp2) /\ Held(h2, L2, sp2, m) /\ n \in L2
                  /\ Continues(sp2[n], sp[p], SubSeq(h[n].label, 1, d))
                  /\ \A b \in L2 : b = n \/ \E b0 \in L : sp2[b] = sp[b0]

\* A node is split: what it stood for is its child's now.
LEMMA Split ==
  ASSUME NEW h, HeapTyped(h), NEW L, NEW sp, Radix(h, L, sp), NEW m, Held(h, L, sp, m),
         NEW p \in L, NEW i0 \in 1..Len(h[p].nodes), NEW n, n = h[p].nodes[i0],
         NEW d \in Nat, 1 <= d, d < Len(h[n].label)
  PROVE  IsSplit(Append([h EXCEPT ![n] = Upper(h[n], d, Len(h) + 1)], Lower(h[n], d)), h, L, sp, p, n, d, m)
<1> DEFINE x == Len(h) + 1
           l == h[n].label
           u == SubSeq(l, 1, d)
           r == Rest(l, d)
           y == Upper(h[n], d, x)
           z == Lower(h[n], d)
           h2 == Append([h EXCEPT ![n] = Upper(h[n], d, Len(h) + 1)], Lower(h[n], d))
           N == Len(sp[n])
           P == Len(sp[p])
           K == Len(l)
           e == P + d
           w == SubSeq(sp[n], 1, e)
           L2 == L \cup {x}
           sp2 == [b \in L2 |-> IF b = x THEN sp[n] ELSE IF b = n THEN w ELSE sp[b]]
<1>1. n \in L /\ n \in Nodes(h) /\ n # Root /\ l # <<>> /\ Continues(sp[n], sp[p], l)
  <2>1. p \in Nodes(h)
    BY DEF Radix
  <2>2. n \in Nodes(h) \ {Root}
    BY <2>1 DEF HeapTyped
  <2> QED
    BY <2>2 DEF Radix
<1>2. /\ l \in Str /\ h[n] \in Node /\ h[n].nodes \in Seq(Nat) /\ Len(h) \in Nat
      /\ sp[n] \in Str /\ sp[p] \in Str /\ Len(l) \in Nat /\ Len(sp[n]) \in Nat /\ Len(sp[p]) \in Nat
  <2>1. l \in Str /\ h[n] \in Node /\ h[n].nodes \in Seq(Nat) /\ Len(h) \in Nat
    BY <1>1, NodeTyped DEF Node
  <2>2. sp[n] \in Str /\ sp[p] \in Str
    BY <1>1 DEF Radix
  <2> QED
    BY <2>1, <2>2, StrTyped
<1>l. Len(sp[n]) = N /\ Len(sp[p]) = P /\ Len(l) = K /\ N \in Nat /\ P \in Nat /\ K \in Nat /\ d < K
  BY <1>2
<1>3. /\ u \in Str /\ Len(u) = d /\ \A i \in 1..d : u[i] = l[i]
      /\ r \in Str /\ Len(r) = Len(l) - d /\ \A i \in 1..Len(l) - d : r[i] = l[d + i]
  <2>1. d \in 0..Len(l)
    BY <1>2
  <2> QED
    BY <1>2, <2>1, HeadIs, RestIs
<1>e. N = P + K
  BY <1>1 DEF Continues
<1> HIDE DEF N, P, K
<1>f. e \in Nat /\ e < N /\ P < e /\ e \in 0..N /\ N = e + (K - d) /\ P <= e /\ e <= N
  BY <1>l, <1>e
<1>4. /\ Len(sp[n]) = Len(sp[p]) + Len(l) /\ e \in Nat /\ e < Len(sp[n]) /\ Len(sp[p]) < e /\ e \in 0..Len(sp[n])
      /\ u[1] = l[1] /\ u # <<>> /\ r # <<>>
  <2>1. 1 \in 1..d /\ d # 0 /\ K - d # 0
    BY <1>l
  <2>2. Len(u) # 0 /\ Len(r) # 0
    BY <1>l, <1>3, <2>1
  <2>3. u[1] = l[1]
    BY <1>3, <2>1
  <2>4. u # <<>> /\ r # <<>>
    BY <1>3, <2>2, EmptyStr
  <2> HIDE DEF e, u, r
  <2> QED
    BY <1>l, <1>e, <1>f, <2>3, <2>4
<1>5. w \in Str /\ Len(w) = e /\ \A i \in 1..e : w[i] = sp[n][i]
  BY <1>2, <1>4, HeadIs
<1>6. /\ y \in Node /\ y.label = u /\ y.value = None /\ y.nodes = <<x>> /\ Len(y.nodes) = 1 /\ y.nodes[1] = x
      /\ z \in Node /\ z.label = r /\ z.value = h[n].value /\ z.nodes = h[n].nodes
  <2>1. <<x>> \in Seq(Nat) /\ Len(<<x>>) = 1 /\ <<x>>[1] = x
    BY <1>2
  <2>2. y = [label |-> u, value |-> None, nodes |-> <<x>>] /\ z = [h[n] EXCEPT !.label = r]
    BY DEF Upper, Lower
  <2> HIDE DEF y, z, x, u, r, l
  <2> QED
    BY <1>2, <1>3, <2>1, <2>2 DEF Node
<1>7. h2 = Append([h EXCEPT ![n] = y], z)
  OBVIOUS
<1> HIDE DEF y, z, h2, u, r, w, e
<1>8. /\ HeapTyped(h2) /\ Len(h2) = x /\ Nodes(h2) = Nodes(h) \cup {x} /\ x \notin Nodes(h) /\ h2[x] = z /\ h2[n] = y
      /\ \A b \in Nodes(h) \ {n} : h2[b] = h[b]
  <2>1. x # Root
    BY <1>2 DEF HeapTyped, Nodes
  <2>2. \A i \in 1..Len(y.nodes) : y.nodes[i] \in (Nodes(h) \cup {x}) \ {Root}
    BY <1>6, <2>1
  <2>3. \A i \in 1..Len(z.nodes) : z.nodes[i] \in (Nodes(h) \cup {x}) \ {Root}
    BY <1>1, <1>6 DEF HeapTyped
  <2>4. IsExtended(Append([h EXCEPT ![n] = y], z), h, n, y, z)
    BY <1>1, <1>6, <2>2, <2>3, Extended
  <2>5. IsExtended(h2, h, n, y, z)
    BY <1>7, <2>4
  <2> QED
    BY <2>5 DEF IsExtended
<1>x. x = Len(h) + 1
  OBVIOUS
<1> HIDE DEF x
<1>9. L \subseteq Nodes(h) /\ x \notin L /\ n # x
  BY <1>1, <1>8 DEF Radix
<1>10. /\ sp2 \in [L2 -> Str] /\ sp2[x] = sp[n] /\ sp2[n] = w /\ n \in L2 /\ x \in L2
       /\ \A b \in L \ {n} : sp2[b] = sp[b]
       /\ \A b \in L : sp[b] \in Str
  BY <1>1, <1>2, <1>5, <1>9 DEF Radix
<1>11. /\ \A b \in L \ {n} : h2[b] = h[b]
       /\ h2[n].label = u /\ h2[n].value = None /\ h2[n].nodes = <<x>> /\ Len(h2[n].nodes) = 1 /\ h2[n].nodes[1] = x
       /\ h2[x].label = r /\ h2[x].value = h[n].value /\ h2[x].nodes = h[n].nodes
  BY <1>6, <1>8, <1>9
<1> HIDE DEF L2, sp2
<1>12. \A b \in L2 : b \in L \/ b = x
  BY DEF L2
\* w is between its parent and its child.
<1>13. /\ Begins(w, sp[n]) /\ Begins(sp[p], w) /\ Continues(w, sp[p], u) /\ Continues(sp[n], w, r)
       /\ w[Len(sp[p]) + 1] = l[1]
  <2>1. Begins(w, sp[n])
    BY <1>l, <1>f, <1>5 DEF Begins
  <2>2. \A i \in 1..Len(sp[p]) : sp[n][i] = sp[p][i]
    BY <1>1 DEF Continues
  <2>3. \A i \in 1..Len(l) : sp[n][Len(sp[p]) + i] = l[i]
    BY <1>1 DEF Continues
  <2>4. \A i \in 1..Len(sp[p]) : w[i] = sp[p][i]
    <3>1. \A i \in 1..Len(sp[p]) : i \in 1..e
      BY <1>l, <1>f
    <3> QED
      BY <1>5, <2>2, <3>1
  <2>5. \A i \in 1..d : w[Len(sp[p]) + i] = u[i]
    <3>1. \A i \in 1..d : Len(sp[p]) + i \in 1..e /\ i \in 1..Len(l)
      BY <1>l DEF e
    <3> QED
      BY <1>3, <1>5, <2>3, <3>1
  <2>6. Continues(w, sp[p], u) /\ Begins(sp[p], w)
    <3>1. e = Len(sp[p]) + d /\ Len(sp[p]) <= e
      BY <1>l, <1>f DEF e
    <3> QED
      BY <1>3, <1>5, <2>4, <2>5, <3>1 DEF Continues, Begins
  <2>7. Continues(sp[n], w, r)
    <3>1. Len(sp[n]) = e + (Len(l) - d)
      BY <1>l, <1>f
    <3>2. ASSUME NEW i \in 1..Len(l) - d PROVE sp[n][e + i] = r[i]
      <4>1. d + i \in 1..Len(l) /\ e + i = Len(sp[p]) + (d + i)
        BY <1>l DEF e
      <4> QED
        BY <1>3, <2>3, <4>1
    <3> QED
      BY <1>3, <1>5, <3>1, <3>2 DEF Continues
  <2>8. w[Len(sp[p]) + 1] = l[1]
    <3>1. 1 \in 1..d
      OBVIOUS
    <3> QED
      BY <1>4, <2>5, <3>1
  <2> QED
    BY <2>1, <2>6, <2>7, <2>8
\* What w begins, but for w, the node began; and what begins w begins its parent.
<1>14. ASSUME NEW b \in L, Begins(w, sp[b]) PROVE Begins(sp[n], sp[b])
  <2>1. sp[b] \in Str /\ Begins(sp[p], sp[b]) /\ Len(sp[b]) \in Nat
    BY <1>2, <1>5, <1>10, <1>13, <1>14, BeginsTrans, StrTyped
  <2>2. Len(sp[p]) < Len(sp[b])
    <3>1. e <= Len(sp[b])
      BY <1>5, <1>14 DEF Begins
    <3> QED
      BY <1>l, <1>f, <2>1, <3>1
  <2>3. p # b
    BY <1>2, <2>2
  <2> DEFINE q == Rest(sp[b], Len(sp[p]))
  <2>4. q \in Str /\ Continues(sp[b], sp[p], q) /\ q[1] = sp[b][Len(sp[p]) + 1]
    BY <1>2, <2>1, <2>2, Followed
  <2>5. sp[b][Len(sp[p]) + 1] = l[1]
    <3>1. Len(sp[p]) + 1 \in 1..e
      BY <1>l, <1>f
    <3> QED
      BY <1>5, <1>13, <1>14, <3>1 DEF Begins
  <2> HIDE DEF q
  <2>6. PICK i \in 1..Len(h[p].nodes) : /\ Begins(sp[h[p].nodes[i]], sp[b])
                                       /\ h[h[p].nodes[i]].label[1] = q[1]
    BY <2>1, <2>3, <2>4, BeginsSelf, Below
  <2>7. i = i0
    BY <2>4, <2>5, <2>6 DEF Radix
  <2> QED
    BY <2>6, <2>7
<1>15. ASSUME NEW a \in L, Begins(sp[a], w) PROVE Begins(sp[a], sp[p])
  <2>1. Begins(sp[a], sp[n])
    BY <1>2, <1>5, <1>10, <1>13, <1>15, BeginsTrans
  <2>2. a # n
    <3>1. Len(sp[a]) <= e
      BY <1>5, <1>15 DEF Begins
    <3>2. ~ (N <= e)
      BY <1>l, <1>f
    <3> QED
      BY <1>l, <3>1, <3>2
  <2> QED
    BY <2>1, <2>2, Between
<1>16. \A b \in L : sp[b] # w
  <2> SUFFICES ASSUME NEW b \in L, sp[b] = w PROVE FALSE
    OBVIOUS
  <2>1. Begins(sp[b], sp[p])
    BY <1>5, <1>15, BeginsSelf
  <2> QED
    <3>1. e <= P
      BY <1>l, <1>5, <2>1 DEF Begins
    <3> QED
      BY <1>l, <1>f, <3>1
\* What changes of the labels, the children and the strings.
<1>17. ASSUME NEW b \in L, h[b].label # <<>> PROVE h2[b].label # <<>> /\ h2[b].label[1] = h[b].label[1]
  BY <1>4, <1>11, <1>17
<1>18. \A b \in L : sp2[b] \in Str /\ Begins(sp2[b], sp[b])
  BY <1>5, <1>10, <1>13, BeginsSelf
<1>19. ASSUME NEW a \in L, NEW i \in 1..Len(h[a].nodes)
       PROVE  /\ h[a].nodes[i] \in L /\ h[h[a].nodes[i]].label # <<>>
              /\ Continues(sp[h[a].nodes[i]], sp[a], h[h[a].nodes[i]].label)
              /\ Begins(sp[a], sp[h[a].nodes[i]]) /\ Len(sp[a]) < Len(sp[h[a].nodes[i]])
              /\ h[a].nodes[i] = n => a = p
  <2> DEFINE c == h[a].nodes[i]
  <2>1. c \in L /\ h[c].label # <<>> /\ Continues(sp[c], sp[a], h[c].label)
    BY DEF Radix
  <2> HIDE DEF c
  <2>2. sp[c] \in Str /\ sp[a] \in Str /\ h[c].label \in Str
    BY <1>9, <1>10, <2>1, NodeTyped
  <2>3. Begins(sp[a], sp[c]) /\ Len(sp[a]) <= Len(sp[c]) /\ Len(sp[a]) # Len(sp[c]) /\ Len(sp[a]) \in Nat /\ Len(sp[c]) \in Nat
    BY <2>1, <2>2, ContinuesFrom
  <2>4. ASSUME c = n PROVE a = p
    <3>1. Len(sp[a]) = Len(sp[p])
      <4>1. Len(sp[n]) = Len(sp[a]) + Len(l)
        BY <2>1, <2>4 DEF Continues
      <4> DEFINE A == Len(sp[a])
      <4>2. N = A + K /\ A \in Nat
        BY <1>l, <2>3, <4>1
      <4> HIDE DEF A
      <4>3. A = P
        BY <1>l, <1>e, <4>2
      <4> QED
        BY <1>l, <4>3 DEF A
    <3>2. Begins(sp[a], sp[n]) /\ Begins(sp[p], sp[n])
      BY <1>2, <1>5, <1>13, <2>3, <2>4, BeginsTrans
    <3>3. Begins(sp[a], sp[p])
      BY <1>2, <2>2, <3>1, <3>2, BeginsOne
    <3>4. sp[a] = sp[p]
      BY <1>2, <2>2, <3>1, <3>3, BeginsBoth
    <3> QED
      BY <3>4 DEF Radix
  <2>5. Len(sp[a]) < Len(sp[c])
    BY <2>3
  <2> QED
    BY <2>1, <2>3, <2>4, <2>5 DEF c
<1>20. ASSUME NEW i \in 1..Len(h[n].nodes) PROVE h[n].nodes[i] # n
  <2>1. Len(sp[n]) < Len(sp[h[n].nodes[i]])
    BY <1>1, <1>19
  <2>2. ASSUME h[n].nodes[i] = n PROVE FALSE
    <3>1. N < N
      BY <1>l, <2>1, <2>2
    <3> QED
      BY <1>l, <3>1
  <2> QED
    BY <2>2
<1>21. ASSUME NEW a \in L2, NEW i \in 1..Len(h2[a].nodes)
       PROVE  /\ h2[a].nodes[i] \in L2 /\ h2[h2[a].nodes[i]].label # <<>>
              /\ Continues(sp2[h2[a].nodes[i]], sp2[a], h2[h2[a].nodes[i]].label)
  <2>1. CASE a = x
    <3> DEFINE c == h[n].nodes[i]
    <3>1. c \in L /\ c # n /\ h[c].label # <<>> /\ Continues(sp[c], sp[n], h[c].label) /\ h2[a].nodes[i] = c
      BY <1>1, <1>11, <1>19, <1>20, <2>1
    <3> HIDE DEF c
    <3> QED
      BY <1>10, <1>11, <2>1, <3>1 DEF L2
  <2>2. CASE a = n
    <3>1. i = 1 /\ h2[a].nodes[i] = x
      <4>1. i \in 1..1
        BY <1>11, <2>2
      <4>2. i = 1
        BY <4>1
      <4> QED
        BY <1>11, <2>2, <4>2
    <3> QED
      BY <1>4, <1>10, <1>11, <1>13, <2>2, <3>1
  <2>3. CASE a \in L \ {n}
    <3> DEFINE c == h[a].nodes[i]
    <3>1. /\ c \in L /\ h[c].label # <<>> /\ Continues(sp[c], sp[a], h[c].label) /\ h2[a].nodes[i] = c
          /\ c = n => a = p
      BY <1>11, <1>19, <2>3
    <3> HIDE DEF c
    <3>2. CASE c = n
      BY <1>4, <1>10, <1>11, <1>13, <2>3, <3>1, <3>2
    <3>3. CASE c # n
      BY <1>10, <1>11, <2>3, <3>1, <3>3 DEF L2
    <3> QED
      BY <3>2, <3>3
  <2> QED
    BY <1>12, <2>1, <2>2, <2>3
<1>22. ASSUME NEW a \in L2, NEW i \in 1..Len(h2[a].nodes), NEW j \in 1..Len(h2[a].nodes),
              h2[h2[a].nodes[i]].label[1] = h2[h2[a].nodes[j]].label[1]
       PROVE  i = j
  <2>1. ASSUME NEW a0 \in L, h2[a].nodes = h[a0].nodes PROVE i = j
    <3>1. /\ h[a0].nodes[i] \in L /\ h[h[a0].nodes[i]].label # <<>>
          /\ h[a0].nodes[j] \in L /\ h[h[a0].nodes[j]].label # <<>>
      BY <1>19, <2>1
    <3>2. h[h[a0].nodes[i]].label[1] = h[h[a0].nodes[j]].label[1]
      BY <1>17, <1>22, <2>1, <3>1
    <3> QED
      BY <2>1, <3>2 DEF Radix
  <2>2. CASE a = n
    <3>1. i \in 1..1 /\ j \in 1..1
      BY <1>11, <2>2
    <3> QED
      BY <3>1
  <2>3. CASE a # n
    BY <1>1, <1>11, <1>12, <2>1, <2>3
  <2> QED
    BY <2>2, <2>3
<1>23. \A a, b \in L2 : sp2[a] = sp2[b] => a = b
  <2>1. \A a \in L2 : (a = n /\ sp2[a] = w) \/ (a = x /\ sp2[a] = sp[n]) \/ (a \in L \ {n} /\ sp2[a] = sp[a])
    BY <1>10, <1>12
  <2>2. \A a, b \in L : sp[a] = sp[b] => a = b
    BY DEF Radix
  <2> QED
    BY <1>1, <1>16, <2>1, <2>2
<1>24. ASSUME NEW a \in L, NEW i \in 1..Len(h[a].nodes), NEW t \in Str, Begins(sp[h[a].nodes[i]], t), a # n
       PROVE  i \in 1..Len(h2[a].nodes) /\ Begins(sp2[h2[a].nodes[i]], t)
  <2>1. h2[a] = h[a]
    BY <1>11, <1>24
  <2>2. h[a].nodes[i] \in L
    BY <1>19
  <2> QED
    BY <1>10, <1>18, <1>24, <2>1, <2>2, BeginsTrans
<1>25. ASSUME NEW a \in L2, NEW b \in L2, a # b, Begins(sp2[a], sp2[b])
       PROVE  \E i \in 1..Len(h2[a].nodes) : Begins(sp2[h2[a].nodes[i]], sp2[b])
  <2>1. CASE a = n
    <3>1. Begins(sp[n], sp2[b])
      <4>1. CASE b = x
        BY <1>2, <1>10, <4>1, BeginsSelf
      <4>2. CASE b \in L \ {n}
        BY <1>10, <1>14, <1>25, <2>1, <4>2
      <4> QED
        BY <1>12, <1>25, <2>1, <4>1, <4>2
    <3>2. 1 \in 1..Len(h2[n].nodes)
      BY <1>11
    <3> QED
      BY <1>10, <1>11, <2>1, <3>1, <3>2
  <2>2. CASE a = x
    <3>1. ASSUME b = n PROVE FALSE
      <4>1. Begins(sp[n], w)
        BY <1>10, <1>25, <2>2, <3>1
      <4>2. N <= e
        BY <1>l, <1>5, <4>1 DEF Begins
      <4> QED
        BY <1>l, <1>f, <4>2
    <3>2. b \in L \ {n} /\ sp2[b] = sp[b]
      BY <1>10, <1>12, <1>25, <2>2, <3>1
    <3>3. PICK i \in 1..Len(h[n].nodes) : Begins(sp[h[n].nodes[i]], sp[b])
      BY <1>1, <1>10, <1>25, <2>2, <3>2 DEF Radix
    <3>4. h[n].nodes[i] \in L \ {n}
      BY <1>1, <1>19, <1>20
    <3> QED
      BY <1>10, <1>11, <2>2, <3>2, <3>3, <3>4
  <2>3. CASE a \in L \ {n}
    <3>0. sp2[a] = sp[a]
      BY <1>10, <2>3
    <3>1. CASE b = n
      <4>1. Begins(sp[a], sp[p])
        BY <1>10, <1>15, <1>25, <2>3, <3>0, <3>1
      <4>2. CASE a = p
        <5>1. h2[a].nodes = h[p].nodes /\ h2[a].nodes[i0] = n
          BY <1>11, <2>3, <4>2
        <5> QED
          BY <1>5, <1>10, <3>1, <4>2, <5>1, BeginsSelf
      <4>3. CASE a # p
        <5>1. PICK i \in 1..Len(h[a].nodes) : Begins(sp[h[a].nodes[i]], sp[p])
          BY <2>3, <4>1, <4>3 DEF Radix
        <5>2. sp[h[a].nodes[i]] \in Str
          BY <1>10, <1>19, <2>3
        <5>3. Begins(sp[h[a].nodes[i]], w)
          BY <1>2, <1>5, <1>13, <5>1, <5>2, BeginsTrans
        <5> QED
          BY <1>5, <1>10, <1>24, <2>3, <3>1, <5>3
      <4> QED
        BY <4>2, <4>3
    <3>2. CASE b # n
      <4>1. PICK b0 \in L : sp2[b] = sp[b0] /\ a # b0
        BY <1>1, <1>10, <1>12, <1>25, <2>3, <3>2
      <4>2. PICK i \in 1..Len(h[a].nodes) : Begins(sp[h[a].nodes[i]], sp[b0])
        BY <1>25, <2>3, <3>0, <4>1 DEF Radix
      <4> QED
        BY <1>10, <1>24, <2>3, <4>1, <4>2
    <3> QED
      BY <3>1, <3>2
  <2> QED
    BY <1>12, <2>1, <2>2, <2>3
<1>26. Radix(h2, L2, sp2)
  <2>1. L2 \subseteq Nodes(h2) /\ Root \in L2 /\ sp2[Root] = <<>>
    <3>1. Root \in L \ {n} /\ sp[Root] = <<>>
      BY <1>1 DEF Radix
    <3> QED
      BY <1>8, <1>9, <1>10, <3>1 DEF L2
  <2> QED
    BY <1>10, <1>21, <1>22, <1>23, <1>25, <2>1 DEF Radix
<1>27. Held(h2, L2, sp2, m)
  <2>1. w \notin DOMAIN m
    BY <1>16 DEF Held
  <2>2. ASSUME NEW b \in L2
        PROVE  h2[b].value = IF sp2[b] \in DOMAIN m THEN m[sp2[b]] ELSE None
    <3>1. CASE b = n
      BY <1>10, <1>11, <2>1, <3>1
    <3>2. CASE b = x
      BY <1>1, <1>10, <1>11, <3>2 DEF Held
    <3>3. CASE b \in L \ {n}
      BY <1>10, <1>11, <3>3 DEF Held
    <3> QED
      BY <1>12, <3>1, <3>2, <3>3
  <2>3. ASSUME NEW k \in DOMAIN m PROVE \E b \in L2 : sp2[b] = k
    <3>1. PICK b \in L : sp[b] = k
      BY DEF Held
    <3> QED
      BY <1>10, <3>1 DEF L2
  <2> QED
    BY <2>2, <2>3 DEF Held
<1>28. ASSUME NEW b \in L2 PROVE b = n \/ \E b0 \in L : sp2[b] = sp[b0]
  BY <1>1, <1>10, <1>12
<1>29. IsSplit(h2, h, L, sp, p, n, d, m)
  <2>1. Continues(sp2[n], sp[p], u)
    BY <1>10, <1>13
  <2>2. \E L3, sp3 : /\ Radix(h2, L3, sp3) /\ Held(h2, L3, sp3, m) /\ n \in L3
                    /\ Continues(sp3[n], sp[p], SubSeq(h[n].label, 1, d))
                    /\ \A b \in L3 : b = n \/ \E b0 \in L : sp3[b] = sp[b0]
    BY <1>10, <1>26, <1>27, <1>28, <2>1 DEF u
  <2>3. /\ HeapTyped(h2) /\ Len(h2) = Len(h) + 1 /\ h2[n].nodes = <<Len(h) + 1>>
        /\ h2[Len(h) + 1].label = Rest(h[n].label, d)
    BY <1>8, <1>x, <1>11 DEF r
  <2> QED
    BY <2>2, <2>3 DEF IsSplit
<1> QED
  BY <1>29 DEF h2
LEMMA Removed ==
  ASSUME NEW s \in Seq(Nat), NEW k \in 1..Len(s)
  PROVE  /\ RemoveAt(s, k) \in Seq(Nat) /\ Len(s) \in Nat /\ Len(RemoveAt(s, k)) = Len(s) - 1
         /\ \A i \in 1..Len(s) - 1 : RemoveAt(s, k)[i] = s[IF i < k THEN i ELSE i + 1]
<1> DEFINE a == SubSeq(s, 1, k - 1)
           b == SubSeq(s, k + 1, Len(s))
           N == Len(s)
<1>1. N \in Nat /\ k \in Nat /\ 1 <= k /\ k <= N /\ \A i \in 1..N : s[i] \in Nat
  BY LenProperties, ElementOfSeq
<1>2. a \in Seq(Nat) /\ Len(a) = k - 1 /\ \A i \in 1..k - 1 : a[i] = s[i]
  <2>1. /\ a \in Seq(Nat) /\ Len(a) = IF 1 <= k - 1 THEN k - 1 - 1 + 1 ELSE 0
        /\ \A i \in 1..k - 1 - 1 + 1 : a[i] = s[1 + i - 1]
    <3>1. \A i \in 1..k - 1 : s[i] \in Nat
      BY <1>1
    <3>2. 1 \in Int /\ k - 1 \in Int
      OBVIOUS
    <3> QED
      BY <3>1, <3>2, SubSeqProperties
  <2> HIDE DEF a
  <2>2. (k - 1) - 1 + 1 = k - 1 /\ (~ (1 <= k - 1) => k - 1 = 0)
    BY <1>1
  <2> QED
    BY <2>1, <2>2
<1>3. b \in Seq(Nat) /\ Len(b) = N - k /\ \A i \in 1..N - k : b[i] = s[k + i]
  <2>1. /\ b \in Seq(Nat) /\ Len(b) = IF k + 1 <= N THEN N - (k + 1) + 1 ELSE 0
        /\ \A i \in 1..N - (k + 1) + 1 : b[i] = s[(k + 1) + i - 1]
    <3>1. \A i \in k + 1..N : s[i] \in Nat
      BY <1>1
    <3>2. k + 1 \in Int /\ N \in Int
      BY <1>1
    <3> QED
      BY <3>1, <3>2, SubSeqProperties
  <2> HIDE DEF b, N
  <2>2. N - (k + 1) + 1 = N - k /\ (~ (k + 1 <= N) => N - k = 0)
    BY <1>1
  <2>3. \A i \in 1..N - k : (k + 1) + i - 1 = k + i
    BY <1>1
  <2> QED
    BY <2>1, <2>2, <2>3
<1>4. RemoveAt(s, k) = a \o b
  BY DEF RemoveAt
<1> HIDE DEF a, b, N
<1>5. /\ a \o b \in Seq(Nat) /\ Len(a \o b) = Len(a) + Len(b)
      /\ \A i \in 1..Len(a) + Len(b) : (a \o b)[i] = IF i <= Len(a) THEN a[i] ELSE b[i - Len(a)]
  BY <1>2, <1>3, ConcatProperties
<1>6. (k - 1) + (N - k) = N - 1
  BY <1>1
<1>7. ASSUME NEW i \in 1..N - 1 PROVE (a \o b)[i] = s[IF i < k THEN i ELSE i + 1]
  <2>1. CASE i < k
    <3>1. i <= k - 1 /\ i \in 1..k - 1
      BY <1>1, <2>1
    <3> QED
      BY <1>2, <1>3, <1>5, <1>6, <2>1, <3>1
  <2>2. CASE ~ (i < k)
    <3>1. ~ (i <= k - 1) /\ i - (k - 1) \in 1..N - k /\ k + (i - (k - 1)) = i + 1
      BY <1>1, <2>2
    <3>2. (a \o b)[i] = b[i - (k - 1)]
      BY <1>2, <1>3, <1>5, <1>6, <3>1
    <3> QED
      BY <1>3, <2>2, <3>1, <3>2
  <2> QED
    BY <2>1, <2>2
<1> QED
  BY <1>1, <1>2, <1>3, <1>4, <1>5, <1>6, <1>7 DEF N

\* A child removed.
IsRemoved(h2, h, p, k) ==
  /\ HeapTyped(h2) /\ Nodes(h2) = Nodes(h) /\ \A b \in Nodes(h) \ {p} : h2[b] = h[b]
  /\ h2[p].label = h[p].label /\ h2[p].value = h[p].value /\ Len(h2[p].nodes) = Len(h[p].nodes) - 1
  /\ \A i \in 1..Len(h[p].nodes) - 1 : h2[p].nodes[i] = h[p].nodes[IF i < k THEN i ELSE i + 1]

LEMMA ChildRemoved ==
  ASSUME NEW h, HeapTyped(h), NEW p \in Nodes(h), NEW k \in 1..Len(h[p].nodes)
  PROVE  IsRemoved([h EXCEPT ![p].nodes = RemoveAt(@, k)], h, p, k)
<1> DEFINE y == [h[p] EXCEPT !.nodes = RemoveAt(@, k)]
           h2 == [h EXCEPT ![p].nodes = RemoveAt(@, k)]
           M == Len(h[p].nodes)
<1>1. h[p] \in Node /\ h[p].nodes \in Seq(Nat) /\ M \in Nat
  BY NodeTyped DEF Node
<1>2. /\ y \in Node /\ y.label = h[p].label /\ y.value = h[p].value /\ Len(y.nodes) = M - 1
      /\ \A i \in 1..M - 1 : y.nodes[i] = h[p].nodes[IF i < k THEN i ELSE i + 1]
  BY <1>1, Removed DEF Node
<1>3. h2 = [h EXCEPT ![p] = y]
  OBVIOUS
<1> HIDE DEF y, h2
<1>4. \A i \in 1..Len(y.nodes) : y.nodes[i] \in Nodes(h) \ {Root}
  <2>1. ASSUME NEW i \in 1..M - 1 PROVE (IF i < k THEN i ELSE i + 1) \in 1..M
    BY <1>1
  <2>2. \A i \in 1..M : h[p].nodes[i] \in Nodes(h) \ {Root}
    BY DEF HeapTyped
  <2> HIDE DEF M
  <2> QED
    BY <1>2, <2>1, <2>2
<1>5. IsChanged([h EXCEPT ![p] = y], h, p, y)
  BY <1>2, <1>4, Changed
<1>6. IsChanged(h2, h, p, y)
  BY <1>3, <1>5
<1> QED
  BY <1>2, <1>6 DEF IsChanged, IsRemoved, h2

\* A node without a value, in it or below it, is removed with all below it.
LEMMA Pruned ==
  ASSUME NEW h, HeapTyped(h), NEW L, NEW sp, Radix(h, L, sp), NEW m, Held(h, L, sp, m), Typed(m),
         NEW p \in L, NEW k \in 1..Len(h[p].nodes), NEW top, top = h[p].nodes[k],
         \A b \in L : Begins(sp[top], sp[b]) => h[b].value = None
  PROVE  Standing([h EXCEPT ![p].nodes = RemoveAt(@, k)], m)
<1> DEFINE h2 == [h EXCEPT ![p].nodes = RemoveAt(@, k)]
           L2 == {b \in L : ~ Begins(sp[top], sp[b])}
           sp2 == [b \in L2 |-> sp[b]]
           Was(a, i) == IF a = p /\ ~ (i < k) THEN i + 1 ELSE i
           M == Len(h[p].nodes)
<1>1. /\ p \in Nodes(h) /\ L \subseteq Nodes(h) /\ h[p] \in Node /\ h[p].nodes \in Seq(Nat) /\ M \in Nat
      /\ top \in L /\ sp[top] \in Str /\ sp[p] \in Str /\ \A b \in L : sp[b] \in Str
  <2>1. p \in Nodes(h) /\ top \in L /\ L \subseteq Nodes(h) /\ \A b \in L : sp[b] \in Str
    BY DEF Radix
  <2>2. h[p] \in Node /\ h[p].nodes \in Seq(Nat) /\ M \in Nat
    BY <2>1, NodeTyped DEF Node
  <2> QED
    BY <2>1, <2>2
<1>2. IsRemoved(h2, h, p, k)
  BY <1>1, ChildRemoved
<1> HIDE DEF h2
<1>4. /\ HeapTyped(h2) /\ Nodes(h2) = Nodes(h) /\ \A b \in Nodes(h) \ {p} : h2[b] = h[b]
      /\ h2[p].label = h[p].label /\ h2[p].value = h[p].value /\ Len(h2[p].nodes) = M - 1
      /\ \A i \in 1..M - 1 : h2[p].nodes[i] = h[p].nodes[IF i < k THEN i ELSE i + 1]
  BY <1>2 DEF IsRemoved
<1>5. \A b \in L : h2[b].label = h[b].label /\ h2[b].value = h[b].value
  BY <1>1, <1>4
<1>6. ASSUME NEW a \in L, NEW i \in 1..Len(h2[a].nodes)
      PROVE  /\ Was(a, i) \in 1..Len(h[a].nodes) /\ h2[a].nodes[i] = h[a].nodes[Was(a, i)]
             /\ ~ (a = p /\ Was(a, i) = k)
  <2>1. CASE a = p
    <3>1. i \in 1..M - 1
      BY <1>4, <2>1
    <3>2. Was(a, i) = (IF i < k THEN i ELSE i + 1) /\ Was(a, i) \in 1..M /\ Was(a, i) # k
      BY <1>1, <2>1, <3>1
    <3> QED
      BY <1>4, <2>1, <3>1, <3>2
  <2>2. CASE a # p
    BY <1>1, <1>4, <2>2
  <2> QED
    BY <2>1, <2>2
<1>7. ASSUME NEW a \in L, NEW i \in 1..Len(h2[a].nodes), NEW j \in 1..Len(h2[a].nodes), Was(a, i) = Was(a, j)
      PROVE  i = j
  <2>1. i \in Int /\ j \in Int /\ k \in Int
    OBVIOUS
  <2> QED
    BY <1>7, <2>1
<1>8. ASSUME NEW a \in L, NEW j \in 1..Len(h[a].nodes), ~ (a = p /\ j = k)
      PROVE  \E i \in 1..Len(h2[a].nodes) : h2[a].nodes[i] = h[a].nodes[j]
  <2>1. CASE a = p /\ j < k
    <3>1. j \in 1..M - 1
      BY <1>1, <2>1
    <3> QED
      BY <1>4, <2>1, <3>1
  <2>2. CASE a = p /\ ~ (j < k)
    <3>1. j - 1 \in 1..M - 1 /\ ~ (j - 1 < k) /\ (j - 1) + 1 = j
      BY <1>1, <1>8, <2>2
    <3> QED
      BY <1>4, <2>2, <3>1
  <2>3. CASE a # p
    BY <1>1, <1>4, <2>3
  <2> QED
    BY <2>1, <2>2, <2>3
<1> HIDE DEF Was, M
<1>9. L2 \subseteq L /\ sp2 \in [L2 -> Str] /\ \A b \in L2 : sp2[b] = sp[b] /\ ~ Begins(sp[top], sp[b])
  BY <1>1
<1>10. \A b \in L : b \in L2 \/ Begins(sp[top], sp[b])
  OBVIOUS
<1> HIDE DEF L2, sp2
<1>11. ASSUME NEW a \in L, NEW j \in 1..Len(h[a].nodes)
       PROVE  /\ h[a].nodes[j] \in L /\ h[h[a].nodes[j]].label # <<>>
              /\ Continues(sp[h[a].nodes[j]], sp[a], h[h[a].nodes[j]].label)
              /\ Begins(sp[a], sp[h[a].nodes[j]]) /\ ~ Begins(sp[h[a].nodes[j]], sp[a])
  <2> DEFINE c == h[a].nodes[j]
  <2>1. c \in L /\ h[c].label # <<>> /\ Continues(sp[c], sp[a], h[c].label)
    BY DEF Radix
  <2> HIDE DEF c
  <2>2. sp[c] \in Str /\ sp[a] \in Str /\ h[c].label \in Str
    BY <1>1, <2>1, NodeTyped
  <2>3. Begins(sp[a], sp[c]) /\ Len(sp[a]) <= Len(sp[c]) /\ Len(sp[a]) # Len(sp[c]) /\ Len(sp[a]) \in Nat /\ Len(sp[c]) \in Nat
    BY <2>1, <2>2, ContinuesFrom
  <2>4. ~ Begins(sp[c], sp[a])
    BY <2>3 DEF Begins
  <2> QED
    BY <2>1, <2>3, <2>4 DEF c
\* The removed node has one parent.
<1>12. ASSUME NEW a \in L, NEW j \in 1..Len(h[a].nodes), h[a].nodes[j] = top PROVE a = p /\ j = k
  <2>1. Begins(sp[a], sp[top]) /\ Begins(sp[p], sp[top]) /\ a # top /\ p # top
    BY <1>1, <1>11, <1>12, BeginsSelf
  <2>2. Begins(sp[a], sp[p]) /\ Begins(sp[p], sp[a])
    BY <1>12, <2>1, Between
  <2>3. Len(sp[a]) = Len(sp[p])
    BY <1>1, <2>2, StrTyped DEF Begins
  <2>4. sp[a] = sp[p]
    BY <1>1, <2>2, <2>3, BeginsBoth
  <2>5. a = p
    BY <2>4 DEF Radix
  <2> QED
    BY <1>12, <2>5 DEF Radix
<1>13. ASSUME NEW a \in L2, NEW i \in 1..Len(h2[a].nodes)
       PROVE  /\ h2[a].nodes[i] \in L2 /\ h2[h2[a].nodes[i]].label # <<>>
              /\ Continues(sp2[h2[a].nodes[i]], sp2[a], h2[h2[a].nodes[i]].label)
  <2> DEFINE j == Was(a, i)
             c == h[a].nodes[j]
  <2>1. a \in L /\ j \in 1..Len(h[a].nodes) /\ h2[a].nodes[i] = c /\ ~ (a = p /\ j = k)
    BY <1>6, <1>9
  <2> HIDE DEF j
  <2>2. c \in L /\ h[c].label # <<>> /\ Continues(sp[c], sp[a], h[c].label) /\ c # top
    BY <1>11, <1>12, <2>1
  <2>3. ~ Begins(sp[top], sp[c])
    <3>1. ~ Begins(sp[top], sp[a])
      BY <1>9
    <3> QED
      BY <1>1, <2>1, <2>2, <3>1, Between
  <2> HIDE DEF c
  <2>4. c \in L2
    BY <1>10, <2>2, <2>3
  <2> QED
    BY <1>5, <1>9, <2>1, <2>2, <2>4
<1>14. ASSUME NEW a \in L2, NEW i \in 1..Len(h2[a].nodes), NEW j \in 1..Len(h2[a].nodes),
              h2[h2[a].nodes[i]].label[1] = h2[h2[a].nodes[j]].label[1]
       PROVE  i = j
  <2> DEFINE i1 == Was(a, i)
             j1 == Was(a, j)
  <2>1. /\ a \in L /\ i1 \in 1..Len(h[a].nodes) /\ h2[a].nodes[i] = h[a].nodes[i1]
        /\ j1 \in 1..Len(h[a].nodes) /\ h2[a].nodes[j] = h[a].nodes[j1]
    BY <1>6, <1>9
  <2>2. h[a].nodes[i1] \in L /\ h[a].nodes[j1] \in L
    BY <1>11, <2>1
  <2> HIDE DEF i1, j1
  <2>3. h[h[a].nodes[i1]].label[1] = h[h[a].nodes[j1]].label[1]
    <3>1. h2[h[a].nodes[i1]].label[1] = h2[h[a].nodes[j1]].label[1]
      BY <1>14, <2>1
    <3> QED
      BY <1>5, <2>2, <3>1
  <2>4. i1 = j1
    BY <2>1, <2>3 DEF Radix
  <2> QED
    BY <1>7, <2>1, <2>4 DEF i1, j1
<1>15. ASSUME NEW a \in L2, NEW b \in L2, a # b, Begins(sp2[a], sp2[b])
       PROVE  \E i \in 1..Len(h2[a].nodes) : Begins(sp2[h2[a].nodes[i]], sp2[b])
  <2>1. a \in L /\ b \in L /\ sp2[a] = sp[a] /\ sp2[b] = sp[b] /\ ~ Begins(sp[top], sp[b])
    BY <1>9
  <2>2. PICK j \in 1..Len(h[a].nodes) : Begins(sp[h[a].nodes[j]], sp[b])
    BY <1>15, <2>1 DEF Radix
  <2>3. ~ (a = p /\ j = k)
    BY <2>1, <2>2
  <2>4. PICK i \in 1..Len(h2[a].nodes) : h2[a].nodes[i] = h[a].nodes[j]
    BY <1>8, <2>1, <2>3
  <2>5. h2[a].nodes[i] \in L2
    BY <1>13
  <2>6. sp2[h2[a].nodes[i]] = sp[h[a].nodes[j]]
    BY <1>9, <2>4, <2>5
  <2> QED
    BY <2>1, <2>2, <2>6
<1>16. Root \in L2 /\ sp2[Root] = <<>>
  <2>1. Root \in L /\ sp[Root] = <<>>
    BY DEF Radix
  <2>2. ~ Begins(sp[top], sp[Root])
    <3>1. Len(<<>>) = 0 /\ ~ Begins(sp[top], sp[p]) /\ Len(sp[top]) \in Nat /\ sp[p] \in Str
      BY <1>1, <1>11, StrTyped, EmptySeq
    <3>2. Len(sp[top]) # 0
      BY <1>1, <3>1, StrTyped DEF Begins
    <3> QED
      BY <2>1, <3>1, <3>2 DEF Begins
  <2> QED
    BY <1>9, <1>10, <2>1, <2>2
<1>17. \A a, b \in L2 : sp2[a] = sp2[b] => a = b
  BY <1>9 DEF Radix
<1>18. Radix(h2, L2, sp2)
  <2>1. L2 \subseteq Nodes(h2)
    BY <1>1, <1>4, <1>9
  <2> QED
    BY <1>9, <1>13, <1>14, <1>15, <1>16, <1>17, <2>1 DEF Radix
<1>19. Held(h2, L2, sp2, m)
  <2>1. ASSUME NEW b \in L2 PROVE h2[b].value = IF sp2[b] \in DOMAIN m THEN m[sp2[b]] ELSE None
    BY <1>5, <1>9 DEF Held
  <2>2. ASSUME NEW key \in DOMAIN m PROVE \E b \in L2 : sp2[b] = key
    <3>1. PICK b \in L : sp[b] = key
      BY DEF Held
    <3>2. h[b].value # None
      BY <3>1, TreeAssumption DEF Held, Typed
    <3>3. b \in L2
      BY <1>10, <3>2
    <3> QED
      BY <1>9, <3>1, <3>3
  <2> QED
    BY <2>1, <2>2 DEF Held
<1> QED
  BY <1>18, <1>19 DEF h2, Standing
----------------------------------------------------------------------------
(* The steps *)

LEMMA MatchIs ==
  ASSUME NEW key \in Str, NEW label \in Str
  PROVE  LET m == Match(key, label)
         IN  /\ m \in Nat /\ m \in 0..Len(label) /\ m \in 0..Len(key) /\ Begins(SubSeq(label, 1, m), key)
             /\ m < Len(label) /\ m < Len(key) => label[m + 1] # key[m + 1]
             /\ label # <<>> /\ key # <<>> /\ label[1] = key[1] => m >= 1
             /\ ~ Begins(label, key) => m < Len(label)
<1> DEFINE In(k) == IsPrefix(SubSeq(label, 1, k), key)
           T == {k \in 0..Len(label) : In(k)}
           m == Match(key, label)
<1>1. Len(label) \in Nat /\ Len(key) \in Nat
  BY StrTyped
<1>2. ASSUME NEW k \in 0..Len(label)
      PROVE  /\ In(k) <=> k <= Len(key) /\ \A i \in 1..k : label[i] = key[i]
             /\ In(k) <=> Begins(SubSeq(label, 1, k), key)
  <2> DEFINE a == SubSeq(label, 1, k)
  <2>1. a \in Str /\ Len(a) = k /\ \A i \in 1..k : a[i] = label[i]
    BY HeadIs
  <2> HIDE DEF a
  <2>2. IsPrefix(a, key) <=> Begins(a, key)
    BY <2>1, PrefixIs
  <2>3. Begins(a, key) <=> k <= Len(key) /\ \A i \in 1..k : label[i] = key[i]
    BY <2>1 DEF Begins
  <2> QED
    BY <2>2, <2>3 DEF a
<1>3. m = Max(T)
  BY DEF Match
<1> HIDE DEF In, m
<1>4. 0 \in T
  <2>1. 0 \in 0..Len(label) /\ 0 <= Len(key)
    BY <1>1
  <2>2. \A i \in 1..0 : label[i] = key[i]
    OBVIOUS
  <2>3. In(0)
    BY <1>2, <2>1, <2>2
  <2> QED
    BY <2>1, <2>3
<1>5. m \in T /\ \A k \in T : k <= m
  <2>1. T \subseteq Nat /\ \A x \in T : x <= Len(label)
    BY <1>1
  <2> HIDE DEF T
  <2>2. \E x \in T : \A k \in T : k <= x
    BY <1>1, <1>4, <2>1, Greatest
  <2>3. \E x \in T : \A k \in T : x >= k
    BY <2>1, <2>2
  <2>4. Max(T) \in T /\ \A k \in T : Max(T) >= k
    BY <2>3 DEF Max
  <2> QED
    BY <1>3, <2>1, <2>4
<1>6. m \in 0..Len(label) /\ m \in Nat /\ In(m)
  BY <1>1, <1>5
<1>7. m <= Len(key) /\ (\A i \in 1..m : label[i] = key[i]) /\ Begins(SubSeq(label, 1, m), key)
  BY <1>2, <1>6
<1>8. ASSUME m < Len(label), m < Len(key), label[m + 1] = key[m + 1] PROVE FALSE
  <2>1. m + 1 \in 0..Len(label) /\ m + 1 <= Len(key)
    BY <1>1, <1>6, <1>8
  <2>2. \A i \in 1..m + 1 : i \in 1..m \/ i = m + 1
    BY <1>6
  <2>3. In(m + 1)
    BY <1>2, <1>7, <1>8, <2>1, <2>2
  <2>4. m + 1 <= m
    BY <1>5, <2>1, <2>3
  <2> QED
    BY <1>6, <2>4
<1>9. ASSUME label # <<>>, key # <<>>, label[1] = key[1] PROVE m >= 1
  <2>1. Len(label) # 0 /\ Len(key) # 0
    BY <1>9, EmptyStr
  <2>2. 1 \in 0..Len(label) /\ 1 <= Len(key)
    BY <1>1, <2>1
  <2>3. \A i \in 1..1 : label[i] = key[i]
    BY <1>9
  <2>4. In(1)
    BY <1>2, <2>2, <2>3
  <2>5. 1 <= m
    BY <1>5, <2>2, <2>4
  <2> QED
    BY <1>6, <2>5
<1>10. ASSUME ~ Begins(label, key) PROVE m < Len(label)
  <2>1. m = Len(label) => Begins(label, key)
    BY <1>7 DEF Begins
  <2> QED
    BY <1>1, <1>6, <1>10, <2>1
<1>11. m \in 0..Len(key)
  BY <1>1, <1>6, <1>7
<1> QED
  BY <1>6, <1>7, <1>8, <1>9, <1>10, <1>11 DEF m

LEMMA CutIs ==
  ASSUME HeapTyped(heap), NEW s \in Ways, s.out = "apart"
  PROVE  LET n == heap[s.node]
             m == Match(s.key, n.label)
         IN  /\ IsExtended(Cut(s), heap, s.node, Upper(n, m, Len(heap) + 1), Lower(n, m))
             /\ Cut(s) = Append([heap EXCEPT ![s.node] = Upper(n, m, Len(heap) + 1)], Lower(n, m))
             /\ Rest(s.key, m) \in Str
             /\ Cut(s)[Root] = heap[Root] /\ Len(Cut(s)[s.node].nodes) = 1
<1> DEFINE n == heap[s.node]
           m == Match(s.key, n.label)
           x == Len(heap) + 1
           y == Upper(n, m, x)
           z == Lower(n, m)
<1>1. s.node \in Nodes(heap) /\ s.node # Root /\ s.key \in Str
  BY DEF Ways
<1>2. n \in Node /\ n.label \in Str /\ n.nodes \in Seq(Nat) /\ Len(heap) \in Nat
  BY <1>1, NodeTyped DEF Node
<1>3. m \in 0..Len(n.label) /\ m \in 0..Len(s.key)
  BY <1>1, <1>2, MatchIs
<1>4. SubSeq(n.label, 1, m) \in Str /\ Rest(n.label, m) \in Str /\ Rest(s.key, m) \in Str
  BY <1>1, <1>2, <1>3, HeadIs, RestIs
<1>5. Cut(s) = Append([heap EXCEPT ![s.node] = y], z)
  BY DEF Cut
<1>6. y \in Node /\ z \in Node /\ y.nodes = <<x>> /\ Len(y.nodes) = 1 /\ y.nodes[1] = x /\ z.nodes = n.nodes
  <2>1. <<x>> \in Seq(Nat) /\ Len(<<x>>) = 1 /\ <<x>>[1] = x
    BY <1>2
  <2>2. y = [label |-> SubSeq(n.label, 1, m), value |-> None, nodes |-> <<x>>] /\ z = [n EXCEPT !.label = Rest(n.label, m)]
    BY DEF Upper, Lower
  <2> HIDE DEF y, z, n, m, x
  <2> QED
    BY <1>2, <1>4, <2>1, <2>2 DEF Node
<1> HIDE DEF y, z
<1>7. x # Root
  BY <1>2 DEF HeapTyped, Nodes
<1>8. \A i \in 1..Len(y.nodes) : y.nodes[i] \in (Nodes(heap) \cup {x}) \ {Root}
  BY <1>6, <1>7
<1>9. \A i \in 1..Len(z.nodes) : z.nodes[i] \in (Nodes(heap) \cup {x}) \ {Root}
  BY <1>1, <1>6 DEF HeapTyped
<1>10. IsExtended(Append([heap EXCEPT ![s.node] = y], z), heap, s.node, y, z)
  BY <1>1, <1>6, <1>8, <1>9, Extended
<1>11. IsExtended(Cut(s), heap, s.node, y, z)
  BY <1>5, <1>10
<1>12. Cut(s)[Root] = heap[Root] /\ Cut(s)[s.node] = y
  BY <1>1, <1>11 DEF IsExtended, HeapTyped
<1> QED
  BY <1>4, <1>5, <1>6, <1>11, <1>12 DEF y, z

\* A key is put into a tree that stands for a map.
LEMMA FoundStands ==
  ASSUME HeapTyped(heap), Standing(heap, map), Typed(map), NEW key \in Str, key # <<>>, NEW v \in Values,
         End(Start(key)).out = "found"
  PROVE  LET s == End(Start(key))
         IN  /\ Standing([heap EXCEPT ![s.node].value = v], With(map, key, v))
             /\ heap[s.node].value = None <=> key \notin DOMAIN map
<1> DEFINE s == End(Start(key))
<1>1. PICK L, sp : Radix(heap, L, sp) /\ Held(heap, L, sp, map)
  BY DEF Standing
<1>2. At(s, L, sp, key)
  BY <1>1, EndAt
<1> HIDE DEF s
<1>3. s.node \in L /\ sp[s.node] = key
  BY <1>2 DEF At, s
<1>4. heap[s.node].value = None <=> key \notin DOMAIN map
  BY <1>1, <1>3, TreeAssumption DEF Held, Typed
<1>5. v # None /\ v \in Values \cup {None}
  BY TreeAssumption
<1> DEFINE n == s.node
<1>6. n \in L
  BY <1>3
<1> HIDE DEF n
<1> DEFINE h2 == [heap EXCEPT ![n].value = v]
<1>7. Radix(h2, L, sp) /\ Held(h2, L, sp, With(map, sp[n], v))
  BY <1>1, <1>5, <1>6, Valued
<1> QED
  BY <1>3, <1>4, <1>7 DEF Standing, s, n

LEMMA StuckStands ==
  ASSUME HeapTyped(heap), Standing(heap, map), NEW key \in Str, key # <<>>, NEW v \in Values,
         End(Start(key)).out = "stuck"
  PROVE  LET s == End(Start(key))
         IN  /\ key \notin DOMAIN map
             /\ Standing(Append([heap EXCEPT ![s.node].nodes = Append(@, Len(heap) + 1)], Leaf(s.key, v)),
                         With(map, key, v))
<1> DEFINE s == End(Start(key))
<1>1. PICK L, sp : Radix(heap, L, sp) /\ Held(heap, L, sp, map)
  BY DEF Standing
<1>2. At(s, L, sp, key) /\ s \in Ways /\ \A b \in L : sp[b] # key
  BY <1>1, EndAt, NotFound
<1>3. key \notin DOMAIN map
  BY <1>1, <1>2 DEF Held
<1> HIDE DEF s
<1> DEFINE n == s.node
           r == s.key
<1>4. /\ n \in L /\ Continues(key, sp[n], r) /\ r # <<>> /\ r \in Str
      /\ \A i \in 1..Len(heap[n].nodes) : heap[heap[n].nodes[i]].label[1] # r[1]
  BY <1>2 DEF At, Ways, s
<1> HIDE DEF n, r
<1> DEFINE h2 == Append([heap EXCEPT ![n].nodes = Append(@, Len(heap) + 1)], Leaf(r, v))
<1>5. Standing(h2, With(map, key, v))
  BY <1>1, <1>2, <1>4, Grown
<1> QED
  BY <1>3, <1>5 DEF n, r, s

LEMMA ApartStands ==
  ASSUME HeapTyped(heap), Standing(heap, map), NEW key \in Str, key # <<>>, NEW v \in Values,
         End(Start(key)).out = "apart"
  PROVE  LET s == End(Start(key))
             left == Rest(s.key, Match(s.key, heap[s.node].label))
             cut == Cut(s)
         IN  /\ key \notin DOMAIN map
             /\ left # <<>> =>
                  Standing(Append([cut EXCEPT ![s.node].nodes = Append(@, Len(cut) + 1)], Leaf(left, v)),
                           With(map, key, v))
<1> DEFINE s == End(Start(key))
           n == s.node
           k == s.key
           l == heap[n].label
           d == Match(k, l)
           left == Rest(k, d)
           cut == Cut(s)
           u == SubSeq(l, 1, d)
<1>1. PICK L, sp : Radix(heap, L, sp) /\ Held(heap, L, sp, map)
  BY DEF Standing
<1>2. At(s, L, sp, key) /\ s \in Ways /\ \A b \in L : sp[b] # key
  BY <1>1, EndAt, NotFound
<1>3. key \notin DOMAIN map
  BY <1>1, <1>2 DEF Held
<1>4. cut = Append([heap EXCEPT ![n] = Upper(heap[n], d, Len(heap) + 1)], Lower(heap[n], d))
  BY <1>2, CutIs
<1>a. s.out = "apart"
  OBVIOUS
<1> HIDE DEF s, cut
<1>5. /\ n \in L /\ k # <<>> /\ k \in Str /\ l[1] = k[1] /\ ~ Begins(l, k)
      /\ \E p \in L : /\ Continues(key, sp[p], k)
                      /\ \E i \in 1..Len(heap[p].nodes) : heap[p].nodes[i] = n
  BY <1>2, <1>a DEF At, Ways
<1>6. PICK p \in L : Continues(key, sp[p], k) /\ \E i \in 1..Len(heap[p].nodes) : heap[p].nodes[i] = n
  BY <1>5
<1>7. PICK i \in 1..Len(heap[p].nodes) : heap[p].nodes[i] = n
  BY <1>6
<1> HIDE DEF n, k
<1>8. l \in Str /\ l # <<>> /\ sp[p] \in Str
  <2>1. n \in Nodes(heap) /\ sp[p] \in Str /\ l # <<>>
    BY <1>1, <1>5, <1>7 DEF Radix
  <2> QED
    BY <2>1, NodeTyped
<1> HIDE DEF l
<1>9. /\ d \in Nat /\ d \in 0..Len(l) /\ d \in 0..Len(k) /\ d >= 1 /\ d < Len(l) /\ Begins(u, k)
      /\ d < Len(l) /\ d < Len(k) => l[d + 1] # k[d + 1]
  BY <1>5, <1>8, MatchIs
<1> HIDE DEF d
<1>10. /\ u \in Str /\ Len(u) = d
       /\ Rest(l, d)[1] = l[d + 1]
       /\ left \in Str /\ Len(left) = Len(k) - d /\ \A j \in 1..Len(k) - d : left[j] = k[d + j]
  <2>1. 1 \in 1..Len(l) - d
    BY <1>9, <1>8, StrTyped
  <2> QED
    BY <1>5, <1>8, <1>9, <2>1, HeadIs, RestIs
<1>11. IsSplit(cut, heap, L, sp, p, n, d, map)
  <2>1. 1 <= d /\ d < Len(heap[n].label)
    BY <1>9 DEF l
  <2>2. n = heap[p].nodes[i]
    BY <1>7
  <2>3. IsSplit(Append([heap EXCEPT ![n] = Upper(heap[n], d, Len(heap) + 1)], Lower(heap[n], d)),
                heap, L, sp, p, n, d, map)
    BY <1>1, <1>9, <2>1, <2>2, Split
  <2> QED
    BY <1>4, <2>3
<1>12. PICK L2, sp2 : /\ Radix(cut, L2, sp2) /\ Held(cut, L2, sp2, map) /\ n \in L2
                      /\ Continues(sp2[n], sp[p], u)
                      /\ \A b \in L2 : b = n \/ \E b0 \in L : sp2[b] = sp[b0]
  BY <1>11 DEF IsSplit, l
<1>13. HeapTyped(cut) /\ cut[n].nodes = <<Len(heap) + 1>> /\ cut[Len(heap) + 1].label = Rest(l, d)
  BY <1>11 DEF IsSplit, l
<1> HIDE DEF left, u
<1>14. Continues(key, sp2[n], left)
  <2>1. sp2[n] \in Str
    BY <1>12 DEF Radix
  <2>2. Continues(key, sp2[n], Rest(k, Len(u)))
    BY <1>5, <1>6, <1>8, <1>9, <1>10, <1>12, <2>1, ContinuesOn
  <2> QED
    BY <1>10, <2>2 DEF left
<1> DEFINE h2 == Append([cut EXCEPT ![n].nodes = Append(@, Len(cut) + 1)], Leaf(left, v))
<1>15. ASSUME left # <<>> PROVE Standing(h2, With(map, key, v))
  <2>1. sp2[n] \in Str
    BY <1>12 DEF Radix
  <2>2. sp2[n] # key
    BY <1>10, <1>14, <1>15, <2>1, ContinuesFrom
  <2>3. \A b \in L2 : sp2[b] # key
    BY <1>2, <1>12, <2>2
  <2>4. d < Len(k) /\ 1 \in 1..Len(k) - d
    <3>1. Len(left) # 0
      BY <1>10, <1>15, EmptyStr
    <3>2. Len(k) \in Nat
      BY <1>5, StrTyped
    <3> QED
      BY <1>9, <1>10, <3>1, <3>2
  <2>5. left[1] = k[d + 1] /\ l[d + 1] # k[d + 1]
    BY <1>9, <1>10, <2>4
  <2>6. ASSUME NEW j \in 1..Len(cut[n].nodes) PROVE cut[cut[n].nodes[j]].label[1] # left[1]
    <3>1. Len(cut[n].nodes) = 1 /\ cut[n].nodes[1] = Len(heap) + 1
      BY <1>13
    <3>2. j \in 1..1
      BY <3>1
    <3>3. j = 1
      BY <3>2
    <3> QED
      BY <1>10, <1>13, <2>5, <3>1, <3>3
  <2>7. HeapTyped(cut) /\ Radix(cut, L2, sp2) /\ Held(cut, L2, sp2, map) /\ n \in L2 /\ left \in Str
    BY <1>10, <1>12, <1>13
  <2>8. \A j \in 1..Len(cut[n].nodes) : cut[cut[n].nodes[j]].label[1] # left[1]
    BY <2>6
  <2> QED
    BY <1>14, <1>15, <2>3, <2>7, <2>8, Grown
<1> QED
  BY <1>3, <1>15 DEF left, d, l, n, k, s, cut
\* The way to a key that is found: from child to child, to its end.
LEMMA PathIs ==
  ASSUME HeapTyped(heap), NEW key \in Str, key # <<>>, End(Start(key)).out = "found"
  PROVE  LET way == Way(Start(key))
             depth == Min({t \in 0..Len(key) : way[t].out # "on"})
         IN  /\ depth \in 1..Len(key) /\ way[depth] = End(Start(key))
             /\ \A t \in 0..depth : way[t].node \in Nodes(heap)
             /\ \A t \in 1..depth : \E i \in 1..Len(heap[way[t - 1].node].nodes) :
                                   heap[way[t - 1].node].nodes[i] = way[t].node
<1> DEFINE s == Start(key)
           N == Len(key)
           way == Way(s)
           T == {t \in 0..N : way[t].out # "on"}
           depth == Min(T)
<1>1. s \in Ways /\ s.key = key /\ s.out = "on" /\ N \in Nat
  BY StartIs
<1> HIDE DEF s
<1>2. /\ way[0] = s
      /\ \A t \in 1..N : way[t] = Onto(way[t - 1])
      /\ \A t \in 0..N : way[t] \in Ways
  BY <1>1, WayIs
<1>3. N \in T /\ T \subseteq Nat
  BY <1>1 DEF End, s
<1>4. depth \in T /\ \A t \in T : depth <= t
  <2> HIDE DEF T
  <2>1. \E x \in T : \A y \in T : x <= y
    BY <1>3, Least
  <2> QED
    BY <2>1 DEF Min
<1> HIDE DEF way, depth
<1>5. depth \in 1..N
  <2>1. 0 \notin T
    BY <1>1, <1>2
  <2> QED
    BY <1>1, <1>4, <2>1
<1>6. way[depth] = End(Start(key))
  <2>1. depth \in 0..Len(s.key) /\ Way(s)[depth].out # "on"
    BY <1>1, <1>4 DEF way
  <2> QED
    BY <1>1, <2>1, WayStays DEF way, s
<1>7. ASSUME NEW t \in 0..depth PROVE way[t].node \in Nodes(heap)
  <2>1. t \in 0..N
    BY <1>1, <1>5
  <2> QED
    BY <1>2, <2>1 DEF Ways
<1>8. ASSUME NEW t \in 1..depth
      PROVE  \E i \in 1..Len(heap[way[t - 1].node].nodes) : heap[way[t - 1].node].nodes[i] = way[t].node
  <2>1. t \in 1..N /\ t - 1 \in 0..N /\ t \in 0..N /\ ~ (depth <= t - 1)
    BY <1>1, <1>5
  <2>2. way[t - 1].out = "on" /\ way[t - 1] \in Ways /\ way[t] = Onto(way[t - 1])
    BY <1>2, <1>4, <2>1
  <2>3. way[t].out \notin {"stuck", "panic"}
    <3>1. CASE t = depth
      BY <1>6, <3>1
    <3>2. CASE t # depth
      <4>1. ~ (depth <= t)
        BY <1>1, <1>5, <3>2
      <4>2. way[t].out = "on"
        BY <1>4, <2>1, <4>1
      <4> QED
        BY <4>2
    <3> QED
      BY <3>1, <3>2
  <2> DEFINE a == way[t - 1]
             b == way[t]
             nodes == heap[a.node].nodes
             i == Seek(nodes, a.key[1], 1)
  <2> HIDE DEF a, b
  <2>4. a \in Ways /\ a.out = "on" /\ b = Onto(a) /\ b.out \notin {"stuck", "panic"}
    BY <2>2, <2>3 DEF a, b
  <2>5. i \in 1..Len(nodes) /\ b = Judged(nodes[i], a.key, a.key[1])
    BY <2>4, OntoIs
  <2> HIDE DEF i
  <2>6. b.node = nodes[i]
    BY <2>5 DEF Judged
  <2> QED
    BY <2>5, <2>6 DEF a, b
<1> QED
  BY <1>5, <1>6, <1>7, <1>8 DEF depth, way, s

IsPruned(h, way, depth) ==
  LET useless == {t \in 1..depth : Useless(h, way[t].node, way[t - 1].node)}
      top == Max(useless)
      prev == way[top - 1].node
      place == CHOOSE i \in DOMAIN h[prev].nodes : h[prev].nodes[i] = way[top].node
  IN  /\ HeapTyped(Prune(h, way, depth).heap)
      /\ useless = {} => Prune(h, way, depth) = [heap |-> h, odd |-> {}]
      /\ useless # {} =>
           /\ top \in useless /\ \A t \in useless : t <= top
           /\ place \in 1..Len(h[prev].nodes) /\ h[prev].nodes[place] = way[top].node
           /\ Prune(h, way, depth).heap = [h EXCEPT ![prev].nodes = RemoveAt(@, place)]
           /\ Prune(h, way, depth).odd = {} =>
                \A t \in top + 1..depth : h[way[t].node].value = None

LEMMA PrunedTyped ==
  ASSUME NEW h, HeapTyped(h), NEW way, NEW depth \in Nat,
         \A t \in 0..depth : way[t].node \in Nodes(h),
         \A t \in 1..depth : \E i \in 1..Len(h[way[t - 1].node].nodes) : h[way[t - 1].node].nodes[i] = way[t].node
  PROVE  IsPruned(h, way, depth)
<1> DEFINE useless == {t \in 1..depth : Useless(h, way[t].node, way[t - 1].node)}
           top == Max(useless)
           prev == way[top - 1].node
           place == CHOOSE i \in DOMAIN h[prev].nodes : h[prev].nodes[i] = way[top].node
           result == Prune(h, way, depth)
<1>1. result = IF useless = {} THEN [heap |-> h, odd |-> {}]
               ELSE [heap |-> [h EXCEPT ![prev].nodes = RemoveAt(@, place)],
                     odd |-> IF \E t \in top + 1..depth : h[way[t].node].value # None THEN {"pruned"} ELSE {}]
  BY DEF Prune
<1> HIDE DEF result
<1>2. CASE useless = {}
  <2>1. result = [heap |-> h, odd |-> {}]
    BY <1>1, <1>2
  <2>2. result.heap = h
    BY <2>1
  <2> QED
    BY <1>2, <2>1, <2>2, Zenon DEF result, IsPruned
<1>3. CASE useless # {}
  <2>1. top \in useless /\ \A t \in useless : t <= top
    <3>1. useless \subseteq Nat /\ \A t \in useless : t <= depth
      OBVIOUS
    <3> HIDE DEF useless
    <3>2. \E x \in useless : \A t \in useless : t <= x
      BY <1>3, <3>1, Greatest
    <3>3. \E x \in useless : \A t \in useless : x >= t
      BY <3>1, <3>2
    <3>4. top \in useless /\ \A t \in useless : top >= t
      BY <3>3 DEF Max
    <3> QED
      BY <3>1, <3>4
  <2>2. top \in 1..depth /\ top - 1 \in 0..depth
    BY <2>1
  <2> HIDE DEF top
  <2>3. prev \in Nodes(h)
    BY <2>2
  <2>4. DOMAIN h[prev].nodes = 1..Len(h[prev].nodes)
    BY <2>3, NodeTyped
  <2>5. \E i \in DOMAIN h[prev].nodes : h[prev].nodes[i] = way[top].node
    BY <2>2, <2>4
  <2>6. place \in 1..Len(h[prev].nodes) /\ h[prev].nodes[place] = way[top].node
    BY <2>4, <2>5
  <2> HIDE DEF prev, place
  <2>7. /\ result.heap = [h EXCEPT ![prev].nodes = RemoveAt(@, place)]
        /\ result.odd = IF \E t \in top + 1..depth : h[way[t].node].value # None THEN {"pruned"} ELSE {}
    BY <1>1, <1>3
  <2>8. HeapTyped(result.heap)
    <3>1. IsRemoved([h EXCEPT ![prev].nodes = RemoveAt(@, place)], h, prev, place)
      BY <2>3, <2>6, ChildRemoved
    <3> QED
      BY <2>7, <3>1 DEF IsRemoved
  <2> QED
    BY <1>3, <2>1, <2>6, <2>7, <2>8 DEF top, prev, place, result, IsPruned
<1> HIDE DEF useless
<1> QED
  BY <1>2, <1>3
\* A key is deleted from a tree that stands for a map.
LEMMA DeleteStands ==
  ASSUME HeapTyped(heap), Standing(heap, map), Typed(map), NEW key \in Str, key # <<>>,
         End(Start(key)).out = "found", heap[End(Start(key)).node].value # None
  PROVE  LET way == Way(Start(key))
             s == End(Start(key))
             cleared == [heap EXCEPT ![s.node].value = None]
             depth == Min({t \in 0..Len(key) : way[t].out # "on"})
         IN  /\ key \in DOMAIN map
             /\ Standing(cleared, Without(map, key))
             /\ heap[s.node].nodes = <<>> /\ Prune(cleared, way, depth).odd = {} =>
                  Standing(Prune(cleared, way, depth).heap, Without(map, key))
<1> DEFINE way == Way(Start(key))
           s == End(Start(key))
           n == s.node
           h == [heap EXCEPT ![n].value = None]
           depth == Min({t \in 0..Len(key) : way[t].out # "on"})
           m == Without(map, key)
           result == Prune(h, way, depth)
<1>1. PICK L, sp : Radix(heap, L, sp) /\ Held(heap, L, sp, map)
  BY DEF Standing
<1>2. At(s, L, sp, key) /\ s.out = "found"
  BY <1>1, EndAt
<1>3. \A t \in 0..Len(key) : At(way[t], L, sp, key)
  BY <1>1, WayAt
<1>4. /\ depth \in 1..Len(key) /\ way[depth] = s
      /\ \A t \in 0..depth : way[t].node \in Nodes(heap)
      /\ \A t \in 1..depth : \E i \in 1..Len(heap[way[t - 1].node].nodes) :
                            heap[way[t - 1].node].nodes[i] = way[t].node
  BY PathIs
<1>5. Len(key) \in Nat
  BY StrTyped
<1>a. heap[n].value # None
  OBVIOUS
<1> HIDE DEF way, s, depth
<1>6. n \in L /\ sp[n] = key /\ n \in Nodes(heap)
  BY <1>1, <1>2 DEF At, Radix
<1>7. key \in DOMAIN map
  BY <1>1, <1>6, <1>a DEF Held
<1>8. HeapTyped(h) /\ Radix(h, L, sp) /\ Held(h, L, sp, m)
  <2> HIDE DEF n
  <2> QED
    BY <1>1, <1>6, Valued
<1>9. /\ Nodes(h) = Nodes(heap)
      /\ \A b \in Nodes(heap) : h[b].nodes = heap[b].nodes
      /\ h[n].value = None
  <2> HIDE DEF n
  <2>1. IsValued(h, heap, n, None)
    BY <1>6, ValueSet
  <2> QED
    BY <1>6, <2>1 DEF IsValued
<1>10. Typed(m)
  BY FS_RemoveElement DEF Typed, Without
<1> HIDE DEF h, m, result, n
<1>11. \A t \in 0..depth : way[t].node \in L /\ way[t].node \in Nodes(h)
  <2>1. \A t \in 0..depth : t \in 0..Len(key)
    BY <1>4, <1>5
  <2> QED
    BY <1>3, <1>4, <1>9, <2>1 DEF At
<1>12. ASSUME NEW t \in 1..depth
       PROVE  \E i \in 1..Len(h[way[t - 1].node].nodes) : h[way[t - 1].node].nodes[i] = way[t].node
  <2>1. t - 1 \in 0..depth
    BY <1>4, <1>5
  <2> QED
    BY <1>4, <1>9, <2>1
<1>13. IsPruned(h, way, depth)
  BY <1>4, <1>8, <1>11, <1>12, PrunedTyped
<1>14. ASSUME heap[n].nodes = <<>>, result.odd = {} PROVE Standing(result.heap, m)
  <2> DEFINE useless == {t \in 1..depth : Useless(h, way[t].node, way[t - 1].node)}
             top == Max(useless)
             prev == way[top - 1].node
             place == CHOOSE i \in DOMAIN h[prev].nodes : h[prev].nodes[i] = way[top].node
  <2>1. CASE useless = {}
    <3>1. result = [heap |-> h, odd |-> {}]
      BY <1>13, <2>1 DEF IsPruned, result
    <3>2. result.heap = h
      BY <3>1
    <3> QED
      BY <1>8, <3>2 DEF Standing
  <2>2. CASE useless # {}
    <3>1. /\ top \in useless /\ \A t \in useless : t <= top
          /\ place \in 1..Len(h[prev].nodes) /\ h[prev].nodes[place] = way[top].node
          /\ result.heap = [h EXCEPT ![prev].nodes = RemoveAt(@, place)]
          /\ \A t \in top + 1..depth : h[way[t].node].value = None
      BY <1>13, <1>14, <2>2 DEF IsPruned, result
    <3>2. top \in 1..depth /\ top - 1 \in 0..depth /\ h[way[top].node].value = None
      <4> HIDE DEF top, prev, place
      <4>1. top \in 1..depth /\ Useless(h, way[top].node, way[top - 1].node)
        BY <3>1
      <4>2. top - 1 \in 0..depth
        BY <1>4, <4>1
      <4> QED
        BY <4>1, <4>2 DEF Useless
    <3>3. ASSUME NEW t \in top + 1..depth PROVE Len(h[way[t - 1].node].nodes) = 1
      <4>1. t \in 1..depth /\ ~ (t <= top)
        BY <1>4, <1>5, <3>2
      <4>2. ~ Useless(h, way[t].node, way[t - 1].node)
        BY <3>1, <4>1
      <4>3. h[way[t].node].value = None
        BY <3>1
      <4> QED
        BY <4>2, <4>3 DEF Useless
    <3> HIDE DEF top, prev, place, useless
    \* Below the top the way is all there is.
    <3> DEFINE Only(t) == \A b \in L : Begins(sp[way[t].node], sp[b]) => \E u \in t..depth : b = way[u].node
               T == {d \in 0..depth - top : Only(depth - d)}
    <3>4. 0 \in T
      <4>1. way[depth].node = n /\ depth - 0 = depth /\ depth \in depth..depth /\ 0 \in 0..depth - top
        BY <1>4, <3>2 DEF n
      <4>2. h[n].nodes = <<>> /\ Len(<<>>) = 0
        BY <1>6, <1>9, <1>14
      <4>3. \A b \in L : Begins(sp[n], sp[b]) => b = n
        BY <1>6, <1>8, <4>2 DEF Radix
      <4> QED
        BY <4>1, <4>3
    <3>5. ASSUME NEW d \in 0..((depth - top) - 1), d \in T PROVE d + 1 \in T
      <4> DEFINE t == depth - (d + 1)
                 a == way[t].node
                 c == way[t + 1].node
      <4>1. /\ t + 1 = depth - d /\ t + 1 \in top + 1..depth /\ t + 1 \in 1..depth /\ (t + 1) - 1 = t /\ t \in 0..depth
            /\ d + 1 \in 0..depth - top /\ t \in t..depth /\ \A u \in t + 1..depth : u \in t..depth
        BY <1>4, <3>2
      <4>2. Only(t + 1)
        BY <3>5, <4>1
      <4>3. a \in L /\ Len(h[a].nodes) = 1
        BY <1>11, <3>3, <4>1
      <4>4. h[a].nodes[1] = c
        <5>1. PICK i \in 1..Len(h[a].nodes) : h[a].nodes[i] = c
          BY <1>12, <4>1
        <5>2. i \in 1..1
          BY <4>3, <5>1
        <5>3. i = 1
          BY <5>2
        <5> QED
          BY <5>1, <5>3
      <4> HIDE DEF a, c
      <4>5. ASSUME NEW b \in L, Begins(sp[a], sp[b]), b # a PROVE \E u \in t + 1..depth : b = way[u].node
        <5>1. PICK i \in 1..Len(h[a].nodes) : Begins(sp[h[a].nodes[i]], sp[b])
          BY <1>8, <4>3, <4>5 DEF Radix
        <5>2. i \in 1..1
          BY <4>3, <5>1
        <5>3. i = 1
          BY <5>2
        <5>4. Begins(sp[way[t + 1].node], sp[b])
          BY <4>4, <5>1, <5>3 DEF c
        <5> HIDE DEF t
        <5> QED
          BY <4>2, <5>4
      <4> HIDE DEF t
      <4>6. Only(t)
        BY <4>1, <4>5 DEF a
      <4> QED
        BY <4>1, <4>6 DEF t
    <3>6. Only(top)
      <4>1. depth - top \in Nat /\ depth - top \in 0..depth - top /\ depth - (depth - top) = top
        BY <1>4, <3>2
      <4> HIDE DEF T
      <4>2. 0..depth - top \subseteq T
        BY <3>4, <3>5, <4>1, InductTo
      <4>3. depth - top \in T
        BY <4>1, <4>2
      <4> QED
        BY <4>1, <4>3 DEF T
    <3>7. ASSUME NEW b \in L, Begins(sp[way[top].node], sp[b]) PROVE h[b].value = None
      <4>1. PICK u \in top..depth : b = way[u].node
        BY <3>6, <3>7
      <4>2. CASE u = top
        BY <3>2, <4>1, <4>2
      <4>3. CASE u # top
        <5>1. u \in top + 1..depth
          BY <3>2, <4>3
        <5> QED
          BY <3>1, <4>1, <5>1
      <4> QED
        BY <4>2, <4>3
    <3> HIDE DEF Only
    <3>8. prev \in L
      BY <1>11, <3>2 DEF prev
    <3> DEFINE node == way[top].node
    <3>9. node = h[prev].nodes[place] /\ \A b \in L : Begins(sp[node], sp[b]) => h[b].value = None
      BY <3>1, <3>7
    <3> HIDE DEF node
    <3> DEFINE h2 == [h EXCEPT ![prev].nodes = RemoveAt(@, place)]
    <3>10. Standing(h2, m)
      <4>1. place \in 1..Len(h[prev].nodes)
        BY <3>1
      <4>2. HeapTyped(h) /\ Radix(h, L, sp) /\ Held(h, L, sp, m)
        BY <1>8
      <4> QED
        BY <1>10, <3>8, <3>9, <4>1, <4>2, Pruned
    <3> QED
      BY <3>1, <3>10
  <2> HIDE DEF useless
  <2> QED
    BY <2>1, <2>2
<1>15. Standing(h, m)
  BY <1>8 DEF Standing
<1> QED
  BY <1>7, <1>14, <1>15 DEF way, s, n, h, depth, m, result
----------------------------------------------------------------------------
(* The invariant *)

AstrayTyped ==
  \/ astray = <<>>
  \/ /\ astray \in [child : Nat, left : Str, char : 0..255, key : Keys, value : Values]
     /\ astray.child \in 1..Len(heap[Root].nodes)

\* Any tree is well formed; one that never left the way of a radix tree stands for the map.
TreeInv ==
  /\ HeapTyped(heap) /\ AstrayTyped /\ Typed(map)
  /\ mishaps = {} => /\ astray = <<>> /\ ~ panicked /\ Standing(heap, map)
                     /\ treeSize = Cardinality(DOMAIN map)

LEMMA KeyIs ==
  ASSUME NEW key \in Keys
  PROVE  key \in Str /\ key # <<>>
BY TreeAssumption DEF Str

LEMMA WithTyped ==
  ASSUME NEW m, Typed(m), NEW key \in Keys, NEW v \in Values
  PROVE  Typed(With(m, key, v)) /\ DOMAIN With(m, key, v) = DOMAIN m \cup {key}
BY FS_AddElement DEF Typed, With

LEMMA WithoutTyped ==
  ASSUME NEW m, Typed(m), NEW key
  PROVE  Typed(Without(m, key)) /\ DOMAIN Without(m, key) = DOMAIN m \ {key}
BY FS_RemoveElement DEF Typed, Without

LEMMA RootSought ==
  ASSUME HeapTyped(heap), NEW char, NEW from \in Nat, from >= 1
  PROVE  Seek(heap[Root].nodes, char, from) \in {Panic, 0} \cup 1..Len(heap[Root].nodes)
<1> DEFINE nodes == heap[Root].nodes
           i == Seek(nodes, char, from)
<1>1. Sought(i, nodes, char, from)
  BY SeekIs
<1>2. Len(nodes) \in Nat
  BY NodeTyped DEF HeapTyped
<1> HIDE DEF i, nodes
<1>3. i \in {Panic, 0} \cup from..Len(nodes)
  BY <1>1 DEF Sought
<1>4. from..Len(nodes) \subseteq 1..Len(nodes)
  BY <1>2
<1> QED
  BY <1>3, <1>4 DEF i, nodes

\* The end of an Insert leaves a well-formed heap, and says so when it goes astray.
LEMMA SettleTyped ==
  ASSUME HeapTyped(heap), AstrayTyped, Typed(map), NEW s \in Ways, s.out # "on", NEW key \in Keys,
         NEW v \in Values, NEW from, s.out # "panic" => from \in Nat /\ from >= 1, Settle(s, from, key, v)
  PROVE  HeapTyped(heap') /\ AstrayTyped' /\ Typed(map') /\ (mishaps' = {} => mishaps = {})
<1> DEFINE n == heap[s.node]
           apart == s.out = "apart"
           cut == IF apart THEN Cut(s) ELSE heap
           left == IF apart THEN Rest(s.key, Match(s.key, n.label)) ELSE s.key
           j == Seek(heap[Root].nodes, s.char, from)
<1>1. s.node \in Nodes(heap) /\ s.char \in 0..255 /\ s.key \in Str
  BY DEF Ways
<1>2. HeapTyped(cut) /\ cut[Root].nodes = heap[Root].nodes /\ s.node \in Nodes(cut) /\ left \in Str
  <2>1. CASE apart
    <3>1. HeapTyped(Cut(s)) /\ Nodes(Cut(s)) = Nodes(heap) \cup {Len(heap) + 1}
      BY <2>1, CutIs DEF IsExtended
    <3>2. Cut(s)[Root] = heap[Root] /\ Rest(s.key, Match(s.key, n.label)) \in Str
      BY <2>1, CutIs
    <3>3. cut = Cut(s) /\ left = Rest(s.key, Match(s.key, n.label))
      BY <2>1
    <3> HIDE DEF cut, left
    <3> QED
      BY <1>1, <3>1, <3>2, <3>3
  <2>2. CASE ~ apart
    <3>1. cut = heap /\ left = s.key
      BY <2>2
    <3> QED
      BY <1>1, <3>1
  <2> QED
    BY <2>1, <2>2
<1>3. \/ /\ s.out = "found"
         /\ heap' = [heap EXCEPT ![s.node].value = v]
         /\ map' = With(map, key, v)
         /\ astray' = <<>>
         /\ mishaps' = mishaps
      \/ heap' = cut /\ map' = map /\ mishaps' = mishaps /\ astray' = astray
      \/ /\ s.out \in {"stuck", "apart"} /\ j > 0
         /\ heap' = cut
         /\ astray' = [child |-> j, left |-> left, char |-> s.char, key |-> key, value |-> v]
         /\ mishaps' = mishaps \cup {"stray"}
         /\ map' = map
      \/ /\ heap' = Append([cut EXCEPT ![s.node].nodes = Append(@, Len(cut) + 1)], Leaf(left, v))
         /\ map' = With(map, key, v)
         /\ mishaps' = mishaps \cup IF left = <<>> THEN {"empty"} ELSE {}
         /\ astray' = <<>>
  BY DEF Settle, With
<1> HIDE DEF cut, left, j, apart
<1>4. CASE /\ heap' = [heap EXCEPT ![s.node].value = v]
           /\ map' = With(map, key, v)
           /\ astray' = <<>>
           /\ mishaps' = mishaps
  <2>1. HeapTyped(heap')
    <3> DEFINE a == s.node
    <3>1. a \in Nodes(heap)
      BY <1>1
    <3> HIDE DEF a
    <3>2. IsValued([heap EXCEPT ![a].value = v], heap, a, v)
      BY <3>1, ValueSet
    <3>3. heap' = [heap EXCEPT ![a].value = v]
      BY <1>4 DEF a
    <3> QED
      BY <3>2, <3>3 DEF IsValued
  <2>2. Typed(map')
    BY <1>4, WithTyped
  <2>3. AstrayTyped'
    BY <1>4 DEF AstrayTyped
  <2>4. mishaps' = {} => mishaps = {}
    BY <1>4
  <2> QED
    BY <2>1, <2>2, <2>3, <2>4
<1>5. CASE heap' = cut /\ map' = map /\ mishaps' = mishaps /\ astray' = astray
  BY <1>2, <1>5 DEF AstrayTyped
<1>6. CASE /\ s.out \in {"stuck", "apart"} /\ j > 0
           /\ heap' = cut
           /\ astray' = [child |-> j, left |-> left, char |-> s.char, key |-> key, value |-> v]
           /\ mishaps' = mishaps \cup {"stray"}
           /\ map' = map
  <2>1. j \in {Panic, 0} \cup 1..Len(heap[Root].nodes)
    <3>1. from \in Nat /\ from >= 1
      BY <1>6
    <3> QED
      BY <3>1, RootSought DEF j
  <2>2. j \in 1..Len(heap[Root].nodes) /\ j \in Nat
    BY <1>6, <2>1 DEF Panic
  <2>3. AstrayTyped'
    BY <1>1, <1>2, <1>6, <2>2 DEF AstrayTyped
  <2> QED
    BY <1>2, <1>6, <2>3
<1>7. CASE /\ heap' = Append([cut EXCEPT ![s.node].nodes = Append(@, Len(cut) + 1)], Leaf(left, v))
           /\ map' = With(map, key, v)
           /\ mishaps' = mishaps \cup IF left = <<>> THEN {"empty"} ELSE {}
           /\ astray' = <<>>
  <2>1. HeapTyped(heap')
    <3> DEFINE a == s.node
    <3>1. a \in Nodes(cut)
      BY <1>2
    <3> HIDE DEF a
    <3>2. IsGrown(Append([cut EXCEPT ![a].nodes = Append(@, Len(cut) + 1)], Leaf(left, v)), cut, a, left, v)
      BY <1>2, <3>1, LeafAdded
    <3>3. heap' = Append([cut EXCEPT ![a].nodes = Append(@, Len(cut) + 1)], Leaf(left, v))
      BY <1>7 DEF a
    <3> QED
      BY <3>2, <3>3 DEF IsGrown
  <2>2. Typed(map')
    BY <1>7, WithTyped
  <2>3. AstrayTyped'
    BY <1>7 DEF AstrayTyped
  <2>4. mishaps' = {} => mishaps = {}
    BY <1>7
  <2> QED
    BY <2>1, <2>2, <2>3, <2>4
<1> QED
  BY <1>3, <1>4, <1>5, <1>6, <1>7

\* An Insert that keeps to the way of a radix tree.
LEMMA InsertStands ==
  ASSUME TreeInv, NEW key \in Keys, NEW v \in Values, Insert(key, v), mishaps' = {}, mishaps = {}, ~ panicked
  PROVE  astray' = <<>> /\ ~ panicked' /\ Standing(heap', map') /\ treeSize' = Cardinality(DOMAIN map')
<1> DEFINE s == End(Start(key))
           from == Seek(heap[Root].nodes, key[1], 1) + 1
           n == heap[s.node]
           apart == s.out = "apart"
           cut == IF apart THEN Cut(s) ELSE heap
           left == IF apart THEN Rest(s.key, Match(s.key, n.label)) ELSE s.key
           j == Seek(heap[Root].nodes, s.char, from)
<1>1. HeapTyped(heap) /\ Typed(map) /\ Standing(heap, map) /\ treeSize = Cardinality(DOMAIN map) /\ key \in Str /\ key # <<>>
  BY KeyIs DEF TreeInv
<1>2. PICK L, sp : Radix(heap, L, sp)
  BY <1>1 DEF Standing
<1>3. s \in Ways /\ s.out \in {"found", "stuck", "apart"}
  BY <1>1, <1>2, EndAt
<1>4. IsFiniteSet(DOMAIN map) /\ Cardinality(DOMAIN map) \in Nat
  BY <1>1, FS_CardinalityType DEF Typed
<1>5. j # Panic
  <2>1. from \in Nat /\ from >= 1
    <3> DEFINE i == Seek(heap[Root].nodes, key[1], 1)
    <3>1. Sought(i, heap[Root].nodes, key[1], 1)
      BY SeekIs
    <3>2. Len(heap[Root].nodes) \in Nat
      BY <1>1, NodeTyped DEF HeapTyped
    <3> HIDE DEF i
    <3>3. i # Panic
      BY <1>2, <3>1 DEF Sought, Radix
    <3>4. i \in Nat
      BY <3>1, <3>2, <3>3 DEF Sought
    <3> QED
      BY <3>4 DEF i
  <2> HIDE DEF from, s
  <2>2. Sought(j, heap[Root].nodes, s.char, from)
    BY <2>1, SeekIs
  <2> HIDE DEF j
  <2>3. Len(heap[Root].nodes) \in Nat /\ \A i \in from..Len(heap[Root].nodes) : i \in 1..Len(heap[Root].nodes)
    BY <1>1, <2>1, NodeTyped DEF HeapTyped
  <2>4. \A i \in 1..Len(heap[Root].nodes) : heap[heap[Root].nodes[i]].label # <<>>
    BY <1>2 DEF Radix
  <2> QED
    BY <2>2, <2>3, <2>4 DEF Sought
<1>6. \/ /\ s.out = "found"
         /\ heap' = [heap EXCEPT ![s.node].value = v]
         /\ treeSize' = IF n.value = None THEN treeSize + 1 ELSE treeSize
         /\ map' = With(map, key, v)
         /\ astray' = <<>>
         /\ panicked' = panicked
      \/ s.out = "panic" \/ j = Panic
      \/ mishaps' = mishaps \cup {"stray"}
      \/ /\ s.out \in {"stuck", "apart"}
         /\ heap' = Append([cut EXCEPT ![s.node].nodes = Append(@, Len(cut) + 1)], Leaf(left, v))
         /\ treeSize' = treeSize + 1
         /\ map' = With(map, key, v)
         /\ mishaps' = mishaps \cup IF left = <<>> THEN {"empty"} ELSE {}
         /\ astray' = <<>>
         /\ panicked' = panicked
  BY DEF Insert, Settle, With
<1>7. DOMAIN With(map, key, v) = DOMAIN map \cup {key}
  BY DEF With
<1>8. /\ Cardinality(DOMAIN map \cup {key}) = IF key \in DOMAIN map THEN Cardinality(DOMAIN map)
                                              ELSE Cardinality(DOMAIN map) + 1
  BY <1>4, FS_AddElement
<1>9. CASE /\ s.out = "found"
           /\ heap' = [heap EXCEPT ![s.node].value = v]
           /\ treeSize' = IF n.value = None THEN treeSize + 1 ELSE treeSize
           /\ map' = With(map, key, v)
           /\ astray' = <<>>
           /\ panicked' = panicked
  <2>1. Standing([heap EXCEPT ![s.node].value = v], With(map, key, v)) /\ (n.value = None <=> key \notin DOMAIN map)
    BY <1>1, <1>9, FoundStands
  <2> HIDE DEF s, n
  <2> QED
    BY <1>1, <1>7, <1>8, <1>9, <2>1
<1>10. CASE /\ s.out = "stuck"
            /\ heap' = Append([cut EXCEPT ![s.node].nodes = Append(@, Len(cut) + 1)], Leaf(left, v))
            /\ treeSize' = treeSize + 1
            /\ map' = With(map, key, v)
            /\ astray' = <<>>
            /\ panicked' = panicked
  <2>1. cut = heap /\ left = s.key
    BY <1>10
  <2>2. /\ key \notin DOMAIN map
        /\ Standing(Append([heap EXCEPT ![s.node].nodes = Append(@, Len(heap) + 1)], Leaf(s.key, v)), With(map, key, v))
    BY <1>1, <1>10, StuckStands
  <2> HIDE DEF s, cut, left
  <2> QED
    BY <1>1, <1>7, <1>8, <1>10, <2>1, <2>2
<1>11. CASE /\ s.out = "apart" /\ left # <<>>
            /\ heap' = Append([cut EXCEPT ![s.node].nodes = Append(@, Len(cut) + 1)], Leaf(left, v))
            /\ treeSize' = treeSize + 1
            /\ map' = With(map, key, v)
            /\ astray' = <<>>
            /\ panicked' = panicked
  <2> DEFINE rest == Rest(s.key, Match(s.key, n.label))
             after == Cut(s)
  <2>1. cut = after /\ left = rest
    BY <1>11
  <2>2. /\ key \notin DOMAIN map
        /\ rest # <<>> =>
             Standing(Append([after EXCEPT ![s.node].nodes = Append(@, Len(after) + 1)], Leaf(rest, v)), With(map, key, v))
    BY <1>1, <1>11, ApartStands
  <2> HIDE DEF s, cut, left, rest, after
  <2> QED
    BY <1>1, <1>7, <1>8, <1>11, <2>1, <2>2
<1>12. (mishaps' = mishaps \cup IF left = <<>> THEN {"empty"} ELSE {}) => left # <<>>
  OBVIOUS
<1> HIDE DEF s, j, cut, left, n, apart
<1> QED
  BY <1>3, <1>5, <1>6, <1>9, <1>10, <1>11, <1>12
\* The way to what a call looks for ends.
LEMMA EndIs ==
  ASSUME HeapTyped(heap), NEW key \in Str, key # <<>>
  PROVE  /\ End(Start(key)) \in Ways /\ End(Start(key)).out # "on"
         /\ End(Start(key)).out # "panic" =>
              /\ Seek(heap[Root].nodes, key[1], 1) + 1 \in Nat /\ Seek(heap[Root].nodes, key[1], 1) + 1 >= 1
<1> DEFINE s == Start(key)
           i == Seek(heap[Root].nodes, key[1], 1)
<1>1. s \in Ways /\ s.key = key /\ s.node = Root /\ s.out = "on" /\ Len(key) \in Nat /\ Len(key) > 0
  BY StartIs
<1> HIDE DEF s
<1>2. End(s) \in Ways /\ End(s).out # "on"
  BY <1>1, WayEnds
<1>3. ASSUME End(s).out # "panic" PROVE i + 1 \in Nat /\ i + 1 >= 1
  <2>1. 1 \in 1..Len(s.key) /\ 1 \in 0..Len(s.key) /\ 1 - 1 = 0
    BY <1>1
  <2>2. Way(s)[0] = s /\ Way(s)[1] = Onto(Way(s)[1 - 1])
    BY <1>1, <2>1, WayIs
  <2>3. Way(s)[1] = Onto(s)
    BY <2>1, <2>2
  <2>4. i # Panic
    <3>1. CASE Onto(s).out = "panic"
      <4>1. Way(s)[1].out # "on"
        BY <2>3, <3>1
      <4>2. End(s) = Way(s)[1]
        BY <1>1, <2>1, <4>1, WayStays
      <4> QED
        BY <1>3, <2>3, <3>1, <4>2
    <3>2. CASE Onto(s).out # "panic"
      <4>1. i = Seek(heap[s.node].nodes, s.key[1], 1)
        BY <1>1
      <4> HIDE DEF i
      <4>2. i = Panic => Onto(s) = [s EXCEPT !.out = "panic"]
        BY <1>1, <4>1 DEF Onto
      <4>3. [s EXCEPT !.out = "panic"].out = "panic"
        BY <1>1 DEF Ways
      <4> QED
        BY <3>2, <4>2, <4>3
    <3> QED
      BY <3>1, <3>2
  <2>5. i \in {Panic, 0} \cup 1..Len(heap[Root].nodes)
    BY RootSought
  <2>6. Len(heap[Root].nodes) \in Nat
    BY NodeTyped DEF HeapTyped
  <2> HIDE DEF i
  <2> QED
    BY <2>4, <2>5, <2>6
<1> QED
  BY <1>2, <1>3 DEF s

LEMMA DeleteTyped ==
  ASSUME TreeInv, NEW key \in Keys, TreeDelete(key)
  PROVE  /\ HeapTyped(heap') /\ AstrayTyped' /\ Typed(map')
         /\ mishaps' = {} => /\ astray' = <<>> /\ ~ panicked' /\ Standing(heap', map')
                             /\ treeSize' = Cardinality(DOMAIN map')
<1> DEFINE way == Way(Start(key))
           s == End(Start(key))
           n == heap[s.node]
           cleared == [heap EXCEPT ![s.node].value = None]
           depth == Min({t \in 0..Len(key) : way[t].out # "on"})
           done == IF n.nodes = <<>> THEN Prune(cleared, way, depth) ELSE [heap |-> cleared, odd |-> {}]
<1>1. HeapTyped(heap) /\ Typed(map) /\ key \in Str /\ key # <<>>
  BY KeyIs DEF TreeInv
<1>2. s \in Ways /\ s.node \in Nodes(heap)
  BY <1>1, EndIs DEF Ways
<1>3. /\ astray = <<>> /\ astray' = <<>>
      /\ map' = Without(map, key)
      /\ panicked' = (s.out = "panic")
      /\ IF s.out = "found" /\ n.value # None
         THEN heap' = done.heap /\ treeSize' = treeSize - 1 /\ mishaps' = mishaps \cup done.odd
         ELSE heap' = heap /\ treeSize' = treeSize /\ mishaps' = mishaps
  BY DEF TreeDelete, Without
<1>4. Typed(map') /\ DOMAIN map' = DOMAIN map \ {key}
  BY <1>1, <1>3, WithoutTyped
<1>5. AstrayTyped'
  BY <1>3 DEF AstrayTyped
<1>6. CASE s.out = "found" /\ n.value # None
  <2>1. heap' = done.heap /\ treeSize' = treeSize - 1 /\ mishaps' = mishaps \cup done.odd
    BY <1>3, <1>6
  <2>2. HeapTyped(cleared) /\ Nodes(cleared) = Nodes(heap) /\ \A b \in Nodes(heap) : cleared[b].nodes = heap[b].nodes
    <3> DEFINE a == s.node
    <3>1. a \in Nodes(heap)
      BY <1>2
    <3> HIDE DEF a
    <3>2. IsValued([heap EXCEPT ![a].value = None], heap, a, None)
      BY <1>1, <3>1, ValueSet
    <3> QED
      BY <3>2 DEF IsValued, a
  <2>3. HeapTyped(Prune(cleared, way, depth).heap)
    <3>1. /\ depth \in 1..Len(key)
          /\ \A t \in 0..depth : way[t].node \in Nodes(heap)
          /\ \A t \in 1..depth : \E i \in 1..Len(heap[way[t - 1].node].nodes) :
                                heap[way[t - 1].node].nodes[i] = way[t].node
      BY <1>1, <1>6, PathIs
    <3>2. Len(key) \in Nat
      BY <1>1, StrTyped
    <3> HIDE DEF cleared, way, depth
    <3>3. \A t \in 0..depth : way[t].node \in Nodes(cleared)
      BY <2>2, <3>1
    <3>4. ASSUME NEW t \in 1..depth
          PROVE  \E i \in 1..Len(cleared[way[t - 1].node].nodes) : cleared[way[t - 1].node].nodes[i] = way[t].node
      <4>1. t - 1 \in 0..depth
        BY <3>1, <3>2
      <4> QED
        BY <2>2, <3>1, <4>1
    <3>5. depth \in Nat
      BY <3>1, <3>2
    <3>6. HeapTyped(cleared)
      BY <2>2
    <3>7. IsPruned(cleared, way, depth)
      BY <3>3, <3>4, <3>5, <3>6, PrunedTyped
    <3> QED
      BY <3>7 DEF IsPruned
  <2>4. \/ heap' = cleared
        \/ n.nodes = <<>> /\ heap' = Prune(cleared, way, depth).heap /\ done = Prune(cleared, way, depth)
    <3> HIDE DEF cleared, way, depth, n
    <3> QED
      BY <2>1
  <2>5. HeapTyped(heap')
    <3> HIDE DEF cleared, way, depth, n, done
    <3> QED
      BY <2>2, <2>3, <2>4
  <2>6. ASSUME mishaps' = {}
        PROVE  ~ panicked' /\ Standing(heap', map') /\ treeSize' = Cardinality(DOMAIN map')
    <3>1. mishaps = {} /\ done.odd = {}
      BY <2>1, <2>6
    <3>2. Standing(heap, map) /\ treeSize = Cardinality(DOMAIN map)
      BY <3>1 DEF TreeInv
    <3>3. /\ key \in DOMAIN map
          /\ Standing(cleared, Without(map, key))
          /\ n.nodes = <<>> /\ Prune(cleared, way, depth).odd = {} =>
               Standing(Prune(cleared, way, depth).heap, Without(map, key))
      BY <1>1, <1>6, <3>2, DeleteStands
    <3>4. treeSize' = Cardinality(DOMAIN map')
      BY <1>1, <1>4, <2>1, <3>2, <3>3, FS_RemoveElement DEF Typed
    <3>5. ~ panicked'
      BY <1>3, <1>6
    <3> HIDE DEF cleared, way, depth, n, done
    <3>6. Standing(heap', map')
      BY <1>3, <2>4, <3>1, <3>3
    <3> QED
      BY <3>4, <3>5, <3>6
  <2> QED
    BY <1>3, <1>4, <1>5, <2>5, <2>6
<1>7. CASE ~ (s.out = "found" /\ n.value # None)
  <2>1. heap' = heap /\ treeSize' = treeSize /\ mishaps' = mishaps
    BY <1>3, <1>7
  <2>2. ASSUME mishaps' = {}
        PROVE  ~ panicked' /\ Standing(heap', map') /\ treeSize' = Cardinality(DOMAIN map')
    <3>1. Standing(heap, map) /\ treeSize = Cardinality(DOMAIN map)
      BY <2>1, <2>2 DEF TreeInv
    <3>2. PICK L, sp : Radix(heap, L, sp) /\ Held(heap, L, sp, map)
      BY <3>1 DEF Standing
    <3>3. At(s, L, sp, key) /\ s.out \in {"found", "stuck", "apart"}
      BY <1>1, <3>2, EndAt
    <3>4. key \notin DOMAIN map
      <4>1. CASE s.out = "found"
        <5>1. s.node \in L /\ sp[s.node] = key
          BY <3>3, <4>1 DEF At
        <5>2. heap[s.node].value = None
          BY <1>7, <4>1
        <5> QED
          BY <1>1, <3>2, <5>1, <5>2, TreeAssumption DEF Held, Typed
      <4>2. CASE s.out # "found"
        BY <1>1, <3>2, <4>2, NotFound DEF Held
      <4> QED
        BY <4>1, <4>2
    <3>5. Held(heap, L, sp, Without(map, key))
      BY <3>2, <3>4 DEF Held, Without
    <3>6. Standing(heap', map')
      BY <1>3, <2>1, <3>2, <3>5 DEF Standing
    <3>7. ~ panicked'
      BY <1>3, <3>3
    <3>8. DOMAIN map' = DOMAIN map
      BY <1>4, <3>4
    <3> QED
      BY <2>1, <3>1, <3>6, <3>7, <3>8
  <2> QED
    BY <1>1, <1>3, <1>4, <1>5, <2>1, <2>2
<1> QED
  BY <1>6, <1>7

LEMMA TreeInitInv == TreeInit => TreeInv
<1> SUFFICES ASSUME TreeInit PROVE TreeInv
  OBVIOUS
<1> DEFINE sp == [b \in {Root} |-> <<>>]
           none == [k \in {} |-> None]
<1>0. <<>> \in Str /\ Len(<<>>) = 0 /\ <<>> \in Seq(Nat)
  BY EmptySeq DEF Str
<1>1. heap = <<Leaf(<<>>, None)>> /\ treeSize = 0 /\ panicked = FALSE /\ map = none /\ mishaps = {} /\ astray = <<>>
  BY DEF TreeInit
<1>2. Leaf(<<>>, None) \in Node
  BY <1>0 DEF Leaf, Node
<1>3. heap \in Seq(Node) /\ Len(heap) = 1 /\ heap[1] = Leaf(<<>>, None)
  BY <1>1, <1>2
<1>4. Nodes(heap) = {Root}
  BY <1>3 DEF Nodes, Root
<1>5. heap[Root].nodes = <<>> /\ heap[Root].value = None
  BY <1>3 DEF Root, Leaf
<1>6. HeapTyped(heap)
  BY <1>0, <1>3, <1>4, <1>5 DEF HeapTyped, Node
<1>7. DOMAIN map = {} /\ Typed(map) /\ treeSize = Cardinality(DOMAIN map)
  BY <1>1, FS_EmptySet DEF Typed
<1>8. Radix(heap, {Root}, sp)
  <2>1. sp \in [{Root} -> Str] /\ sp[Root] = <<>>
    BY <1>0
  <2> HIDE DEF sp
  <2>2. \A n \in {Root} : Len(heap[n].nodes) = 0
    BY <1>0, <1>5
  <2> QED
    BY <1>4, <2>1, <2>2 DEF Radix
<1>9. Held(heap, {Root}, sp, map)
  BY <1>5, <1>7 DEF Held
<1> QED
  BY <1>1, <1>6, <1>7, <1>8, <1>9 DEF TreeInv, AstrayTyped, Standing

LEMMA TreeStep == TreeInv /\ [TreeNext]_treeVars => TreeInv'
<1> SUFFICES ASSUME TreeInv, [TreeNext]_treeVars PROVE TreeInv'
  OBVIOUS
<1>1. HeapTyped(heap) /\ AstrayTyped /\ Typed(map)
  BY DEF TreeInv
<1>2. ASSUME NEW key \in Keys, NEW v \in Values, Call, Insert(key, v) PROVE TreeInv'
  <2>1. key \in Str /\ key # <<>>
    BY KeyIs
  <2> DEFINE s == End(Start(key))
             from == Seek(heap[Root].nodes, key[1], 1) + 1
  <2>2. s \in Ways /\ s.out # "on" /\ (s.out # "panic" => from \in Nat /\ from >= 1)
    BY <1>1, <2>1, EndIs
  <2>3. Settle(s, from, key, v)
    BY <1>2 DEF Insert
  <2> HIDE DEF s, from
  <2>4. HeapTyped(heap') /\ AstrayTyped' /\ Typed(map') /\ (mishaps' = {} => mishaps = {})
    BY <1>1, <2>2, <2>3, SettleTyped
  <2>5. ~ panicked
    BY <1>2 DEF Call
  <2>6. mishaps' = {} => /\ astray' = <<>> /\ ~ panicked' /\ Standing(heap', map')
                        /\ treeSize' = Cardinality(DOMAIN map')
    BY <1>2, <2>4, <2>5, InsertStands
  <2> QED
    BY <2>4, <2>6 DEF TreeInv
<1>3. ASSUME NEW key \in Keys, Call, TreeDelete(key) PROVE TreeInv'
  <2>1. /\ HeapTyped(heap') /\ AstrayTyped' /\ Typed(map')
        /\ mishaps' = {} => /\ astray' = <<>> /\ ~ panicked' /\ Standing(heap', map')
                            /\ treeSize' = Cardinality(DOMAIN map')
    BY <1>3, DeleteTyped
  <2> QED
    BY <2>1 DEF TreeInv
<1>4. ASSUME GoAstray PROVE TreeInv'
  <2> DEFINE n == heap[Root].nodes[astray.child]
             s == Judged(n, astray.left, astray.char)
             from == astray.child + 1
  <2>1. astray # <<>> /\ Settle(End(s), from, astray.key, astray.value)
    BY <1>4 DEF GoAstray
  <2>2. /\ astray.child \in 1..Len(heap[Root].nodes) /\ astray.child \in Nat /\ astray.left \in Str
        /\ astray.char \in 0..255 /\ astray.key \in Keys /\ astray.value \in Values
    BY <1>1, <2>1 DEF AstrayTyped
  <2>3. n \in Nodes(heap) \ {Root}
    BY <1>1, <2>2 DEF HeapTyped
  <2>4. s \in Ways
    <3> HIDE DEF n
    <3> DEFINE left == astray.left
               char == astray.char
    <3>1. left \in Str /\ char \in 0..255
      BY <2>2
    <3> HIDE DEF left, char
    <3>2. IsJudged(Judged(n, left, char), n, left, char)
      BY <1>1, <2>3, <3>1, JudgedIs
    <3> QED
      BY <3>2 DEF IsJudged, left, char
  <2>5. End(s) \in Ways /\ End(s).out # "on" /\ from \in Nat /\ from >= 1
    <3> HIDE DEF s
    <3> QED
      BY <1>1, <2>2, <2>4, WayEnds
  <2> HIDE DEF s, from
  <2> DEFINE end == End(s)
             key == astray.key
             v == astray.value
  <2>6. end \in Ways /\ end.out # "on" /\ key \in Keys /\ v \in Values /\ Settle(end, from, key, v)
    BY <2>1, <2>2, <2>5
  <2> HIDE DEF end, key, v
  <2>7. HeapTyped(heap') /\ AstrayTyped' /\ Typed(map') /\ (mishaps' = {} => mishaps = {})
    BY <1>1, <2>5, <2>6, SettleTyped
  <2>8. mishaps # {}
    BY <2>1 DEF TreeInv
  <2> QED
    BY <2>7, <2>8 DEF TreeInv
<1>5. ASSUME UNCHANGED treeVars PROVE TreeInv'
  <2>1. /\ heap' = heap /\ treeSize' = treeSize /\ panicked' = panicked /\ map' = map
        /\ mishaps' = mishaps /\ astray' = astray
    BY <1>5 DEF treeVars
  <2>2. HeapTyped(heap') /\ Typed(map')
    BY <1>1, <2>1
  <2>3. AstrayTyped'
    BY <1>1, <2>1 DEF AstrayTyped
  <2>4. mishaps' = {} => /\ astray' = <<>> /\ ~ panicked' /\ Standing(heap', map')
                        /\ treeSize' = Cardinality(DOMAIN map')
    BY <2>1 DEF TreeInv
  <2> QED
    BY <2>2, <2>3, <2>4 DEF TreeInv
<1> QED
  BY <1>2, <1>3, <1>4, <1>5 DEF TreeNext

\* Whatever is inserted, replaced and deleted: every node is a label, a value and children that
\* are nodes, and a tree that never left the way of a radix tree stands for the map.
THEOREM TreeIsWellFormed == TreeSpec => []TreeInv
<1>1. TreeInit => TreeInv
  BY TreeInitInv
<1>2. TreeInv /\ [TreeNext]_treeVars => TreeInv'
  BY TreeStep
<1> QED
  BY <1>1, <1>2, PTL DEF TreeSpec

\* Insert, Delete and Lookup (prefixtree.go): a tree in which no call left the way of a radix
\* tree implements the map, its size is the number of keys, and no call panics.
THEOREM TreeIsMap == TreeSpec => []Agrees
<1>1. TreeInv => Agrees
  <2> SUFFICES ASSUME TreeInv, mishaps = {}
               PROVE  /\ ~ panicked
                      /\ \A key \in Keys : Lookup(key) = IF key \in DOMAIN map THEN map[key] ELSE None
                      /\ treeSize = Cardinality(DOMAIN map)
    BY DEF Agrees
  <2>1. ~ panicked /\ treeSize = Cardinality(DOMAIN map) /\ Standing(heap, map) /\ HeapTyped(heap)
    BY DEF TreeInv
  <2>2. PICK L, sp : Radix(heap, L, sp) /\ Held(heap, L, sp, map)
    BY <2>1 DEF Standing
  <2>3. ASSUME NEW key \in Keys PROVE Lookup(key) = IF key \in DOMAIN map THEN map[key] ELSE None
    BY <2>1, <2>2, KeyIs, LookupIs
  <2> QED
    BY <2>1, <2>3
<1> QED
  BY <1>1, TreeIsWellFormed, PTL

----------------------------------------------------------------------------
(* MatchPrefix: the way of a key and those of its prefixes *)

LEMMA RestRest ==
  ASSUME NEW s \in Str, NEW m \in 0..Len(s), NEW n \in 0..(Len(s) - m)
  PROVE  Rest(Rest(s, m), n) = Rest(s, m + n) /\ m + n \in 0..Len(s)
<1> DEFINE r == Rest(s, m)
           a == Rest(r, n)
           b == Rest(s, m + n)
           x == Len(s)
<1>1. x \in Nat /\ m \in Nat /\ n \in Nat /\ m + n \in 0..x /\ (x - m) - n = x - (m + n)
  BY StrTyped
<1>2. r \in Str /\ Len(r) = x - m /\ \A i \in 1..x - m : r[i] = s[m + i]
  BY RestIs
<1> HIDE DEF r
<1>3. n \in 0..Len(r)
  BY <1>2
<1>4. a \in Str /\ Len(a) = (x - m) - n /\ \A i \in 1..(x - m) - n : a[i] = r[n + i]
  BY <1>2, <1>3, RestIs
<1>5. b \in Str /\ Len(b) = x - (m + n) /\ \A i \in 1..x - (m + n) : b[i] = s[(m + n) + i]
  BY <1>1, RestIs
<1> HIDE DEF a, b, x
<1>6. ASSUME NEW i \in 1..(x - m) - n PROVE a[i] = b[i]
  <2>1. n + i \in 1..x - m /\ m + (n + i) = (m + n) + i
    BY <1>1
  <2> QED
    BY <1>1, <1>2, <1>4, <1>5, <2>1
<1>7. a = b
  BY <1>1, <1>4, <1>5, <1>6, SameStr
<1> QED
  BY <1>1, <1>7 DEF a, b, r, x

LEMMA RestBegins ==
  ASSUME NEW s \in Str, NEW t \in Str, Begins(s, t), NEW n \in 0..Len(s)
  PROVE  Begins(Rest(s, n), Rest(t, n))
<1> DEFINE x == Len(s)
           y == Len(t)
           a == Rest(s, n)
           b == Rest(t, n)
<1>1. x \in Nat /\ y \in Nat /\ n \in Nat /\ x <= y /\ n \in 0..y
  BY StrTyped DEF Begins
<1>2. Len(a) = x - n /\ \A i \in 1..x - n : a[i] = s[n + i]
  BY RestIs
<1>3. Len(b) = y - n /\ \A i \in 1..y - n : b[i] = t[n + i]
  BY <1>1, RestIs
<1>4. \A i \in 1..x : s[i] = t[i]
  BY DEF Begins
<1> HIDE DEF a, b, x, y
<1>5. ASSUME NEW i \in 1..x - n PROVE a[i] = b[i]
  <2>1. n + i \in 1..x /\ i \in 1..y - n
    BY <1>1
  <2> QED
    BY <1>2, <1>3, <1>4, <2>1
<1>6. Len(a) <= Len(b)
  BY <1>1, <1>2, <1>3
<1> QED
  BY <1>2, <1>5, <1>6 DEF Begins, a, b

\* A turn that takes a label takes a character at least.
Took(t, s) ==
  LET label == heap[t.node].label
  IN  /\ label \in Str /\ Begins(label, s.key) /\ label # <<>>
      /\ Len(label) \in 1..Len(s.key) /\ t.key = Rest(s.key, Len(label))
      /\ Len(t.key) = Len(s.key) - Len(label)
      /\ t.out = "found" <=> Len(t.key) = 0

LEMMA TurnTakes ==
  ASSUME HeapTyped(heap), NEW s \in Ways, s.out = "on", Onto(s).out \in {"on", "found"}
  PROVE  Took(Onto(s), s)
<1> DEFINE nodes == heap[s.node].nodes
           i == Seek(nodes, s.key[1], 1)
           t == Onto(s)
           n == nodes[i]
           label == heap[n].label
           key == s.key
           char == key[1]
<1>1. /\ Sought(i, nodes, char, 1) /\ nodes \in Seq(Nodes(heap)) /\ Len(nodes) \in Nat
      /\ key \in Str /\ key # <<>> /\ t \in Ways
      /\ i \in 1..Len(nodes) /\ n \in Nodes(heap) \ {Root} /\ t = Judged(n, key, char)
  BY OntoIs
<1>2. key[1] \in 0..255
  <2>1. Len(key) \in Nat /\ Len(key) # 0
    BY <1>1, StrTyped, EmptyStr
  <2> HIDE DEF key
  <2>2. 1 \in 1..Len(key)
    BY <2>1
  <2> QED
    BY <1>1, <2>2, StrTyped
<1>3. label # <<>>
  <2> HIDE DEF i, nodes, char
  <2> QED
    BY <1>1 DEF Sought
<1> HIDE DEF i, nodes, n, t, key, char
<1>4. IsJudged(Judged(n, key, char), n, key, char)
  BY <1>1, <1>2, JudgedIs DEF char
<1>5. t.node = n /\ Begins(label, key) /\ t.key = Rest(key, Len(label)) /\ t.out \in {"on", "found"}
  BY <1>1, <1>4 DEF IsJudged, t
<1>6. label \in Str
  BY <1>1, NodeTyped
<1>7. Len(label) \in 1..Len(key) /\ Len(label) \in 0..Len(key)
  <2>1. Len(label) \in Nat /\ Len(key) \in Nat /\ Len(label) # 0 /\ Len(label) <= Len(key)
    BY <1>1, <1>3, <1>5, <1>6, StrTyped, EmptyStr DEF Begins
  <2> HIDE DEF label
  <2> QED
    BY <2>1
<1>8. Len(t.key) = Len(key) - Len(label)
  BY <1>1, <1>5, <1>7, RestIs
<1>9. t.out = "found" <=> Len(t.key) = 0
  <2>1. t.out = "on" => t.key # <<>> /\ t.key \in Str
    BY <1>1 DEF Ways
  <2>2. t.out = "on" => Len(t.key) # 0
    BY <2>1, EmptyStr
  <2>3. t.out = "found" => key = label
    BY <1>1, <1>4 DEF IsJudged
  <2>4. t.out = "found" => Len(t.key) = 0
    <3>1. Len(key) \in Nat
      BY <1>1, StrTyped
    <3> QED
      BY <1>8, <2>3, <3>1
  <2> QED
    BY <1>5, <2>2, <2>4
<1> QED
  BY <1>3, <1>5, <1>6, <1>7, <1>8, <1>9 DEF Took, t, key

\* What is left of the key, on a way that goes on or has found it.
Taken(s, key) == Len(key) - Len(s.key)

Left(s, key) == Taken(s, key) \in 0..Len(key) /\ s.key = Rest(key, Taken(s, key))

LEMMA TurnLeaves ==
  ASSUME HeapTyped(heap), NEW key \in Str, NEW s \in Ways, s.out = "on", Left(s, key),
         Onto(s).out \in {"on", "found"}
  PROVE  Left(Onto(s), key) /\ Taken(s, key) < Taken(Onto(s), key)
<1> DEFINE t == Onto(s)
           label == heap[t.node].label
           x == Len(key)
           y == Len(s.key)
           z == Len(t.key)
           l == Len(label)
<1>1. Took(t, s)
  BY TurnTakes
<1> HIDE DEF t
<1>2. l \in 1..y /\ t.key = Rest(s.key, l) /\ z = y - l
  BY <1>1 DEF Took
<1>3. x \in Nat /\ y \in Nat
  BY StrTyped DEF Ways
<1>4. x - y \in 0..x /\ s.key = Rest(key, x - y)
  BY DEF Left, Taken
<1> HIDE DEF x, y, z, l
<1>5. l \in 0..(x - (x - y)) /\ (x - y) + l = x - z /\ x - y < x - z /\ l \in Nat
  BY <1>2, <1>3, <1>4
<1>6. Rest(Rest(key, x - y), l) = Rest(key, (x - y) + l) /\ (x - y) + l \in 0..x
  BY <1>4, <1>5, RestRest DEF x
<1> QED
  BY <1>2, <1>4, <1>5, <1>6 DEF Left, Taken, x, y, z, t

Kept(s, key, t) ==
  /\ s.out \in {"on", "found"} => Left(s, key)
  /\ s.out = "on" => t <= Taken(s, key)

LEMMA WayLeaves ==
  ASSUME HeapTyped(heap), NEW key \in Str, key # <<>>
  PROVE  /\ \A t \in 0..Len(key) : Way(Start(key))[t] \in Ways /\ Kept(Way(Start(key))[t], key, t)
         /\ \A t \in 1..Len(key) : Way(Start(key))[t] = Onto(Way(Start(key))[t - 1])
         /\ Way(Start(key))[0] = Start(key) /\ Taken(Start(key), key) = 0
<1> DEFINE n == Len(key)
           way == Way(Start(key))
           s == Start(key)
           T == {t \in 0..n : Kept(way[t], key, t)}
<1>1. s \in Ways /\ s.key = key /\ s.out = "on" /\ n \in Nat
  BY StartIs
<1>2. /\ way[0] = s /\ \A t \in 1..n : way[t] = Onto(way[t - 1])
      /\ \A t \in 0..n : way[t] \in Ways
  <2> HIDE DEF s
  <2>1. /\ Way(s)[0] = s /\ \A t \in 1..Len(s.key) : Way(s)[t] = Onto(Way(s)[t - 1])
        /\ \A t \in 0..Len(s.key) : Way(s)[t] \in Ways
    BY <1>1, WayIs
  <2> QED
    BY <1>1, <2>1 DEF s
<1> HIDE DEF way, s
<1>3. Taken(s, key) = 0
  BY <1>1 DEF Taken
<1>4. 0 \in T
  <2>1. Rest(key, 0) = key
    <3>1. 0 \in 0..n /\ n - 0 = n /\ \A i \in 1..n : 0 + i = i
      BY <1>1
    <3>2. /\ Rest(key, 0) \in Str /\ Len(Rest(key, 0)) = n - 0
          /\ \A i \in 1..n - 0 : Rest(key, 0)[i] = key[0 + i]
      BY <3>1, RestIs
    <3> QED
      BY <3>1, <3>2, SameStr
  <2>2. Left(s, key)
    BY <1>1, <1>3, <2>1 DEF Left
  <2> QED
    BY <1>1, <1>2, <1>3, <2>2 DEF Kept
<1>5. ASSUME NEW t \in 0..(n - 1), t \in T PROVE t + 1 \in T
  <2>1. t + 1 \in 0..n /\ t + 1 \in 1..n /\ (t + 1) - 1 = t /\ t \in 0..n /\ t \in Nat
    BY <1>1
  <2>2. way[t + 1] = Onto(way[t]) /\ way[t] \in Ways /\ way[t + 1] \in Ways /\ Kept(way[t], key, t)
    BY <1>2, <1>5, <2>1
  <2>3. CASE way[t].out # "on"
    <3>1. way[t + 1] = way[t]
      BY <2>2, <2>3 DEF Onto
    <3> QED
      BY <2>1, <2>2, <2>3, <3>1 DEF Kept
  <2>4. CASE way[t].out = "on" /\ way[t + 1].out \in {"on", "found"}
    <3>1. Left(way[t], key) /\ t <= Taken(way[t], key)
      BY <2>2, <2>4 DEF Kept
    <3>2. Left(way[t + 1], key) /\ Taken(way[t], key) < Taken(way[t + 1], key)
      BY <2>2, <2>4, <3>1, TurnLeaves
    <3>3. Taken(way[t], key) \in 0..n /\ Taken(way[t + 1], key) \in 0..n
      BY <3>1, <3>2 DEF Left
    <3>4. t + 1 <= Taken(way[t + 1], key)
      BY <1>1, <2>1, <3>1, <3>2, <3>3
    <3> QED
      BY <2>1, <3>2, <3>4 DEF Kept
  <2>5. CASE way[t + 1].out \notin {"on", "found"}
    BY <2>1, <2>5 DEF Kept
  <2> QED
    BY <2>3, <2>4, <2>5
<1>6. 0..n \subseteq T
  <2> HIDE DEF T
  <2> QED
    BY <1>1, <1>4, <1>5, InductTo
<1>7. \A t \in 0..n : Kept(way[t], key, t)
  BY <1>6
<1> QED
  BY <1>2, <1>3, <1>7 DEF way, s

\* A turn of two ways at one node, the key of one beginning that of the other.
Turned(b, a, was, is) ==
  /\ is.out \in Outs /\ is.out # "on" => b.out # "on"
  /\ is.out = "panic" <=> b.out = "panic"
  /\ is.out \in {"stuck", "apart"} => b.out \in {"stuck", "apart"}
  /\ is.out \in {"on", "found"} =>
       LET taken == Len(a.key) - Len(is.key)
           left == Len(was.key)
       IN  /\ taken < left => /\ b.out = "on" /\ b.node = is.node /\ Begins(b.key, is.key)
                              /\ Len(b.key) = left - taken
           /\ taken = left => b.out = "found" /\ b.node = is.node
           /\ taken > left => b.out = "apart"

LEMMA TurnTogether ==
  ASSUME HeapTyped(heap), NEW a \in Ways, NEW b \in Ways, a.out = "on", b.out = "on",
         a.node = b.node, Begins(b.key, a.key)
  PROVE  Turned(Onto(b), a, b, Onto(a))
<1> DEFINE nodes == heap[a.node].nodes
           A == a.key
           B == b.key
           char == A[1]
           i == Seek(nodes, char, 1)
           s == Onto(a)
           t == Onto(b)
           n == nodes[i]
           label == heap[n].label
           x == Len(A)
           y == Len(B)
           l == Len(label)
<1>1. A \in Str /\ B \in Str /\ A # <<>> /\ B # <<>> /\ x \in Nat /\ y \in Nat /\ y # 0
  BY StrTyped, EmptyStr DEF Ways
<1>2. B[1] = char /\ char \in 0..255 /\ 1 \in 1..x
  <2>1. 1 \in 1..y /\ y <= x
    BY <1>1 DEF Begins
  <2>2. 1 \in 1..x
    BY <1>1, <2>1
  <2> QED
    BY <1>1, <2>1, <2>2, StrTyped DEF Begins
<1>3. /\ s \in Ways
      /\ \/ i = Panic /\ s.out = "panic"
         \/ i = 0 /\ s.out = "stuck"
         \/ i \in 1..Len(nodes) /\ n \in Nodes(heap) \ {Root} /\ s = Judged(n, A, char)
  BY OntoIs
<1>4. /\ t \in Ways
      /\ \/ i = Panic /\ t.out = "panic"
         \/ i = 0 /\ t.out = "stuck"
         \/ i \in 1..Len(nodes) /\ n \in Nodes(heap) \ {Root} /\ t = Judged(n, B, char)
  <2>1. Seek(heap[b.node].nodes, b.key[1], 1) = i /\ heap[b.node].nodes = nodes
    BY <1>2
  <2>2. LET m == heap[b.node].nodes
            j == Seek(m, B[1], 1)
        IN  /\ t \in Ways
            /\ \/ j = Panic /\ t.out = "panic"
               \/ j = 0 /\ t.out = "stuck"
               \/ j \in 1..Len(m) /\ m[j] \in Nodes(heap) \ {Root} /\ t = Judged(m[j], B, B[1])
    BY OntoIs
  <2> HIDE DEF s, t, i, nodes
  <2> QED
    BY <1>2, <2>1, <2>2
<1>5. Panic # 0 /\ ~ (Panic \in 1..Len(nodes)) /\ ~ (0 \in 1..Len(nodes))
  <2>1. Len(nodes) \in Nat
    BY NodeTyped DEF Ways
  <2> QED
    BY <2>1 DEF Panic
<1> HIDE DEF nodes, i, s, t, A, B, char, x, y, n, label, l
<1>6. CASE i = Panic
  BY <1>3, <1>4, <1>5, <1>6 DEF Turned, Outs, s, t
<1>7. CASE i = 0
  BY <1>3, <1>4, <1>5, <1>7 DEF Turned, Outs, s, t
<1>8. CASE i \in 1..Len(nodes)
  <2>1. n \in Nodes(heap) \ {Root} /\ s = Judged(n, A, char) /\ t = Judged(n, B, char)
    BY <1>3, <1>4, <1>5, <1>8
  <2>2. IsJudged(s, n, A, char) /\ IsJudged(t, n, B, char)
    BY <1>1, <1>2, <2>1, JudgedIs
  <2>3. label \in Str /\ l \in Nat
    BY <2>1, NodeTyped, StrTyped DEF label, l
  <2>4. s.node = n /\ t.node = n /\ s.out \in {"on", "found", "apart"} /\ t.out \in {"on", "found", "apart"}
    BY <2>2 DEF IsJudged
  <2>5. /\ s.out # "apart" => Begins(label, A) /\ s.key = Rest(A, l)
        /\ t.out # "apart" => Begins(label, B) /\ t.key = Rest(B, l)
        /\ s.out = "apart" => ~ Begins(label, A)
        /\ t.out = "apart" => ~ Begins(label, B)
    BY <2>2 DEF IsJudged, label, l
  <2>6. Begins(B, A) /\ y <= x
    BY DEF A, B, Begins, x, y
  <2>7. s.out = "apart" => t.out = "apart"
    BY <1>1, <2>3, <2>5, <2>6, BeginsTrans
  <2>8. ASSUME s.out # "apart" PROVE l \in 0..x /\ s.key = Rest(A, l) /\ Len(s.key) = x - l /\ Begins(label, A)
    <3>1. l \in 0..x
      BY <1>1, <2>3, <2>5, <2>8 DEF Begins, l, x
    <3> QED
      BY <1>1, <2>5, <2>8, <3>1, RestIs DEF x
  <2>9. ASSUME t.out # "apart" PROVE l \in 0..y /\ t.key = Rest(B, l) /\ Len(t.key) = y - l
    <3>1. l \in 0..y
      BY <1>1, <2>3, <2>5, <2>9 DEF Begins, l, y
    <3> QED
      BY <1>1, <2>5, <2>9, <3>1, RestIs DEF y
  <2>10. (t.out = "on" => Len(t.key) # 0) /\ (t.out = "found" => Len(t.key) = 0)
    <3>1. t.out = "on" => t.key # <<>> /\ t.key \in Str
      BY <1>4 DEF Ways
    <3>2. t.out = "found" => t.key = <<>>
      BY <2>2 DEF IsJudged
    <3> QED
      BY <3>1, <3>2, EmptyStr
  <2>11. (s.out = "on" => Len(s.key) # 0) /\ (s.out = "found" => Len(s.key) = 0)
    <3>1. s.out = "on" => s.key # <<>> /\ s.key \in Str
      BY <1>3 DEF Ways
    <3>2. s.out = "found" => s.key = <<>>
      BY <2>2 DEF IsJudged
    <3> QED
      BY <3>1, <3>2, EmptyStr
  <2>12. ASSUME s.out # "apart", l <= y PROVE t.out # "apart"
    <3>1. Begins(label, B)
      BY <1>1, <2>3, <2>6, <2>8, <2>12, BeginsOne DEF l, y
    <3> QED
      BY <2>5, <3>1
  <2>13. ASSUME s.out # "apart", l < y
         PROVE  t.out = "on" /\ Begins(t.key, s.key) /\ Len(t.key) = y - l
    <3>1. t.out # "apart" /\ l \in 0..y
      BY <1>1, <2>3, <2>12, <2>13
    <3>2. Len(t.key) = y - l /\ t.key = Rest(B, l)
      BY <2>9, <3>1
    <3>3. t.out = "on"
      BY <1>1, <2>3, <2>4, <2>10, <2>13, <3>1, <3>2
    <3>4. Begins(Rest(B, l), Rest(A, l))
      BY <1>1, <2>6, <3>1, RestBegins DEF y
    <3> QED
      BY <2>8, <2>13, <3>2, <3>3, <3>4
  <2>14. ASSUME s.out # "apart", l = y PROVE t.out = "found"
    <3>1. t.out # "apart"
      BY <1>1, <2>12, <2>14
    <3>2. Len(t.key) = 0
      BY <1>1, <2>9, <2>14, <3>1
    <3> QED
      BY <2>4, <2>10, <3>1, <3>2
  <2>15. ASSUME s.out # "apart", l > y PROVE t.out = "apart"
    BY <1>1, <2>3, <2>9, <2>15
  <2>16. ASSUME s.out # "apart" PROVE x - Len(s.key) = l
    <3>1. l \in 0..x /\ Len(s.key) = x - l
      BY <2>8, <2>16
    <3> QED
      BY <1>1, <3>1
  <2>17. s.out = "found" => t.out # "on"
    <3>1. ASSUME s.out = "found" PROVE l >= y
      <4>1. l \in 0..x /\ Len(s.key) = x - l /\ Len(s.key) = 0
        BY <2>8, <2>11, <3>1
      <4> QED
        BY <1>1, <2>6, <4>1
    <3>2. ASSUME s.out = "found", t.out = "on" PROVE FALSE
      <4>1. l \in 0..y /\ Len(t.key) = y - l /\ Len(t.key) # 0
        BY <2>9, <2>10, <3>2
      <4> QED
        BY <1>1, <3>1, <3>2, <4>1
    <3> QED
      BY <3>2
  <2>18. ASSUME s.out \in {"on", "found"}
         PROVE  LET taken == x - Len(s.key)
                IN  /\ taken < y => /\ t.out = "on" /\ t.node = s.node /\ Begins(t.key, s.key)
                                    /\ Len(t.key) = y - taken
                    /\ taken = y => t.out = "found" /\ t.node = s.node
                    /\ taken > y => t.out = "apart"
    BY <2>4, <2>13, <2>14, <2>15, <2>16, <2>18
  <2> QED
    BY <2>4, <2>7, <2>17, <2>18 DEF Turned, Outs, s, t, x, y, A, B
<1> QED
  BY <1>3, <1>6, <1>7, <1>8

\* The way of a prefix of i characters is that of the key until it has taken them.
Going(s, key, i) == s.out = "on" /\ Taken(s, key) < i

Follows(b, a, key, i) ==
  b.out = "on" /\ b.node = a.node /\ Begins(b.key, a.key) /\ Len(b.key) = i - Taken(a, key)

LEMMA WaysTogether ==
  ASSUME HeapTyped(heap), NEW key \in Str, key # <<>>, NEW i \in 1..Len(key)
  PROVE  \A t \in 0..Len(key) :
           Going(Way(Start(key))[t], key, i) =>
             t < i /\ Follows(Way(Start(SubSeq(key, 1, i)))[t], Way(Start(key))[t], key, i)
<1> DEFINE n == Len(key)
           p == SubSeq(key, 1, i)
           way == Way(Start(key))
           wp == Way(Start(p))
           T == {t \in 0..n : Going(way[t], key, i) => t < i /\ Follows(wp[t], way[t], key, i)}
<1>1. n \in Nat /\ i \in Nat /\ i > 0 /\ i <= n /\ i \in 0..n
  BY StrTyped
<1>2. p \in Str /\ Len(p) = i /\ \A j \in 1..i : p[j] = key[j]
  BY <1>1, HeadIs
<1> HIDE DEF p
<1>3. p # <<>>
  BY <1>1, <1>2, EmptyStr
<1>4. /\ \A t \in 0..n : way[t] \in Ways /\ Kept(way[t], key, t)
      /\ \A t \in 1..n : way[t] = Onto(way[t - 1])
      /\ way[0] = Start(key) /\ Taken(way[0], key) = 0
  BY WayLeaves
<1>5. /\ \A t \in 0..i : wp[t] \in Ways
      /\ \A t \in 1..i : wp[t] = Onto(wp[t - 1])
      /\ wp[0] = Start(p)
  BY <1>2, <1>3, WayLeaves
<1>6. 0 \in T
  <2>1. Start(key).key = key /\ Start(key).node = Root
    BY StartIs
  <2>2. Start(p).key = p /\ Start(p).node = Root /\ Start(p).out = "on"
    BY <1>2, <1>3, StartIs
  <2>3. Begins(p, key)
    BY <1>1, <1>2 DEF Begins
  <2>4. Follows(wp[0], way[0], key, i)
    BY <1>1, <1>2, <1>4, <1>5, <2>1, <2>2, <2>3 DEF Follows
  <2> QED
    BY <1>1, <2>4
<1> HIDE DEF way, wp
<1>7. ASSUME NEW t \in 0..(n - 1), t \in T PROVE t + 1 \in T
  <2>1. t + 1 \in 0..n /\ t + 1 \in 1..n /\ (t + 1) - 1 = t /\ t \in 0..n /\ t \in Nat
    BY <1>1
  <2>2. SUFFICES ASSUME Going(way[t + 1], key, i)
                 PROVE  t + 1 < i /\ Follows(wp[t + 1], way[t + 1], key, i)
    BY <2>1
  <2> DEFINE a == way[t]
             b == wp[t]
             aa == way[t + 1]
             bb == wp[t + 1]
             c == Taken(a, key)
             cc == Taken(aa, key)
  <2>3. aa = Onto(a) /\ a \in Ways /\ aa \in Ways /\ Kept(a, key, t) /\ Kept(aa, key, t + 1)
    BY <1>4, <2>1
  <2>4. aa.out = "on" /\ cc < i /\ t + 1 <= cc
    BY <2>2, <2>3 DEF Going, Kept
  <2>5. a.out = "on"
    BY <2>3, <2>4 DEF Onto
  <2>6. Left(a, key) /\ Left(aa, key) /\ c < cc
    BY <2>3, <2>4, <2>5, TurnLeaves DEF Kept
  <2>7. c \in 0..n /\ cc \in 0..n
    BY <2>6 DEF Left
  <2> HIDE DEF c, cc
  <2>8. c < i /\ t + 1 < i /\ t + 1 \in 1..i /\ t \in 0..i
    BY <1>1, <2>1, <2>4, <2>6, <2>7
  <2>9. Follows(b, a, key, i)
    BY <1>7, <2>5, <2>8 DEF Going, c
  <2>10. b \in Ways /\ bb = Onto(b)
    BY <1>5, <2>1, <2>8
  <2> HIDE DEF a, aa, b, bb
  <2>11. Turned(bb, a, b, aa)
    BY <2>3, <2>5, <2>9, <2>10, TurnTogether DEF Follows
  <2> DEFINE taken == Len(a.key) - Len(aa.key)
  <2>12. taken = cc - c /\ Len(b.key) = i - c
    <3>1. Len(a.key) \in Nat /\ Len(aa.key) \in Nat
      BY <2>3, StrTyped DEF Ways
    <3> QED
      BY <1>1, <2>9, <3>1 DEF Follows, c, cc, Taken
  <2>13. taken < Len(b.key) /\ Len(b.key) - taken = i - cc
    <3> DEFINE left == Len(b.key)
    <3>1. taken = cc - c /\ left = i - c /\ c \in Nat /\ cc \in Nat /\ cc < i
      BY <2>4, <2>7, <2>12
    <3> HIDE DEF taken, left
    <3>2. taken < left /\ left - taken = i - cc
      BY <1>1, <3>1
    <3> QED
      BY <3>2 DEF left
  <2> HIDE DEF taken
  <2>14. bb.out = "on" /\ bb.node = aa.node /\ Begins(bb.key, aa.key) /\ Len(bb.key) = i - cc
    BY <2>4, <2>11, <2>13 DEF Turned, taken
  <2> QED
    BY <2>8, <2>14 DEF Follows, aa, bb, cc
<1>8. 0..n \subseteq T
  <2> HIDE DEF T
  <2> QED
    BY <1>1, <1>6, <1>7, InductTo
<1> QED
  BY <1>8 DEF way, wp, p

\* Where the way of the key leaves the prefix behind.
Leaves(t, key, i) ==
  /\ t \in 1..Len(key) /\ Way(Start(key))[t - 1].out = "on" /\ Taken(Way(Start(key))[t - 1], key) < i
  /\ ~ Going(Way(Start(key))[t], key, i)

\* The turn ends the way of the prefix.
Answered(e, s, key, i) ==
  /\ e.out = "panic" <=> s.out = "panic"
  /\ e.out = "found" <=> s.out \in {"on", "found"} /\ Taken(s, key) = i
  /\ e.out = "found" => e.node = s.node

LEMMA TurnAnswers ==
  ASSUME HeapTyped(heap), NEW key \in Str, key # <<>>, NEW i \in 1..Len(key), NEW t, Leaves(t, key, i)
  PROVE  Answered(End(Start(SubSeq(key, 1, i))), Way(Start(key))[t], key, i)
<1> DEFINE n == Len(key)
           p == SubSeq(key, 1, i)
           way == Way(Start(key))
           wp == Way(Start(p))
           a == way[t - 1]
           b == wp[t - 1]
           aa == way[t]
           bb == wp[t]
           c == Taken(a, key)
           cc == Taken(aa, key)
<1>1. n \in Nat /\ i \in Nat /\ i > 0 /\ i <= n /\ i \in 0..n /\ t \in 1..n /\ t \in 0..n /\ t - 1 \in 0..n
  BY StrTyped DEF Leaves
<1>2. p \in Str /\ Len(p) = i
  BY <1>1, HeadIs
<1>3. Going(a, key, i) /\ a.out = "on" /\ c < i
  BY DEF Leaves, Going
<1>4. t - 1 < i /\ Follows(b, a, key, i)
  BY <1>1, <1>3, WaysTogether
<1>5. t \in 1..i /\ t \in 0..i /\ t - 1 \in 0..i
  BY <1>1, <1>4
<1>6. a \in Ways /\ aa \in Ways /\ aa = Onto(a) /\ Kept(a, key, t - 1) /\ Kept(aa, key, t)
  BY <1>1, WayLeaves
<1>7. ~ (aa.out = "on" /\ cc < i)
  BY DEF Leaves, Going
<1> HIDE DEF p
<1>8. p # <<>>
  BY <1>1, <1>2, EmptyStr
<1>9. b \in Ways /\ bb \in Ways /\ bb = Onto(b)
  BY <1>2, <1>5, <1>8, WayLeaves
<1>10. bb.out # "on" => End(Start(p)) = bb
  <2>1. Start(p) \in Ways /\ Start(p).key = p
    BY <1>2, <1>8, StartIs
  <2> HIDE DEF b
  <2> QED
    BY <1>2, <1>5, <2>1, WayStays
<1> HIDE DEF way, wp, a, b, aa, bb, c, cc, n
<1>11. Turned(bb, a, b, aa)
  BY <1>3, <1>4, <1>6, <1>9, TurnTogether DEF Follows
<1>12. CASE aa.out = "panic"
  BY <1>10, <1>11, <1>12 DEF Turned, Answered, p, aa, way
<1>13. CASE aa.out \in {"stuck", "apart"}
  BY <1>10, <1>11, <1>13 DEF Turned, Answered, p, aa, way
<1>14. CASE aa.out \in {"on", "found"}
  <2> DEFINE taken == Len(a.key) - Len(aa.key)
             left == Len(b.key)
  <2>1. Left(a, key) /\ Left(aa, key)
    BY <1>3, <1>6, <1>14 DEF Kept
  <2>2. c \in 0..n /\ cc \in 0..n
    BY <2>1 DEF Left, c, cc, n
  <2>3. taken = cc - c /\ left = i - c
    <3>1. Len(a.key) \in Nat /\ Len(aa.key) \in Nat
      BY <1>6, StrTyped DEF Ways
    <3> QED
      BY <1>1, <1>4, <3>1 DEF Follows, c, cc, Taken, n
  <2>4. /\ taken < left => bb.out = "on"
        /\ taken = left => bb.out = "found" /\ bb.node = aa.node
        /\ taken > left => bb.out = "apart"
    BY <1>11, <1>14 DEF Turned
  <2> HIDE DEF taken, left
  <2>5. /\ cc < i => taken < left
        /\ cc = i => taken = left
        /\ cc > i => taken > left
    BY <1>1, <2>2, <2>3
  <2>6. cc >= i
    <3>1. ASSUME aa.out = "found" PROVE cc = n
      <4>1. Took(aa, a)
        BY <1>3, <1>6, <1>14, TurnTakes
      <4>2. Len(aa.key) = 0
        BY <3>1, <4>1 DEF Took
      <4> QED
        BY <1>1, <4>2 DEF cc, Taken, n
    <3> QED
      BY <1>1, <1>7, <1>14, <2>2, <3>1
  <2>7. cc = i \/ cc > i
    BY <1>1, <2>2, <2>6
  <2>8. CASE cc = i
    <3>1. bb.out = "found" /\ bb.node = aa.node
      BY <2>4, <2>5, <2>8
    <3>2. End(Start(p)) = bb
      BY <1>10, <3>1
    <3> QED
      BY <1>14, <2>8, <3>1, <3>2 DEF Answered, p, aa, way, cc
  <2>9. CASE cc > i
    <3>1. bb.out = "apart"
      BY <2>4, <2>5, <2>9
    <3>2. End(Start(p)) = bb
      BY <1>10, <3>1
    <3>3. cc # i
      BY <1>1, <2>2, <2>9
    <3> QED
      BY <1>14, <3>1, <3>2, <3>3 DEF Answered, p, aa, way, cc
  <2> QED
    BY <2>7, <2>8, <2>9
<1> QED
  BY <1>6, <1>12, <1>13, <1>14 DEF Ways, Outs

LEMMA TurnExists ==
  ASSUME HeapTyped(heap), NEW key \in Str, key # <<>>, NEW i \in 1..Len(key)
  PROVE  \E t \in 1..Len(key) : Leaves(t, key, i)
<1> DEFINE n == Len(key)
           way == Way(Start(key))
           T == {t \in 0..n : Going(way[t], key, i)}
<1>1. n \in Nat /\ i \in Nat /\ i > 0
  BY StrTyped
<1>2. way[0] = Start(key) /\ Taken(way[0], key) = 0 /\ way[0].out = "on"
  BY WayLeaves, StartIs
<1>3. way[n].out # "on"
  <2>1. Start(key) \in Ways /\ Start(key).key = key
    BY StartIs
  <2> QED
    BY <2>1, WayEnds DEF End
<1> HIDE DEF way
<1>4. 0 \in T /\ n \notin T /\ T \subseteq Nat /\ \A t \in T : t <= n
  BY <1>1, <1>2, <1>3 DEF Going
<1>5. PICK t \in T : \A u \in T : u <= t
  <2> HIDE DEF T, n
  <2> QED
    BY <1>1, <1>4, Greatest
<1>6. t \in 0..n /\ t # n /\ Going(way[t], key, i)
  BY <1>4, <1>5
<1>7. t + 1 \in 1..n /\ t + 1 \in 0..n /\ (t + 1) - 1 = t /\ ~ (t + 1 <= t)
  BY <1>1, <1>6
<1>8. ~ Going(way[t + 1], key, i)
  BY <1>5, <1>7
<1>9. Leaves(t + 1, key, i)
  BY <1>6, <1>7, <1>8 DEF Leaves, Going, way, n
<1> QED
  BY <1>7, <1>9 DEF n

\* What Lookup finds for a prefix.
LEMMA AnswerIs ==
  ASSUME HeapTyped(heap), NEW key \in Str, key # <<>>, NEW i \in 1..Len(key), NEW t, Leaves(t, key, i)
  PROVE  /\ Lookup(SubSeq(key, 1, i)) = Panic <=> Way(Start(key))[t].out = "panic"
         /\ Way(Start(key))[t].out # "panic" =>
              Lookup(SubSeq(key, 1, i)) =
                IF Way(Start(key))[t].out \in {"on", "found"} /\ Taken(Way(Start(key))[t], key) = i
                THEN heap[Way(Start(key))[t].node].value ELSE None
<1> DEFINE p == SubSeq(key, 1, i)
           e == End(Start(p))
           s == Way(Start(key))[t]
<1>1. Answered(e, s, key, i)
  BY TurnAnswers
<1>2. Lookup(p) = IF e.out = "found" THEN heap[e.node].value ELSE IF e.out = "panic" THEN Panic ELSE None
  BY DEF Lookup
<1>3. s \in Ways
  <2>1. t \in 0..Len(key)
    BY StrTyped DEF Leaves
  <2> QED
    BY <2>1, WayLeaves
<1>4. heap[s.node].value \in Values \cup {None} /\ Panic # None /\ Panic \notin Values
  BY <1>3, NodeTyped, TreeAssumption DEF Ways, Panic, None
<1> HIDE DEF p, e, s
<1>5. e.out = "found" => e.node = s.node /\ e.out # "panic" /\ s.out # "panic"
  BY <1>1 DEF Answered
<1>6. Lookup(p) = Panic <=> s.out = "panic"
  BY <1>1, <1>2, <1>4, <1>5 DEF Answered
<1>7. s.out # "panic" => Lookup(p) = IF s.out \in {"on", "found"} /\ Taken(s, key) = i THEN heap[s.node].value ELSE None
  BY <1>1, <1>2, <1>5 DEF Answered
<1> QED
  BY <1>6, <1>7 DEF p, s

\* What is collected on the way.
Item(s) == [suffix |-> s.key, value |-> heap[s.node].value]

Hit(way, t) == way[t - 1].out = "on" /\ way[t].out \in {"on", "found"} /\ heap[way[t].node].value # None

Items == Seq([suffix : Str, value : Values])

LEMMA HitItem ==
  ASSUME HeapTyped(heap), NEW key \in Str, key # <<>>, NEW t \in 1..Len(key), Hit(Way(Start(key)), t)
  PROVE  Item(Way(Start(key))[t]) \in [suffix : Str, value : Values]
<1> DEFINE s == Way(Start(key))[t]
<1>1. s \in Ways
  <2>1. t \in 0..Len(key)
    BY StrTyped
  <2> QED
    BY <2>1, WayLeaves
<1>2. heap[s.node].value \in Values \cup {None} /\ s.key \in Str
  BY <1>1, NodeTyped DEF Ways
<1> QED
  BY <1>2 DEF Hit, Item

LEMMA CollectedIs ==
  ASSUME HeapTyped(heap), NEW key \in Str, key # <<>>
  PROVE  /\ Collected(key)[0] = <<>>
         /\ \A t \in 1..Len(key) :
              Collected(key)[t] = IF Hit(Way(Start(key)), t)
                                  THEN Append(Collected(key)[t - 1], Item(Way(Start(key))[t]))
                                  ELSE Collected(key)[t - 1]
         /\ \A t \in 0..Len(key) : Collected(key)[t] \in Items
<1> DEFINE n == Len(key)
           way == Way(Start(key))
           Next(t, m) == IF Hit(way, t) THEN Append(m, Item(way[t])) ELSE m
           G == [t \in 1..n |-> [m \in Items |-> Next(t, m)]]
           IsMatch(f) == f = [t \in 0..n |-> IF t = 0 THEN <<>> ELSE Next(t, f[t - 1])]
           match == Collected(key)
<1>1. n \in Nat
  BY StrTyped
<1>2. ASSUME NEW t \in 1..n, NEW m \in Items PROVE Next(t, m) \in Items
  <2>1. Hit(way, t) => Item(way[t]) \in [suffix : Str, value : Values]
    BY HitItem
  <2> HIDE DEF way
  <2> QED
    BY <2>1, AppendProperties DEF Items
<1> HIDE DEF Next
<1>3. Iterates(n, Items, <<>>, G)
  <2>1. <<>> \in Items
    BY EmptySeq DEF Items
  <2> QED
    BY <1>1, <1>2, <2>1 DEF Iterates
<1>4. PICK f \in [0..n -> Items] : \A t \in 0..n : f[t] = IF t = 0 THEN <<>> ELSE G[t][f[t - 1]]
  <2> HIDE DEF G
  <2> QED
    BY <1>3, Iterated
<1>5. ASSUME NEW t \in 0..n, t # 0 PROVE f[t] = Next(t, f[t - 1])
  <2>1. t \in 1..n /\ t - 1 \in 0..n
    BY <1>1, <1>5
  <2>2. f[t - 1] \in Items
    BY <2>1
  <2> QED
    BY <1>4, <1>5, <2>1, <2>2
<1>6. IsMatch(f)
  <2> HIDE DEF G
  <2> QED
    BY <1>4, <1>5
<1>7. match = CHOOSE g : IsMatch(g)
  BY DEF Collected, Next, Hit, Item
<1> HIDE DEF IsMatch, match, G
<1>8. IsMatch(match)
  BY <1>6, <1>7
<1>9. match = [t \in 0..n |-> IF t = 0 THEN <<>> ELSE Next(t, match[t - 1])]
  BY <1>8 DEF IsMatch
<1>10. match[0] = <<>> /\ \A t \in 1..n : match[t] = Next(t, match[t - 1])
  <2>1. 0 \in 0..n /\ \A t \in 1..n : t \in 0..n /\ t # 0
    BY <1>1
  <2>2. match[0] = <<>>
    BY <1>9, <2>1
  <2>3. ASSUME NEW t \in 1..n PROVE match[t] = Next(t, match[t - 1])
    BY <1>9, <2>1
  <2> QED
    BY <2>2, <2>3
<1> DEFINE T == {t \in 0..n : match[t] \in Items}
<1>11. 0 \in T
  <2>1. 0 \in 0..n
    BY <1>1
  <2>2. match[0] \in Items
    BY <1>10, EmptySeq DEF Items
  <2> QED
    BY <2>1, <2>2
<1>12. ASSUME NEW t \in 0..(n - 1), t \in T PROVE t + 1 \in T
  <2>1. t + 1 \in 1..n /\ t + 1 \in 0..n /\ (t + 1) - 1 = t
    BY <1>1
  <2>2. match[t + 1] = Next(t + 1, match[t]) /\ match[t] \in Items
    BY <1>10, <1>12, <2>1
  <2> QED
    BY <1>2, <2>1, <2>2
<1>13. \A t \in 0..n : match[t] \in Items
  <2>1. 0..n \subseteq T
    <3> HIDE DEF T
    <3> QED
      BY <1>1, <1>11, <1>12, InductTo
  <2> QED
    BY <2>1
<1> QED
  BY <1>10, <1>13 DEF match, Next

\* Every hit so far, in the order of the way.
Gathered(m, way, t) ==
  /\ \A k \in 1..Len(m) : \E u \in 1..t : Hit(way, u) /\ m[k] = Item(way[u])
  /\ \A u \in 1..t : Hit(way, u) => \E k \in 1..Len(m) : m[k] = Item(way[u])
  /\ \A k, l \in 1..Len(m) : k < l => Len(m[k].suffix) > Len(m[l].suffix)
  /\ way[t].out = "on" => \A k \in 1..Len(m) : Len(m[k].suffix) >= Len(way[t].key)

LEMMA MatchGathers ==
  ASSUME HeapTyped(heap), NEW key \in Str, key # <<>>
  PROVE  \A t \in 0..Len(key) : Gathered(Collected(key)[t], Way(Start(key)), t)
<1> DEFINE n == Len(key)
           way == Way(Start(key))
           match == Collected(key)
           T == {t \in 0..n : Gathered(match[t], way, t)}
<1>1. n \in Nat
  BY StrTyped
<1>2. /\ \A t \in 0..n : way[t] \in Ways
      /\ \A t \in 1..n : way[t] = Onto(way[t - 1])
  BY WayLeaves
<1>3. /\ match[0] = <<>>
      /\ \A t \in 1..n : match[t] = IF Hit(way, t) THEN Append(match[t - 1], Item(way[t])) ELSE match[t - 1]
      /\ \A t \in 0..n : match[t] \in Items
  BY CollectedIs
<1>4. \A t \in 1..n : Hit(way, t) => Item(way[t]) \in [suffix : Str, value : Values]
  BY HitItem
<1> HIDE DEF way, match
<1>5. 0 \in T
  <2>1. Len(match[0]) = 0
    BY <1>3, EmptySeq
  <2> QED
    BY <1>1, <2>1 DEF Gathered
<1>6. ASSUME NEW t \in 0..(n - 1), t \in T PROVE t + 1 \in T
  <2> DEFINE m == match[t]
             mm == match[t + 1]
             a == way[t]
             b == way[t + 1]
             it == Item(b)
             len == Len(m)
  <2>1. /\ t + 1 \in 0..n /\ t + 1 \in 1..n /\ (t + 1) - 1 = t /\ t \in 0..n /\ t \in Nat
        /\ \A u \in 1..t + 1 : u \in 1..t \/ u = t + 1
        /\ \A u \in 1..t : u \in 1..t + 1
        /\ t + 1 \in 1..t + 1
    BY <1>1
  <2>2. /\ a \in Ways /\ b \in Ways /\ b = Onto(a)
        /\ mm = IF Hit(way, t + 1) THEN Append(m, it) ELSE m
        /\ m \in Items /\ mm \in Items /\ Gathered(m, way, t)
    BY <1>2, <1>3, <1>6, <2>1
  <2>3. Hit(way, t + 1) <=> a.out = "on" /\ b.out \in {"on", "found"} /\ heap[b.node].value # None
    BY <2>1 DEF Hit
  <2>4. len \in Nat /\ \A k \in 1..len : m[k].suffix \in Str
    <3>1. m \in Seq([suffix : Str, value : Values])
      BY <2>2 DEF Items
    <3> HIDE DEF m
    <3>2. len \in Nat /\ DOMAIN m = 1..len
      BY <3>1, LenProperties
    <3>3. \A k \in 1..len : m[k] \in [suffix : Str, value : Values]
      BY <3>1, ElementOfSeq
    <3> QED
      BY <3>2, <3>3
  <2>5. b.out = "on" => a.out = "on"
    BY <2>2 DEF Onto
  <2>6. Len(a.key) \in Nat /\ Len(b.key) \in Nat /\ \A k \in 1..len : Len(m[k].suffix) \in Nat
    BY <2>2, <2>4, StrTyped DEF Ways
  <2>7. a.out = "on" /\ b.out \in {"on", "found"} => Len(b.key) < Len(a.key)
    <3>1. SUFFICES ASSUME a.out = "on", b.out \in {"on", "found"} PROVE Len(b.key) < Len(a.key)
      OBVIOUS
    <3>2. Took(b, a)
      BY <2>2, <3>1, TurnTakes
    <3> DEFINE l == Len(heap[b.node].label)
               x == Len(a.key)
               y == Len(b.key)
    <3>3. l \in 1..x /\ y = x - l /\ x \in Nat
      BY <2>6, <3>2 DEF Took
    <3> HIDE DEF l, x, y
    <3>4. y < x
      BY <3>3
    <3> QED
      BY <3>4 DEF x, y
  <2> HIDE DEF m, mm, a, b, len
  <2>8. a.out = "on" => \A k \in 1..len : Len(m[k].suffix) >= Len(a.key)
    BY <2>2 DEF Gathered, a, len
  <2>9. a.out = "on" /\ b.out \in {"on", "found"} => \A k \in 1..len : Len(m[k].suffix) > Len(b.key)
    BY <2>6, <2>7, <2>8
  <2>10. CASE ~ Hit(way, t + 1)
    <3>1. mm = m
      BY <2>2, <2>10
    <3>2. \A k \in 1..Len(m) : \E u \in 1..t + 1 : Hit(way, u) /\ m[k] = Item(way[u])
      BY <2>1, <2>2 DEF Gathered
    <3>3. \A u \in 1..t + 1 : Hit(way, u) => \E k \in 1..Len(m) : m[k] = Item(way[u])
      BY <2>1, <2>2, <2>10 DEF Gathered
    <3>4. \A k, l \in 1..Len(m) : k < l => Len(m[k].suffix) > Len(m[l].suffix)
      BY <2>2 DEF Gathered
    <3>5. b.out = "on" => \A k \in 1..Len(m) : Len(m[k].suffix) >= Len(b.key)
      BY <2>5, <2>6, <2>9 DEF len
    <3>6. Gathered(m, way, t + 1)
      BY <3>2, <3>3, <3>4, <3>5 DEF Gathered, b
    <3> QED
      BY <2>1, <3>1, <3>6 DEF mm
  <2>11. CASE Hit(way, t + 1)
    <3>1. it \in [suffix : Str, value : Values] /\ it.suffix = b.key /\ it = Item(way[t + 1])
      BY <1>4, <2>1, <2>11 DEF Item, b
    <3> HIDE DEF it
    <3>2. /\ mm = Append(m, it) /\ Len(mm) = len + 1 /\ mm[len + 1] = it
          /\ \A k \in 1..len : mm[k] = m[k]
      BY <2>2, <2>11, <3>1, AppendProperties DEF Items, len
    <3>3. /\ \A k \in 1..len + 1 : k \in 1..len \/ k = len + 1
          /\ \A k \in 1..len : k \in 1..len + 1
          /\ len + 1 \in 1..len + 1
      BY <2>4
    <3>4. \A k \in 1..Len(mm) : \E u \in 1..t + 1 : Hit(way, u) /\ mm[k] = Item(way[u])
      <4>1. ASSUME NEW k \in 1..len PROVE \E u \in 1..t + 1 : Hit(way, u) /\ mm[k] = Item(way[u])
        BY <2>1, <2>2, <3>2 DEF Gathered, len
      <4>2. Hit(way, t + 1) /\ mm[len + 1] = Item(way[t + 1])
        BY <2>11, <3>1, <3>2
      <4> QED
        BY <2>1, <3>2, <3>3, <4>1, <4>2
    <3>5. \A u \in 1..t + 1 : Hit(way, u) => \E k \in 1..Len(mm) : mm[k] = Item(way[u])
      <4>1. ASSUME NEW u \in 1..t, Hit(way, u) PROVE \E k \in 1..Len(mm) : mm[k] = Item(way[u])
        <5>1. PICK k \in 1..len : m[k] = Item(way[u])
          BY <2>2, <4>1 DEF Gathered, len
        <5> QED
          BY <3>2, <3>3, <5>1
      <4>2. len + 1 \in 1..Len(mm) /\ mm[len + 1] = Item(way[t + 1])
        BY <3>1, <3>2, <3>3
      <4> QED
        BY <2>1, <4>1, <4>2
    <3>6. \A k, l \in 1..Len(mm) : k < l => Len(mm[k].suffix) > Len(mm[l].suffix)
      <4>1. SUFFICES ASSUME NEW k \in 1..len + 1, NEW l \in 1..len + 1, k < l
                     PROVE  Len(mm[k].suffix) > Len(mm[l].suffix)
        BY <3>2
      <4>2. k \in 1..len /\ mm[k] = m[k]
        BY <2>4, <3>2, <4>1
      <4>3. CASE l \in 1..len
        BY <2>2, <3>2, <4>1, <4>2, <4>3 DEF Gathered, len
      <4>4. CASE l = len + 1
        <5>1. Len(m[k].suffix) > Len(b.key)
          BY <2>3, <2>9, <2>11, <4>2
        <5> QED
          BY <3>1, <3>2, <4>2, <4>4, <5>1
      <4> QED
        BY <3>3, <4>3, <4>4
    <3>7. b.out = "on" => \A k \in 1..Len(mm) : Len(mm[k].suffix) >= Len(b.key)
      <4>1. SUFFICES ASSUME NEW k \in 1..len + 1 PROVE Len(mm[k].suffix) >= Len(b.key)
        BY <3>2
      <4>2. CASE k \in 1..len
        <5>1. Len(m[k].suffix) > Len(b.key) /\ Len(m[k].suffix) \in Nat
          BY <2>3, <2>6, <2>9, <2>11, <4>2
        <5> QED
          BY <2>6, <3>2, <4>2, <5>1
      <4>3. CASE k = len + 1
        BY <2>6, <3>1, <3>2, <4>3
      <4> QED
        BY <3>3, <4>2, <4>3
    <3>8. Gathered(mm, way, t + 1)
      BY <3>4, <3>5, <3>6, <3>7 DEF Gathered, b
    <3> QED
      BY <2>1, <3>8 DEF mm
  <2> QED
    BY <2>10, <2>11
<1>7. 0..n \subseteq T
  <2> HIDE DEF T
  <2> QED
    BY <1>1, <1>5, <1>6, InductTo
<1> QED
  BY <1>7 DEF way, match

\* A hit is the value of the prefix it has taken, at the turn that leaves that behind.
LEMMA HitLeaves ==
  ASSUME HeapTyped(heap), NEW key \in Str, key # <<>>, NEW t \in 1..Len(key), Hit(Way(Start(key)), t)
  PROVE  LET s == Way(Start(key))[t]
             i == Taken(s, key)
         IN  /\ i \in 1..Len(key) /\ Leaves(t, key, i) /\ s.key = Rest(key, i)
             /\ s.out # "panic" /\ Lookup(SubSeq(key, 1, i)) = heap[s.node].value
<1> DEFINE n == Len(key)
           a == Way(Start(key))[t - 1]
           s == Way(Start(key))[t]
           i == Taken(s, key)
<1>1. n \in Nat /\ t - 1 \in 0..n /\ t \in 0..n
  BY StrTyped
<1>2. a \in Ways /\ s \in Ways /\ s = Onto(a) /\ Kept(a, key, t - 1) /\ Kept(s, key, t)
  BY <1>1, WayLeaves
<1>3. a.out = "on" /\ s.out \in {"on", "found"}
  BY DEF Hit
<1>4. Left(a, key)
  BY <1>2, <1>3 DEF Kept
<1>5. Left(s, key) /\ Taken(a, key) < i
  BY <1>2, <1>3, <1>4, TurnLeaves
<1>6. Taken(a, key) \in 0..n /\ i \in 0..n /\ s.key = Rest(key, i)
  BY <1>4, <1>5 DEF Left
<1> HIDE DEF i
<1>7. i \in 1..n /\ ~ (i < i)
  BY <1>1, <1>5, <1>6
<1>8. Leaves(t, key, i)
  BY <1>3, <1>5, <1>7 DEF Leaves, Going, i
<1>9. s.out # "panic"
  BY <1>3
<1>10. Lookup(SubSeq(key, 1, i)) = IF s.out \in {"on", "found"} /\ Taken(s, key) = i THEN heap[s.node].value ELSE None
  BY <1>7, <1>8, <1>9, AnswerIs
<1>11. Lookup(SubSeq(key, 1, i)) = heap[s.node].value
  BY <1>3, <1>10 DEF i
<1> QED
  BY <1>6, <1>7, <1>8, <1>9, <1>11 DEF i

LEMMA MatchesAre ==
  ASSUME HeapTyped(heap), NEW key \in Str, key # <<>>, ~ MatchPanics(key)
  PROVE  /\ ToSet(MatchPrefix(key)) =
              {[suffix |-> Rest(key, i), value |-> Lookup(SubSeq(key, 1, i))] :
                 i \in {i \in DOMAIN key : Lookup(SubSeq(key, 1, i)) # None}}
         /\ \A k, l \in DOMAIN MatchPrefix(key) :
              k < l => Len(MatchPrefix(key)[k].suffix) > Len(MatchPrefix(key)[l].suffix)
<1> DEFINE n == Len(key)
           way == Way(Start(key))
           m == MatchPrefix(key)
           answer(i) == Lookup(SubSeq(key, 1, i))
           found(i) == [suffix |-> Rest(key, i), value |-> answer(i)]
           I == {i \in DOMAIN key : answer(i) # None}
<1>1. n \in Nat /\ n \in 0..n /\ DOMAIN key = 1..n
  BY StrTyped
<1>2. Gathered(m, way, n) /\ m \in Items
  BY <1>1, MatchGathers, CollectedIs DEF MatchPrefix
<1>3. DOMAIN m = 1..Len(m)
  BY <1>2, LenProperties DEF Items
<1>4. ASSUME NEW t \in 1..n, Hit(way, t) PROVE \E i \in I : Item(way[t]) = found(i)
  <2> DEFINE s == way[t]
             i == Taken(s, key)
  <2>1. i \in 1..n /\ s.key = Rest(key, i) /\ answer(i) = heap[s.node].value
    BY <1>4, HitLeaves
  <2>2. heap[s.node].value # None
    BY <1>4 DEF Hit
  <2> HIDE DEF i, s
  <2>3. i \in I
    BY <1>1, <2>1, <2>2
  <2>4. Item(s) = found(i)
    BY <2>1 DEF Item
  <2> QED
    BY <2>3, <2>4 DEF s
<1>5. ASSUME NEW i \in I PROVE \E t \in 1..n : Hit(way, t) /\ Item(way[t]) = found(i)
  <2>1. i \in 1..n /\ answer(i) # None
    BY <1>1
  <2>2. PICK t \in 1..n : Leaves(t, key, i)
    BY <2>1, TurnExists
  <2> DEFINE s == way[t]
  <2>3. t \in 0..n /\ s \in Ways /\ Kept(s, key, t)
    BY <1>1, WayLeaves
  <2>4. s.out # "panic"
    <3>1. ASSUME s.out = "panic" PROVE FALSE
      <4>1. Start(key) \in Ways /\ Start(key).key = key
        BY StartIs
      <4>2. End(Start(key)) = s
        BY <2>3, <3>1, <4>1, WayStays
      <4> QED
        BY <3>1, <4>2 DEF MatchPanics
    <3> QED
      BY <3>1
  <2>5. answer(i) = IF s.out \in {"on", "found"} /\ Taken(s, key) = i THEN heap[s.node].value ELSE None
    BY <2>1, <2>2, <2>4, AnswerIs
  <2>6. s.out \in {"on", "found"} /\ Taken(s, key) = i /\ heap[s.node].value = answer(i)
    BY <2>1, <2>5
  <2>7. s.key = Rest(key, i)
    BY <2>3, <2>6 DEF Kept, Left
  <2>8. Hit(way, t)
    BY <2>1, <2>2, <2>6 DEF Hit, Leaves
  <2>9. Item(s) = found(i)
    BY <2>6, <2>7 DEF Item
  <2> QED
    BY <2>8, <2>9
<1> HIDE DEF way, answer, I, m, found
<1>6. ToSet(m) \subseteq {found(i) : i \in I}
  <2> SUFFICES ASSUME NEW k \in 1..Len(m) PROVE m[k] \in {found(i) : i \in I}
    BY <1>3 DEF ToSet
  <2>1. PICK t \in 1..n : Hit(way, t) /\ m[k] = Item(way[t])
    BY <1>2 DEF Gathered
  <2> QED
    BY <1>4, <2>1
<1>7. {found(i) : i \in I} \subseteq ToSet(m)
  <2> SUFFICES ASSUME NEW i \in I PROVE found(i) \in ToSet(m)
    OBVIOUS
  <2>1. PICK t \in 1..n : Hit(way, t) /\ Item(way[t]) = found(i)
    BY <1>5
  <2>2. PICK k \in 1..Len(m) : m[k] = Item(way[t])
    BY <1>2, <2>1 DEF Gathered
  <2> QED
    BY <1>3, <2>1, <2>2 DEF ToSet
<1>8. ToSet(m) = {found(i) : i \in I}
  BY <1>6, <1>7
<1>9. \A k, l \in DOMAIN m : k < l => Len(m[k].suffix) > Len(m[l].suffix)
  BY <1>2, <1>3 DEF Gathered
<1> QED
  BY <1>8, <1>9 DEF m, found, answer, I

LEMMA PanicsAre ==
  ASSUME HeapTyped(heap), NEW key \in Str, key # <<>>
  PROVE  MatchPanics(key) <=> \E i \in DOMAIN key : Lookup(SubSeq(key, 1, i)) = Panic
<1> DEFINE n == Len(key)
           way == Way(Start(key))
<1>1. n \in Nat /\ n \in 1..n /\ n \in 0..n /\ DOMAIN key = 1..n
  BY StrTyped, EmptyStr
<1>2. ASSUME MatchPanics(key) PROVE \E i \in DOMAIN key : Lookup(SubSeq(key, 1, i)) = Panic
  <2>1. SubSeq(key, 1, n) = key
    BY <1>1, HeadIs, SameStr
  <2>2. Lookup(key) = Panic
    BY <1>2 DEF MatchPanics, Lookup
  <2> QED
    BY <1>1, <2>1, <2>2
<1>3. ASSUME NEW i \in 1..n, Lookup(SubSeq(key, 1, i)) = Panic PROVE MatchPanics(key)
  <2>1. PICK t \in 1..n : Leaves(t, key, i)
    BY TurnExists
  <2>2. way[t].out = "panic"
    BY <1>3, <2>1, AnswerIs
  <2>3. t \in 0..n
    BY <1>1
  <2>4. Start(key) \in Ways /\ Start(key).key = key
    BY StartIs
  <2>5. End(Start(key)) = way[t]
    BY <2>2, <2>3, <2>4, WayStays
  <2> QED
    BY <2>2, <2>5 DEF MatchPanics
<1> QED
  BY <1>1, <1>2, <1>3

\* MatchPrefix and Lookup (prefixtree.go): in any tree, odd ones too, the one finds exactly what
\* the other finds for the prefixes of the key, shortest first, and panics when it does for one.
THEOREM TreeMatches == TreeSpec => []MatchesAgree
<1>1. TreeInv => MatchesAgree
  <2> SUFFICES ASSUME TreeInv, NEW key \in Keys
               PROVE  LET answer(i) == Lookup(SubSeq(key, 1, i))
                          match == MatchPrefix(key)
                      IN  /\ MatchPanics(key) <=> \E i \in DOMAIN key : answer(i) = Panic
                          /\ ~ MatchPanics(key) =>
                               /\ ToSet(match) = {[suffix |-> Rest(key, i), value |-> answer(i)] :
                                                    i \in {i \in DOMAIN key : answer(i) # None}}
                               /\ \A k, l \in DOMAIN match : k < l => Len(match[k].suffix) > Len(match[l].suffix)
    BY DEF MatchesAgree
  <2>1. HeapTyped(heap) /\ key \in Str /\ key # <<>>
    BY KeyIs DEF TreeInv
  <2>2. MatchPanics(key) <=> \E i \in DOMAIN key : Lookup(SubSeq(key, 1, i)) = Panic
    BY <2>1, PanicsAre
  <2>3. ~ MatchPanics(key) =>
          /\ ToSet(MatchPrefix(key)) =
              {[suffix |-> Rest(key, i), value |-> Lookup(SubSeq(key, 1, i))] :
                 i \in {i \in DOMAIN key : Lookup(SubSeq(key, 1, i)) # None}}
          /\ \A k, l \in DOMAIN MatchPrefix(key) :
              k < l => Len(MatchPrefix(key)[k].suffix) > Len(MatchPrefix(key)[l].suffix)
    BY <2>1, MatchesAre
  <2> QED
    BY <2>2, <2>3
<1> QED
  BY <1>1, TreeIsWellFormed, PTL
=============================================================================

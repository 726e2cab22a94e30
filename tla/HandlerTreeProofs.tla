--------------------------- MODULE HandlerTreeProofs ---------------------------
(***************************************************************************)
(* Machine-checked proofs about HandlerTree, for any tree of handlers, any *)
(* goroutines and any number of calls: its type invariant, that a closed   *)
(* stream stays as it is, that Flush and Close reach every stream, and     *)
(* that Log is offered to the streams it should be and says what came of   *)
(* it.  What a handler makes of its kids is a recursive function, and the  *)
(* last is by induction on the handlers' numbers.                          *)
(***************************************************************************)
EXTENDS HandlerTree, SequenceTheorems, NumberLemmas

Called == [op : Ops, type : Types, before : [Nodes -> SUBSET (1..MaxCalls)]]

\* A frame's node is a handler, and the goroutine in it makes a call that exists.
Calling == \A g \in Goroutines : InCall(g) => call[g] \in 1..Len(calls)

\* A stream's underlying file is closed with it, and only once.
EndsOnce == \A n \in Nodes : ends[n] = IF closed[n] THEN 1 ELSE 0

\* Only streams with a buffer flush by themselves.
Flushers == \A n \in Nodes : flushing[n] => n \in tree.buffered

\* What was flushed was written before.
Backed == \A n \in Nodes : synced[n] \subseteq written[n]

IInv ==
  /\ TypeOK
  /\ Calling
  /\ EndsOnce
  /\ Flushers
  /\ Backed

LEMMA TreeShape ==
  ASSUME TypeOK, NEW n \in Nodes
  PROVE  Kids(n) \in Seq(Nodes) /\ Len(Kids(n)) \in Nat
         /\ \A i \in 1..Len(Kids(n)) : Kids(n)[i] \in Nodes
<1>1. Kids(n) \in Seq(Nodes)
  BY TreeAssumption DEF TypeOK, IsTree, Kids
<1> QED
  BY <1>1, ElementOfSeq, LenProperties

\* The innermost method of a goroutine.
LEMMA TopFrame ==
  ASSUME TypeOK, NEW g \in Goroutines, InCall(g)
  PROVE  /\ stack[g] \in Seq(Frames) /\ Len(stack[g]) \in Nat \ {0}
         /\ Top(g) \in Frames /\ Top(g).node \in Nodes
         /\ Top(g).next \in Nat \ {0} /\ Top(g).err \in Answers
<1>1. stack[g] \in Seq(Frames)
  BY DEF TypeOK
<1>2. Len(stack[g]) \in Nat /\ Len(stack[g]) # 0
  BY <1>1, LenProperties, EmptySeq DEF InCall
<1>3. Top(g) \in Frames
  BY <1>1, <1>2, ElementOfSeq DEF Top
<1> QED
  BY <1>1, <1>2, <1>3 DEF Frames

\* A return leaves frames behind, and an answer or a frame of the method that called.
LEMMA ReturnTypes ==
  ASSUME IInv, NEW g \in Goroutines, InCall(g), NEW a \in Answers, Return(g, a),
         call' = call, Len(calls') = Len(calls)
  PROVE  /\ stack' \in [Goroutines -> Seq(Frames)]
         /\ result' \in [1..MaxCalls -> Answers \cup {"none"}]
         /\ \A h \in Goroutines : stack'[h] # <<>> => stack[h] # <<>>
<1> DEFINE d == Len(stack[g]) - 1
           f == stack[g][d]
           looped == [f EXCEPT !.next = @ + 1, !.err = Combine(g, f, a)]
           rest == Append(SubSeq(stack[g], 1, d - 1), looped)
<1>1. /\ stack[g] \in Seq(Frames) /\ Len(stack[g]) \in Nat \ {0}
      /\ stack \in [Goroutines -> Seq(Frames)]
      /\ result \in [1..MaxCalls -> Answers \cup {"none"}]
  BY TopFrame DEF IInv, TypeOK
<1>2. CASE d = 0
  <2>1. /\ stack' = [stack EXCEPT ![g] = <<>>]
        /\ result' = [result EXCEPT ![call[g]] = a]
    BY <1>2 DEF Return
  <2>2. <<>> \in Seq(Frames)
    BY EmptySeq
  <2> QED
    BY <1>1, <2>1, <2>2
<1>3. CASE d # 0
  <2>1. stack' = [stack EXCEPT ![g] = rest] /\ result' = result
    BY <1>3 DEF Return
  <2>2. d \in 1..Len(stack[g]) /\ f \in Frames
    <3>1. d \in 1..Len(stack[g])
      <4>1. \A m \in Nat \ {0} : m - 1 # 0 => m - 1 \in 1..m
        OBVIOUS
      <4> QED
        BY <1>1, <1>3, <4>1
    <3> HIDE DEF d
    <3> QED
      BY <1>1, <3>1, ElementOfSeq
  <2>3. looped \in Frames
    <3>1. f.next + 1 \in Nat \ {0} /\ Combine(g, f, a) \in Answers
      BY <2>2 DEF Frames, Combine
    <3> QED
      BY <2>2, <3>1 DEF Frames
  <2>4. SubSeq(stack[g], 1, d - 1) \in Seq(Frames)
    BY <1>1, <2>2, SubSeqProperties
  <2> HIDE DEF d, f, looped
  <2>5. rest \in Seq(Frames)
    BY <2>3, <2>4, AppendProperties
  <2> QED
    BY <1>1, <2>1, <2>5 DEF InCall
<1> QED
  BY <1>2, <1>3

LEMMA CallStep ==
  ASSUME IInv, NEW g \in Goroutines, NEW op \in Ops, NEW type \in Types, Call(g, op, type)
  PROVE  IInv'
<1> DEFINE c == [op |-> op, type |-> type, before |-> written]
<1>1. calls \in Seq(Called) /\ Len(calls) \in Nat /\ Len(calls) < MaxCalls /\ MaxCalls \in Nat
  BY LenProperties, TreeAssumption DEF IInv, TypeOK, Called, Call
<1>2. c \in Called
  BY DEF IInv, TypeOK, Called
<1>3. calls' \in Seq(Called) /\ Len(calls') = Len(calls) + 1
  <2>1. calls' = Append(calls, c)
    BY DEF Call
  <2> HIDE DEF c
  <2> QED
    BY <1>1, <1>2, <2>1, AppendProperties
<1>4. <<Enter(Root)>> \in Seq(Frames)
  <2>1. Enter(Root) \in Frames
    BY TreeAssumption DEF Enter, Frames, Answers
  <2> QED
    BY <2>1
<1>5. /\ stack' \in [Goroutines -> Seq(Frames)]
      /\ call' \in [Goroutines -> 0..MaxCalls]
  BY <1>1, <1>4 DEF IInv, TypeOK, Call
<1>6. UNCHANGED <<tree, closed, ends, written, synced, flushing, answers, visits, result>>
  BY DEF Call, streams
<1>7. TypeOK'
  BY <1>1, <1>3, <1>5, <1>6 DEF IInv, TypeOK, Called
<1>8. Calling'
  <2> SUFFICES ASSUME NEW h \in Goroutines, stack'[h] # <<>>
               PROVE  call'[h] \in 1..Len(calls')
    BY DEF Calling, InCall
  <2>1. CASE h = g
    BY <1>1, <1>3, <2>1 DEF Call, IInv, TypeOK
  <2>2. CASE h # g
    <3>1. call'[h] = call[h] /\ stack'[h] = stack[h]
      BY <2>2 DEF Call, IInv, TypeOK
    <3> QED
      BY <1>1, <1>3, <3>1 DEF IInv, Calling, InCall
  <2> QED
    BY <2>1, <2>2
<1> QED
  BY <1>6, <1>7, <1>8 DEF IInv, EndsOnce, Flushers, Backed

LEMMA DescendStep ==
  ASSUME IInv, NEW g \in Goroutines, Descend(g)
  PROVE  IInv'
<1> DEFINE n == Top(g).node
           kid == Kids(n)[Top(g).next]
<1>1. InCall(g) /\ TypeOK
  BY DEF Descend, IInv
<1>2. kid \in Nodes
  <2>1. n \in Nodes /\ Top(g).next \in Nat \ {0} /\ Top(g).next <= Len(Kids(n))
    BY <1>1, TopFrame, TreeShape DEF Descend, Finished
  <2> QED
    BY <1>1, <2>1, TreeShape
<1>3. Enter(kid) \in Frames
  BY <1>2 DEF Enter, Frames, Answers
<1>4. Append(stack[g], Enter(kid)) \in Seq(Frames)
  BY <1>1, <1>3, TopFrame, AppendProperties
<1>5. stack' = [stack EXCEPT ![g] = Append(@, Enter(kid))]
  BY DEF Descend
<1>6. UNCHANGED <<tree, closed, ends, written, synced, flushing, call, calls, answers, visits,
                   result>>
  BY DEF Descend, streams, history
<1> HIDE DEF kid
<1>7. stack' \in [Goroutines -> Seq(Frames)]
  BY <1>1, <1>4, <1>5 DEF TypeOK
<1>8. TypeOK'
  BY <1>1, <1>6, <1>7 DEF TypeOK
<1>9. Calling'
  BY <1>1, <1>5, <1>6 DEF IInv, TypeOK, Calling, InCall
<1> QED
  BY <1>6, <1>8, <1>9 DEF IInv, EndsOnce, Flushers, Backed

LEMMA LeaveStep ==
  ASSUME IInv, NEW g \in Goroutines, Leave(g)
  PROVE  IInv'
<1>1. InCall(g) /\ TypeOK /\ Top(g).err \in Answers
  BY TopFrame DEF Leave, IInv
<1>2. UNCHANGED <<tree, closed, ends, written, synced, flushing, call, calls, answers, visits>>
  BY DEF Leave, streams
<1>3. /\ stack' \in [Goroutines -> Seq(Frames)]
      /\ result' \in [1..MaxCalls -> Answers \cup {"none"}]
      /\ \A h \in Goroutines : stack'[h] # <<>> => stack[h] # <<>>
  BY <1>1, <1>2, ReturnTypes DEF Leave
<1>4. TypeOK'
  BY <1>1, <1>2, <1>3 DEF TypeOK
<1>5. Calling'
  BY <1>2, <1>3 DEF IInv, Calling, InCall
<1> QED
  BY <1>2, <1>4, <1>5 DEF IInv, EndsOnce, Flushers, Backed

----------------------------------------------------------------------------
(* Streams.  What a call, and the goroutine that flushes, may do to them: *)

StreamTypes ==
  /\ closed \in [Nodes -> BOOLEAN]
  /\ ends \in [Nodes -> Nat]
  /\ written \in [Nodes -> SUBSET (1..MaxCalls)]
  /\ synced \in [Nodes -> SUBSET (1..MaxCalls)]

\* A stream that is closed stays closed, and nothing is written to it, flushed or
\* closed again below it; what another has written and flushed only grows.
Final ==
  \A n \in Nodes :
    /\ closed[n] => closed'[n] /\ ends'[n] = ends[n] /\ written'[n] = written[n]
                      /\ synced'[n] = synced[n]
    /\ written[n] \subseteq written'[n]
    /\ synced[n] \subseteq synced'[n]

LEMMA StreamDoes ==
  ASSUME IInv, NEW g \in Goroutines, NEW a \in Answers, Stream(g, a)
  PROVE  StreamTypes' /\ EndsOnce' /\ Backed' /\ Final /\ flushing' = flushing
<1> DEFINE n == Top(g).node
           c == call[g]
<1>1. /\ TypeOK /\ InCall(g) /\ EndsOnce /\ Backed /\ n \in Nodes
      /\ c \in 1..MaxCalls
  <2>1. InCall(g) /\ TypeOK /\ EndsOnce /\ Backed
    BY DEF Stream, IInv
  <2>2. c \in 1..Len(calls)
    BY <2>1 DEF IInv, Calling
  <2>3. Len(calls) \in Nat /\ Len(calls) <= MaxCalls /\ MaxCalls \in Nat
    BY <2>1, TreeAssumption, LenProperties DEF TypeOK
  <2> QED
    BY <2>1, <2>2, <2>3, TopFrame
<1>2. a \in MayAnswer(n, Op(g), calls[c].type)
  BY DEF Stream
<1>3. a = "nil" => ~ closed[n]
  BY <1>2 DEF MayAnswer
<1>4. \/ LogTo(n, c, a)
      \/ FlushOf(n, a) /\ flushing' = flushing
      \/ CloseOf(n)
  <2>1. Op(g) \in Ops
    <3>1. calls[c] \in Called
      BY <1>1, ElementOfSeq DEF IInv, Calling, TypeOK, Called
    <3> QED
      BY <3>1 DEF Op, Called
  <2> QED
    BY <2>1 DEF Stream, Ops
<1>5. StreamTypes
  BY <1>1 DEF TypeOK, StreamTypes
<1> HIDE DEF n, c
<1>6. CASE LogTo(n, c, a)
  BY <1>1, <1>3, <1>5, <1>6 DEF LogTo, StreamTypes, EndsOnce, Backed, Final
<1>7. CASE FlushOf(n, a) /\ flushing' = flushing
  BY <1>1, <1>3, <1>5, <1>7 DEF FlushOf, StreamTypes, EndsOnce, Backed, Final
<1>8. CASE CloseOf(n)
  <2>1. closed' = [closed EXCEPT ![n] = TRUE] /\ UNCHANGED <<written, synced, flushing>>
    BY <1>8 DEF CloseOf
  <2>2. CASE closed[n]
    <3>1. ends' = ends
      BY <1>8, <2>2 DEF CloseOf
    <3> QED
      BY <1>1, <1>5, <2>1, <2>2, <3>1 DEF StreamTypes, EndsOnce, Backed, Final
  <2>3. CASE ~ closed[n]
    <3>1. ends' = [ends EXCEPT ![n] = @ + 1]
      BY <1>8, <2>3 DEF CloseOf
    <3> QED
      BY <1>1, <1>5, <2>1, <2>3, <3>1 DEF StreamTypes, EndsOnce, Backed, Final
  <2> QED
    BY <2>2, <2>3
<1> QED
  BY <1>4, <1>6, <1>7, <1>8

LEMMA StreamStep ==
  ASSUME IInv, NEW g \in Goroutines, NEW a \in Answers, Stream(g, a)
  PROVE  IInv' /\ Final
<1>1. StreamTypes' /\ EndsOnce' /\ Backed' /\ Final /\ flushing' = flushing
  BY StreamDoes
<1>2. InCall(g) /\ TypeOK /\ Return(g, a) /\ UNCHANGED <<tree, call, calls>>
  BY DEF Stream, IInv
<1>3. /\ stack' \in [Goroutines -> Seq(Frames)]
      /\ result' \in [1..MaxCalls -> Answers \cup {"none"}]
      /\ \A h \in Goroutines : stack'[h] # <<>> => stack[h] # <<>>
  BY <1>2, ReturnTypes
<1>4. answers' \in [1..MaxCalls -> [Nodes -> Answers \cup {"none"}]]
  BY <1>2 DEF Stream, TypeOK
<1>5. visits' \in [1..MaxCalls -> [Nodes -> Nat]]
  <2>1. PICK n \in Nodes, c \in 1..MaxCalls : visits' = [visits EXCEPT ![c][n] = @ + 1]
    <3>1. call[g] \in 1..Len(calls) /\ Len(calls) \in Nat /\ Len(calls) <= MaxCalls
          /\ MaxCalls \in Nat
      BY <1>2, TreeAssumption, LenProperties DEF TypeOK, IInv, Calling
    <3>2. call[g] \in 1..MaxCalls /\ Top(g).node \in Nodes
      BY <1>2, <3>1, TopFrame
    <3> QED
      BY <3>2 DEF Stream
  <2>2. visits \in [1..MaxCalls -> [Nodes -> Nat]]
    BY <1>2 DEF TypeOK
  <2>3. visits[c][n] + 1 \in Nat /\ visits[c] \in [Nodes -> Nat]
    BY <2>2
  <2>4. [visits[c] EXCEPT ![n] = @ + 1] \in [Nodes -> Nat]
    BY <2>3
  <2> QED
    BY <2>1, <2>2, <2>4
<1>6. TypeOK'
  BY <1>1, <1>2, <1>3, <1>4, <1>5 DEF TypeOK, StreamTypes
<1>7. Calling'
  BY <1>2, <1>3 DEF IInv, Calling, InCall
<1> QED
  BY <1>1, <1>2, <1>6, <1>7 DEF IInv, Flushers

LEMMA FlushTickStep ==
  ASSUME IInv, NEW n \in Nodes, NEW a \in Answers, FlushTick(n, a)
  PROVE  IInv' /\ Final
<1>1. FlushOf(n, a) /\ TypeOK /\ EndsOnce /\ Backed
  BY DEF FlushTick, IInv
<1>2. a = "nil" => ~ closed[n]
  BY DEF FlushTick, MayAnswer
<1>3. closed' = closed /\ ends' = ends /\ written' = written
  BY <1>1 DEF FlushOf
<1>4. /\ synced' \in [Nodes -> SUBSET (1..MaxCalls)]
      /\ \A m \in Nodes : /\ closed[m] => synced'[m] = synced[m]
                          /\ synced[m] \subseteq synced'[m] /\ synced'[m] \subseteq written[m]
  BY <1>1, <1>2 DEF FlushOf, TypeOK, Backed
<1>5. flushing' \in [Nodes -> BOOLEAN]
  BY <1>1 DEF FlushTick, TypeOK
<1>6. UNCHANGED <<tree, stack, call, calls, answers, visits, result>>
  BY DEF FlushTick, history
<1>7. TypeOK'
  BY <1>1, <1>3, <1>4, <1>5, <1>6 DEF TypeOK
<1>8. Final
  BY <1>3, <1>4 DEF Final
<1>9. Flushers'
  BY <1>1, <1>6 DEF FlushTick, IInv, Flushers, TypeOK
<1> QED
  BY <1>1, <1>3, <1>4, <1>6, <1>7, <1>8, <1>9 DEF IInv, Calling, InCall, EndsOnce, Backed

----------------------------------------------------------------------------
(* Close and Flush.  A goroutine that closes a handler, or flushes it without error, has *)
(* reached every stream below the children its loop has passed.  What is below a handler *)
(* needs no recursion: it is what every set has that has the handler and comes with its *)
(* kids.                                                                   *)

Below(n) == {m \in Nodes : \A D \in SUBSET Nodes : n \in D /\ HasKids(tree, D) => m \in D}

\* The calls that claim to have reached all, by what they return.
Claims(op, err) == op = "Close" \/ (op = "Flush" /\ err = "nil")

\* The streams for which call c has done what it is for.
Done(c) ==
  IF calls[c].op = "Close" THEN {m \in Nodes : closed[m]}
  ELSE {m \in Nodes : calls[c].before[m] \subseteq synced[m]}

Reached(c, n) == \A m \in Below(n) : m \in Streams => m \in Done(c)

\* The frames of a stack are a path down the tree from the root.
Path(s) ==
  /\ s[1].node = Root
  /\ \A i \in 1..Len(s) - 1 :
       /\ s[i].next <= Len(Kids(s[i].node))
       /\ s[i + 1].node = Kids(s[i].node)[s[i].next]

Passed(s, c) ==
  \A i \in 1..Len(s) : Claims(calls[c].op, s[i].err) =>
    \A j \in 1..Len(Kids(s[i].node)) : j < s[i].next => Reached(c, Kids(s[i].node)[j])

Paths   == \A g \in Goroutines : InCall(g) => Path(stack[g])
Passing == \A g \in Goroutines : InCall(g) => Passed(stack[g], call[g])
Arrived == \A c \in 1..Len(calls) :
             result[c] # "none" /\ Claims(calls[c].op, result[c]) => Reached(c, Root)
Fresh   == \A c \in 1..MaxCalls : c > Len(calls) => result[c] = "none"
Befores == \A c \in 1..Len(calls) : \A n \in Nodes : calls[c].before[n] \subseteq written[n]

WalkInv == Paths /\ Passing /\ Arrived /\ Fresh /\ Befores

LEMMA BelowItself ==
  ASSUME TypeOK, NEW n \in Nodes
  PROVE  n \in Below(n) /\ HasKids(tree, Below(n)) /\ Below(n) \in SUBSET Nodes
<1>1. n \in Below(n) /\ Below(n) \in SUBSET Nodes
  BY DEF Below
<1>2. ASSUME NEW x \in Below(n), NEW i \in 1..Len(tree.kids[x])
      PROVE  tree.kids[x][i] \in Below(n)
  <2>1. x \in Nodes
    BY DEF Below
  <2>2. tree.kids[x][i] \in Nodes
    BY <2>1, TreeShape DEF Kids
  <2>3. ASSUME NEW D \in SUBSET Nodes, n \in D, HasKids(tree, D)
        PROVE  tree.kids[x][i] \in D
    <3>1. x \in D
      BY <2>3 DEF Below
    <3> QED
      BY <3>1, <2>3 DEF HasKids
  <2> QED
    BY <2>2, <2>3 DEF Below
<1> QED
  BY <1>1, <1>2 DEF HasKids

\* A call that has reached all children of a handler has reached the handler.
LEMMA ReachedByKids ==
  ASSUME TypeOK, NEW c, NEW n \in Nodes, Kind(n) # "stream",
         \A i \in 1..Len(Kids(n)) : Reached(c, Kids(n)[i])
  PROVE  Reached(c, n)
<1> DEFINE D == {n} \cup {m \in Nodes : \E i \in 1..Len(Kids(n)) : m \in Below(Kids(n)[i])}
<1>1. D \in SUBSET Nodes /\ n \in D
  OBVIOUS
<1>2. ASSUME NEW x \in D, NEW l \in 1..Len(tree.kids[x])
      PROVE  tree.kids[x][l] \in D
  <2>1. CASE x = n
    <3>1. Kids(n)[l] \in Nodes /\ l \in 1..Len(Kids(n))
      BY <1>2, <2>1, TreeShape DEF Kids
    <3>2. Kids(n)[l] \in Below(Kids(n)[l])
      BY <3>1, BelowItself
    <3> QED
      BY <2>1, <3>1, <3>2 DEF Kids
  <2>2. CASE x # n
    <3>1. PICK i \in 1..Len(Kids(n)) : x \in Below(Kids(n)[i])
      BY <1>2, <2>2
    <3>2. Kids(n)[i] \in Nodes
      BY <3>1, TreeShape
    <3>3. tree.kids[x][l] \in Below(Kids(n)[i]) /\ Below(Kids(n)[i]) \in SUBSET Nodes
      BY <1>2, <3>1, <3>2, BelowItself DEF HasKids
    <3> QED
      BY <3>1, <3>3
  <2> QED
    BY <2>1, <2>2
<1>3. HasKids(tree, D)
  BY <1>2 DEF HasKids
<1>4. ASSUME NEW m \in Below(n), m \in Streams PROVE m \in Done(c)
  <2>1. m \in D
    BY <1>1, <1>3, <1>4 DEF Below
  <2>2. m # n
    BY <1>4 DEF Streams
  <2> QED
    BY <1>4, <2>1, <2>2 DEF Reached
<1> QED
  BY <1>4 DEF Reached

LEMMA BelowStream ==
  ASSUME TypeOK, NEW n \in Nodes, Kind(n) = "stream"
  PROVE  Below(n) \subseteq {n}
<1>1. tree.kids[n] = <<>>
  BY TreeAssumption DEF TypeOK, IsTree, Kind
<1>2. HasKids(tree, {n})
  BY <1>1 DEF HasKids
<1> QED
  BY <1>2 DEF Below

LEMMA ReachedRoot ==
  ASSUME TypeOK, NEW c, Reached(c, Root)
  PROVE  \A n \in Streams : n \in Done(c)
<1>1. Root \in Nodes
  BY TreeAssumption
<1>2. Root \in Below(Root) /\ HasKids(tree, Below(Root)) /\ Below(Root) \in SUBSET Nodes
  BY <1>1, BelowItself
<1>3. \A n \in Streams : n \in Below(Root)
  BY <1>2, TreeAssumption DEF TypeOK, IsTree, Streams, Kind
<1> QED
  BY <1>3 DEF Reached

\* Streams that a call has reached stay so.
Kept(c) == calls'[c] = calls[c]

LEMMA DoneGrows ==
  ASSUME IInv, Final, NEW c \in 1..Len(calls), Kept(c)
  PROVE  Done(c) \subseteq Done(c)'
<1>1. \A m \in Nodes : (closed[m] => closed'[m]) /\ synced[m] \subseteq synced'[m]
  BY DEF Final
<1> QED
  BY <1>1 DEF Done, Kept

LEMMA ReachedStays ==
  ASSUME IInv, Final, tree' = tree, NEW c \in 1..Len(calls), Kept(c)
  PROVE  /\ \A n \in Nodes : Reached(c, n) => Reached(c, n)'
         /\ \A s : Passed(s, c) /\ s \in Seq(Frames) => Passed(s, c)'
<1>0. TypeOK /\ Done(c) \subseteq Done(c)'
  BY DoneGrows DEF IInv
<1>1. ASSUME NEW n \in Nodes, Reached(c, n) PROVE Reached(c, n)'
  <2>1. Below(n)' = Below(n) /\ Streams' = Streams /\ Below(n) \subseteq Nodes
    BY DEF Below, Streams, Kind
  <2> QED
    BY <1>0, <1>1, <2>1 DEF Reached
<1>2. ASSUME NEW s, Passed(s, c), s \in Seq(Frames) PROVE Passed(s, c)'
  <2> SUFFICES ASSUME NEW i \in 1..Len(s), Claims(calls[c].op, s[i].err),
                      NEW j \in 1..Len(Kids(s[i].node)), j < s[i].next
               PROVE  Reached(c, Kids(s[i].node)[j])'
    BY DEF Passed, Kids, Kept, Claims
  <2>1. s[i].node \in Nodes
    <3>1. s[i] \in Frames
      BY <1>2, ElementOfSeq
    <3> QED
      BY <3>1 DEF Frames
  <2>2. PICK k : k = Kids(s[i].node)[j]
    OBVIOUS
  <2>3. k \in Nodes
    BY <1>0, <2>1, <2>2, TreeShape
  <2>4. Reached(c, k)
    BY <1>2, <2>2 DEF Passed
  <2>5. Reached(c, k)'
    BY <1>1, <2>3, <2>4
  <2> QED
    BY <2>2, <2>5 DEF Kids
<1> QED
  BY <1>1, <1>2

\* What g leaves alone stays true of the other goroutines.
LEMMA OthersStay ==
  ASSUME IInv, WalkInv, Final, tree' = tree,
         NEW h \in Goroutines, InCall(h), Kept(call[h]), call'[h] = call[h], stack'[h] = stack[h]
  PROVE  Path(stack[h])' /\ Passed(stack[h], call[h])'
<1>1. PICK s, c : s = stack[h] /\ c = call[h]
  OBVIOUS
<1>2. s \in Seq(Frames) /\ c \in 1..Len(calls) /\ Path(s) /\ Passed(s, c)
  BY <1>1 DEF IInv, TypeOK, Calling, WalkInv, Paths, Passing
<1>3. Kept(c)
  BY <1>1 DEF Kept
<1>4. Path(s)' /\ Passed(s, c)'
  BY <1>2, <1>3, ReachedStays DEF Path, Kids
<1>5. stack'[h] = s /\ call'[h] = c
  BY <1>1
<1> QED
  BY <1>4, <1>5 DEF Path, Passed

\* The frames that a return to a method leaves.
FramesAfter(g, a) ==
  LET d == Len(stack[g]) - 1
      f == stack[g][d]
  IN  Append(SubSeq(stack[g], 1, d - 1), [f EXCEPT !.next = @ + 1, !.err = Combine(g, f, a)])

LEMMA FramesLeft ==
  ASSUME IInv, NEW g \in Goroutines, InCall(g), NEW a \in Answers,
         NEW d \in Nat \ {0}, Len(stack[g]) = d + 1
  PROVE  LET rest == FramesAfter(g, a)
         IN  /\ Len(rest) = d /\ stack[g][d] \in Frames
             /\ \A i \in 1..d : rest[i].node = stack[g][i].node
             /\ \A i \in 1..d - 1 : rest[i].next = stack[g][i].next
             /\ \A i \in 1..d - 1 : rest[i].err = stack[g][i].err
             /\ rest[d].next = stack[g][d].next + 1
             /\ rest[d].err = Combine(g, stack[g][d], a)
<1> DEFINE s == stack[g]
           f == stack[g][d]
           rest == FramesAfter(g, a)
           looped == [f EXCEPT !.next = @ + 1, !.err = Combine(g, f, a)]
           front == SubSeq(s, 1, d - 1)
<1>1. s \in Seq(Frames) /\ \A i \in 1..d : s[i] \in Frames
  BY TopFrame, ElementOfSeq DEF IInv
<1>2. f \in Frames
  BY <1>1
<1>3. /\ front \in Seq(Frames) /\ Len(front) = d - 1
      /\ \A i \in 1..d - 1 : front[i] = s[i]
  <2>1. 1 \in Int /\ d - 1 \in Int /\ (\A i \in 1..d - 1 : s[i] \in Frames)
    BY <1>1
  <2> HIDE DEF s
  <2>2. /\ front \in Seq(Frames)
        /\ Len(front) = IF 1 <= d - 1 THEN (d - 1) - 1 + 1 ELSE 0
        /\ \A i \in 1..(d - 1) - 1 + 1 : front[i] = s[1 + i - 1]
    BY <2>1, SubSeqProperties
  <2> HIDE DEF front
  <2>3. (d - 1) - 1 + 1 = d - 1 /\ \A i \in 1..d - 1 : 1 + i - 1 = i
    OBVIOUS
  <2>4. Len(front) = d - 1
    BY <2>2
  <2>5. ASSUME NEW i \in 1..d - 1 PROVE front[i] = s[i]
    BY <2>2, <2>3
  <2> QED
    BY <2>2, <2>4, <2>5
<1>4. /\ looped \in Frames /\ looped.node = f.node /\ looped.next = f.next + 1
      /\ looped.err = Combine(g, f, a)
  <2>1. f.next + 1 \in Nat \ {0} /\ Combine(g, f, a) \in Answers
    BY <1>2 DEF Frames, Combine
  <2> QED
    BY <1>2, <2>1 DEF Frames
<1> HIDE DEF front, looped
<1>5. rest = Append(front, looped)
  <2>1. Len(stack[g]) - 1 = d
    OBVIOUS
  <2> QED
    BY <2>1 DEF front, looped, FramesAfter
<1>6. /\ Len(rest) = Len(front) + 1
      /\ \A i \in 1..Len(front) : rest[i] = front[i]
      /\ rest[Len(front) + 1] = looped
  <2> HIDE DEF rest
  <2> QED
    BY <1>3, <1>4, <1>5, AppendProperties
<1> HIDE DEF rest
<1>7. Len(rest) = d /\ (\A i \in 1..d - 1 : rest[i] = s[i]) /\ rest[d] = looped
  <2> HIDE DEF s
  <2> QED
    BY <1>3, <1>6
<1>8. \A i \in 1..d : rest[i].node = s[i].node
  <2> SUFFICES ASSUME NEW i \in 1..d PROVE rest[i].node = s[i].node
    OBVIOUS
  <2>1. CASE i = d
    BY <1>4, <1>7, <2>1
  <2>2. CASE i # d
    BY <1>7, <2>2
  <2> QED
    BY <2>1, <2>2
<1> QED
  BY <1>2, <1>4, <1>7, <1>8 DEF rest

\* A method that returns to its caller.
LEMMA BackToMethod ==
  ASSUME IInv, WalkInv, Final, tree' = tree, calls' = calls,
         NEW g \in Goroutines, InCall(g), NEW a \in Answers,
         NEW d \in Nat \ {0}, Len(stack[g]) = d + 1, NEW c, c = call[g],
         NEW node, node = Top(g).node, Claims(calls[c].op, a) => Reached(c, node)',
         NEW rest, rest = FramesAfter(g, a)
  PROVE  Path(rest)' /\ Passed(rest, c)'
<1>0. PICK s : s = stack[g]
  OBVIOUS
<1> DEFINE f == s[d]
<1>1. /\ Len(rest) = d /\ f \in Frames
      /\ \A i \in 1..d : rest[i].node = s[i].node
      /\ \A i \in 1..d - 1 : rest[i].next = s[i].next /\ rest[i].err = s[i].err
      /\ rest[d].next = f.next + 1 /\ rest[d].err = Combine(g, f, a)
  BY <1>0, FramesLeft
<1>2. /\ Path(s) /\ Passed(s, c) /\ Len(s) = d + 1 /\ s \in Seq(Frames) /\ c \in 1..Len(calls)
      /\ Kept(c)
  BY <1>0 DEF WalkInv, Paths, Passing, IInv, TypeOK, Calling, Kept
<1>3. Path(rest)'
  <2>1. rest[1].node = Root
    BY <1>1, <1>2 DEF Path
  <2>2. ASSUME NEW i \in 1..d - 1
        PROVE  rest[i].next <= Len(Kids(rest[i].node)) /\ rest[i + 1].node = Kids(rest[i].node)[rest[i].next]
    <3>1. i \in 1..d /\ i + 1 \in 1..d /\ i \in 1..Len(s) - 1
      BY <1>2, <2>2
    <3> QED
      BY <1>1, <1>2, <2>2, <3>1 DEF Path
  <2> QED
    BY <1>1, <2>1, <2>2 DEF Path, Kids
<1>4. Passed(s, c)'
  BY <1>2, ReachedStays
<1>5. /\ f.next <= Len(Kids(f.node)) /\ node = Kids(f.node)[f.next] /\ f.next \in Nat
  <2>1. d \in 1..Len(s) - 1 /\ node = s[d + 1].node
    BY <1>0, <1>2 DEF Top
  <2> QED
    BY <1>1, <1>2, <2>1 DEF Path, Frames
<1>6. Claims(calls[c].op, rest[d].err) => Claims(calls[c].op, f.err) /\ Claims(calls[c].op, a)
  BY <1>1 DEF Claims, Combine, Op
<1>7. ASSUME NEW i \in 1..d, Claims(calls[c].op, rest[i].err),
             NEW j \in 1..Len(Kids(rest[i].node)), j < rest[i].next
      PROVE  Reached(c, Kids(rest[i].node)[j])'
  <2>1. CASE i # d \/ j < f.next
    <3>1. i \in 1..Len(s) /\ rest[i].node = s[i].node /\ j < s[i].next
      BY <1>1, <1>2, <1>7, <2>1
    <3>2. Claims(calls[c].op, s[i].err)
      BY <1>1, <1>6, <1>7
    <3> QED
      BY <1>4, <1>7, <3>1, <3>2 DEF Passed, Kids
  <2>2. CASE i = d /\ ~ (j < f.next)
    <3>1. j = f.next /\ rest[i].node = f.node
      BY <1>1, <1>5, <1>7, <2>2
    <3>2. Kids(rest[i].node)[j] = node
      BY <1>5, <3>1
    <3>3. Reached(c, node)'
      BY <1>6, <1>7, <2>2
    <3> QED
      BY <3>2, <3>3 DEF Kids
  <2> QED
    BY <2>1, <2>2
<1>8. Passed(rest, c)'
  BY <1>1, <1>7 DEF Passed, Kids
<1> QED
  BY <1>3, <1>8

\* What the calls in progress have not touched: the calls that have returned.
LEMMA ArrivedStays ==
  ASSUME IInv, WalkInv, Final, tree' = tree, NEW c \in 1..Len(calls), Kept(c),
         result'[c] = result[c], result[c] # "none", Claims(calls[c].op, result[c])
  PROVE  Reached(c, Root)'
<1>1. Reached(c, Root) /\ Root \in Nodes
  BY TreeAssumption DEF WalkInv, Arrived
<1> QED
  BY <1>1, ReachedStays

LEMMA BeforesStay ==
  ASSUME WalkInv, Final, calls' = calls
  PROVE  Befores'
BY DEF WalkInv, Befores, Final

LEMMA ReturnKeeps ==
  ASSUME IInv, WalkInv, Final, tree' = tree, call' = call, calls' = calls,
         NEW g \in Goroutines, InCall(g), NEW a \in Answers, Return(g, a),
         NEW c, c = call[g],
         NEW node, node = Top(g).node, Claims(calls[c].op, a) => Reached(c, node)'
  PROVE  WalkInv'
<1> DEFINE d == Len(stack[g]) - 1
<1>1. /\ stack \in [Goroutines -> Seq(Frames)] /\ Len(stack[g]) \in Nat \ {0}
      /\ result \in [1..MaxCalls -> Answers \cup {"none"}]
      /\ c \in 1..Len(calls) /\ Path(stack[g]) /\ TypeOK
  BY TopFrame DEF IInv, TypeOK, Calling, WalkInv, Paths
<1>2. \A i \in 1..Len(calls) : Kept(i)
  BY DEF Kept
<1>3. Befores'
  BY BeforesStay
<1>4. CASE d = 0
  <2>1. stack' = [stack EXCEPT ![g] = <<>>] /\ result' = [result EXCEPT ![c] = a]
    BY <1>4 DEF Return
  <2>2. node = Root
    <3>1. Len(stack[g]) = 1
      BY <1>1, <1>4
    <3> QED
      BY <1>1, <3>1 DEF Path, Top
  <2>3. ~ InCall(g)' /\ \A h \in Goroutines \ {g} : stack'[h] = stack[h]
    BY <1>1, <2>1 DEF InCall
  <2>4. ASSUME NEW h \in Goroutines, InCall(h)'
        PROVE  Path(stack[h])' /\ Passed(stack[h], call[h])'
    <3>1. h # g /\ InCall(h) /\ stack'[h] = stack[h] /\ call[h] \in 1..Len(calls)
      BY <2>3, <2>4 DEF InCall, IInv, Calling
    <3> QED
      BY <1>2, <3>1, OthersStay
  <2>5. ASSUME NEW i \in 1..Len(calls), result'[i] # "none", Claims(calls[i].op, result'[i])
        PROVE  Reached(i, Root)'
    <3>1. CASE i = c
      <4>1. result'[c] = a
        <5>1. c \in 1..MaxCalls
          BY <1>1, TreeAssumption, LenProperties DEF TypeOK
        <5> QED
          BY <1>1, <2>1, <5>1
      <4> QED
        BY <2>2, <2>5, <3>1, <4>1
    <3>2. CASE i # c
      <4>1. result'[i] = result[i]
        <5>1. i \in 1..MaxCalls
          BY <1>1, <2>5, TreeAssumption, LenProperties DEF TypeOK
        <5> QED
          BY <1>1, <2>1, <3>2, <5>1
      <4> QED
        BY <1>2, <2>5, <4>1, ArrivedStays
    <3> QED
      BY <3>1, <3>2
  <2>6. Fresh'
    BY <1>1, <2>1 DEF WalkInv, Fresh
  <2>7. Arrived'
    BY <2>5 DEF Arrived
  <2> QED
    BY <1>3, <2>4, <2>6, <2>7 DEF WalkInv, Paths, Passing
<1>5. CASE d # 0
  <2>0. PICK rest : rest = FramesAfter(g, a)
    OBVIOUS
  <2>1. stack' = [stack EXCEPT ![g] = rest] /\ result' = result
    BY <1>5, <2>0 DEF Return, FramesAfter
  <2>2. d \in Nat \ {0} /\ Len(stack[g]) = d + 1
    <3>1. \A m \in Nat \ {0} : m - 1 # 0 => m - 1 \in Nat \ {0} /\ m = (m - 1) + 1
      OBVIOUS
    <3> QED
      BY <1>1, <1>5, <3>1
  <2> HIDE DEF d
  <2>3. Path(rest)' /\ Passed(rest, c)'
    BY <2>0, <2>2, BackToMethod
  <2>4. stack'[g] = rest /\ \A h \in Goroutines \ {g} : stack'[h] = stack[h]
    BY <1>1, <2>1
  <2>5. ASSUME NEW h \in Goroutines, InCall(h)'
        PROVE  Path(stack[h])' /\ Passed(stack[h], call[h])'
    <3>1. CASE h = g
      BY <2>3, <2>4, <3>1 DEF Path, Passed
    <3>2. CASE h # g
      <4>1. InCall(h) /\ stack'[h] = stack[h] /\ call[h] \in 1..Len(calls)
        BY <2>4, <2>5, <3>2 DEF InCall, IInv, Calling
      <4> QED
        BY <1>2, <4>1, OthersStay
    <3> QED
      BY <3>1, <3>2
  <2>6. Arrived'
    BY <1>2, <2>1, ArrivedStays DEF Arrived
  <2>7. Fresh'
    BY <2>1 DEF WalkInv, Fresh
  <2> QED
    BY <1>3, <2>5, <2>6, <2>7 DEF WalkInv, Paths, Passing
<1> QED
  BY <1>4, <1>5

LEMMA CallWalks ==
  ASSUME IInv, WalkInv, NEW g \in Goroutines, NEW op \in Ops, NEW type \in Types,
         Call(g, op, type)
  PROVE  WalkInv'
<1> DEFINE new == [op |-> op, type |-> type, before |-> written]
<1>1. /\ calls \in Seq(Called) /\ Len(calls) \in Nat /\ Len(calls) < MaxCalls /\ MaxCalls \in Nat
      /\ TypeOK /\ Root \in Nodes
  BY LenProperties, TreeAssumption DEF IInv, TypeOK, Called, Call
<1>2. new \in Called
  BY <1>1 DEF TypeOK, Called
<1>3. /\ Len(calls') = Len(calls) + 1 /\ calls'[Len(calls) + 1] = new
      /\ \A i \in 1..Len(calls) : calls'[i] = calls[i]
  <2>1. calls' = Append(calls, new)
    BY DEF Call
  <2> HIDE DEF new
  <2> QED
    BY <1>1, <1>2, <2>1, AppendProperties
<1>4. UNCHANGED <<tree, closed, ends, written, synced, flushing, answers, result>> /\ ~ InCall(g)
  BY DEF Call, streams
<1>5. Final /\ \A i \in 1..Len(calls) : Kept(i)
  BY <1>3, <1>4 DEF Final, Kept
<1>6. stack'[g] = <<Enter(Root)>> /\ \A h \in Goroutines \ {g} : stack'[h] = stack[h] /\ call'[h] = call[h]
  BY <1>1 DEF Call, TypeOK
<1>7. PICK c, s : c = call'[g] /\ s = <<Enter(Root)>>
  OBVIOUS
<1>8. Path(s)' /\ Passed(s, c)'
  <2>1. s[1].node = Root /\ s[1].next = 1 /\ Len(s) = 1
    BY <1>7 DEF Enter
  <2>2. Path(s)'
    BY <2>1 DEF Path
  <2>3. Passed(s, c)'
    BY <1>1, <1>4, <2>1, TreeShape DEF Passed, Kids
  <2> QED
    BY <2>2, <2>3
<1>9. ASSUME NEW h \in Goroutines, InCall(h)'
      PROVE  Path(stack[h])' /\ Passed(stack[h], call[h])'
  <2>1. CASE h = g
    BY <1>6, <1>7, <1>8, <2>1 DEF Path, Passed
  <2>2. CASE h # g
    <3>1. InCall(h) /\ stack'[h] = stack[h] /\ call'[h] = call[h] /\ call[h] \in 1..Len(calls)
      BY <1>6, <1>9, <2>2 DEF InCall, IInv, Calling
    <3> QED
      BY <1>4, <1>5, <3>1, OthersStay
  <2> QED
    BY <2>1, <2>2
<1>10. Arrived'
  <2> SUFFICES ASSUME NEW i \in 1..Len(calls'), result'[i] # "none", Claims(calls'[i].op, result'[i])
               PROVE  Reached(i, Root)'
    BY DEF Arrived
  <2>1. i \in 1..Len(calls)
    <3>1. i # Len(calls) + 1
      BY <1>1, <1>4 DEF WalkInv, Fresh
    <3> QED
      BY <1>1, <1>3, <3>1
  <2> QED
    BY <1>3, <1>4, <1>5, <2>1, ArrivedStays
<1>11. Fresh'
  BY <1>1, <1>3, <1>4 DEF WalkInv, Fresh
<1>12. Befores'
  <2> SUFFICES ASSUME NEW i \in 1..Len(calls'), NEW n \in Nodes
               PROVE  calls'[i].before[n] \subseteq written[n]
    BY <1>4 DEF Befores
  <2>1. CASE i = Len(calls) + 1
    BY <1>3, <2>1
  <2>2. CASE i # Len(calls) + 1
    <3>1. i \in 1..Len(calls)
      BY <1>1, <1>3, <2>2
    <3> QED
      BY <1>3, <3>1 DEF WalkInv, Befores
  <2> QED
    BY <2>1, <2>2
<1> QED
  BY <1>9, <1>10, <1>11, <1>12 DEF WalkInv, Paths, Passing

LEMMA DescendWalks ==
  ASSUME IInv, WalkInv, NEW g \in Goroutines, Descend(g)
  PROVE  WalkInv'
<1>0. PICK s, n, i, kid, c : /\ s = stack[g] /\ n = Top(g).node /\ i = Top(g).next
                             /\ kid = Enter(Kids(n)[i]) /\ c = call[g]
  OBVIOUS
<1>1. /\ InCall(g) /\ TypeOK /\ s \in Seq(Frames) /\ Len(s) \in Nat \ {0} /\ n \in Nodes
      /\ i \in Nat \ {0} /\ i <= Len(Kids(n)) /\ Path(s) /\ Top(g) = s[Len(s)]
  BY <1>0, TopFrame DEF Descend, Finished, IInv, WalkInv, Paths, Top
<1>2. UNCHANGED <<tree, closed, ends, written, synced, flushing, call, calls, answers, result>>
  BY DEF Descend, streams, history
<1>3. Final /\ \A l \in 1..Len(calls) : Kept(l)
  BY <1>2 DEF Final, Kept
<1>4. kid \in Frames /\ kid.next = 1 /\ kid.node = Kids(n)[i]
  <2>1. Kids(n)[i] \in Nodes
    BY <1>1, TreeShape
  <2> QED
    BY <1>0, <2>1 DEF Enter, Frames, Answers
<1>5. PICK deeper : deeper = Append(s, kid)
  OBVIOUS
<1>6. /\ Len(deeper) = Len(s) + 1 /\ \A j \in 1..Len(s) : deeper[j] = s[j]
      /\ deeper[Len(s) + 1] = kid
  BY <1>1, <1>4, <1>5, AppendProperties
<1>7. stack'[g] = deeper /\ \A h \in Goroutines \ {g} : stack'[h] = stack[h]
  BY <1>0, <1>1, <1>5 DEF Descend, TypeOK
<1>8. Path(deeper)'
  <2>1. deeper[1].node = Root
    BY <1>1, <1>6 DEF Path
  <2>2. ASSUME NEW j \in 1..Len(s)
        PROVE  /\ deeper[j].next <= Len(Kids(deeper[j].node))
               /\ deeper[j + 1].node = Kids(deeper[j].node)[deeper[j].next]
    <3>1. CASE j = Len(s)
      BY <1>0, <1>1, <1>4, <1>6, <2>2, <3>1
    <3>2. CASE j # Len(s)
      <4>1. j \in 1..Len(s) - 1 /\ j + 1 \in 1..Len(s)
        BY <1>1, <2>2, <3>2
      <4> QED
        BY <1>1, <1>6, <2>2, <4>1 DEF Path
    <3> QED
      BY <3>1, <3>2
  <2>3. Len(deeper) - 1 = Len(s)
    BY <1>1, <1>6
  <2> QED
    BY <1>2, <2>1, <2>2, <2>3 DEF Path, Kids
<1>9. Passed(deeper, c)'
  <2>1. Passed(s, c) /\ c \in 1..Len(calls)
    BY <1>0, <1>1 DEF WalkInv, Passing, IInv, Calling
  <2>2. Passed(s, c)'
    BY <1>1, <1>2, <1>3, <2>1, ReachedStays
  <2>3. ASSUME NEW l \in 1..Len(s) + 1, Claims(calls[c].op, deeper[l].err),
               NEW j \in 1..Len(Kids(deeper[l].node)), j < deeper[l].next
        PROVE  Reached(c, Kids(deeper[l].node)[j])'
    <3>1. l \in 1..Len(s)
      <4>1. CASE l = Len(s) + 1
        <5>1. Len(Kids(kid.node)) \in Nat
          BY <1>1, <1>4, TreeShape DEF Frames
        <5> QED
          BY <1>4, <1>6, <2>3, <4>1, <5>1
      <4> QED
        BY <1>1, <4>1
    <3> QED
      BY <1>2, <1>6, <2>2, <2>3, <3>1 DEF Passed, Kids
  <2> QED
    BY <1>2, <1>6, <2>3 DEF Passed, Kids
<1>10. ASSUME NEW h \in Goroutines, InCall(h)'
       PROVE  Path(stack[h])' /\ Passed(stack[h], call[h])'
  <2>1. CASE h = g
    BY <1>0, <1>2, <1>7, <1>8, <1>9, <2>1 DEF Path, Passed
  <2>2. CASE h # g
    <3>1. InCall(h) /\ stack'[h] = stack[h] /\ call'[h] = call[h] /\ call[h] \in 1..Len(calls)
      BY <1>2, <1>7, <1>10, <2>2 DEF InCall, IInv, Calling
    <3> QED
      BY <1>2, <1>3, <3>1, OthersStay
  <2> QED
    BY <2>1, <2>2
<1>11. Arrived'
  BY <1>2, <1>3, ArrivedStays DEF Arrived
<1>12. Fresh' /\ Befores'
  BY <1>2, <1>3, BeforesStay DEF WalkInv, Fresh
<1> QED
  BY <1>10, <1>11, <1>12 DEF WalkInv, Paths, Passing

LEMMA LeaveWalks ==
  ASSUME IInv, WalkInv, NEW g \in Goroutines, Leave(g)
  PROVE  WalkInv'
<1>0. PICK node, c, a : node = Top(g).node /\ c = call[g] /\ a = Top(g).err
  OBVIOUS
<1>1. /\ InCall(g) /\ TypeOK /\ node \in Nodes /\ a \in Answers /\ Top(g).next \in Nat
      /\ Kind(node) # "stream" /\ Return(g, a) /\ c \in 1..Len(calls)
  BY <1>0, TopFrame DEF Leave, IInv, Calling
<1>2. UNCHANGED <<tree, closed, ends, written, synced, flushing, call, calls, answers>>
  BY DEF Leave, streams
<1>3. Final /\ Kept(c)
  BY <1>2 DEF Final, Kept
<1>4. ASSUME Claims(calls[c].op, a) PROVE Reached(c, node)'
  <2>1. Top(g).next > Len(Kids(node))
    BY <1>0, <1>4 DEF Leave, Finished, Claims, Op
  <2>2. Passed(stack[g], c) /\ Len(stack[g]) \in 1..Len(stack[g])
    <3>1. Len(stack[g]) \in Nat \ {0}
      BY <1>1, TopFrame
    <3> QED
      BY <1>0, <1>1, <3>1 DEF WalkInv, Passing
  <2>3. ASSUME NEW j \in 1..Len(Kids(node)) PROVE Reached(c, Kids(node)[j])
    <3>1. j < Top(g).next
      BY <1>1, <2>1, TreeShape
    <3> QED
      BY <1>0, <1>4, <2>2, <3>1 DEF Passed, Top
  <2>4. Reached(c, node)
    BY <1>1, <2>3, ReachedByKids
  <2> QED
    BY <1>1, <1>2, <1>3, <2>4, ReachedStays
<1> QED
  BY <1>0, <1>1, <1>2, <1>3, <1>4, ReturnKeeps

LEMMA StreamWalks ==
  ASSUME IInv, WalkInv, NEW g \in Goroutines, NEW a \in Answers, Stream(g, a)
  PROVE  WalkInv'
<1>0. PICK node, c : node = Top(g).node /\ c = call[g]
  OBVIOUS
<1>1. /\ InCall(g) /\ TypeOK /\ node \in Nodes /\ Kind(node) = "stream" /\ Return(g, a)
      /\ UNCHANGED <<tree, call, calls>> /\ c \in 1..Len(calls)
  BY <1>0, TopFrame DEF Stream, IInv, Calling
<1>2. Final
  BY StreamDoes
<1>3. ASSUME Claims(calls[c].op, a) PROVE Reached(c, node)'
  <2>1. Below(node)' \subseteq {node}
    BY <1>1, BelowStream DEF Below
  <2>2. node \in Done(c)'
    <3>1. CASE calls[c].op = "Close"
      <4>1. CloseOf(node)
        BY <1>0, <3>1 DEF Stream, Op
      <4>2. closed'[node]
        BY <1>1, <4>1 DEF CloseOf, TypeOK
      <4> QED
        BY <1>1, <3>1, <4>2 DEF Done
    <3>2. CASE calls[c].op = "Flush" /\ a = "nil"
      <4>1. FlushOf(node, a)
        BY <1>0, <3>2 DEF Stream, Op
      <4>2. synced'[node] = written[node]
        BY <1>1, <3>2, <4>1 DEF FlushOf, TypeOK
      <4>3. calls[c].before[node] \subseteq written[node]
        BY <1>1 DEF WalkInv, Befores
      <4> QED
        BY <1>1, <3>2, <4>2, <4>3 DEF Done
    <3> QED
      BY <1>3, <3>1, <3>2 DEF Claims
  <2> QED
    BY <2>1, <2>2 DEF Reached
<1> QED
  BY <1>0, <1>1, <1>2, <1>3, ReturnKeeps

LEMMA SameWalks ==
  ASSUME IInv, WalkInv, Final, UNCHANGED <<tree, stack, call, calls, result>>
  PROVE  WalkInv'
<1>1. \A i \in 1..Len(calls) : Kept(i)
  BY DEF Kept
<1>2. ASSUME NEW h \in Goroutines, InCall(h)'
      PROVE  Path(stack[h])' /\ Passed(stack[h], call[h])'
  <2>1. InCall(h) /\ call[h] \in 1..Len(calls)
    BY <1>2 DEF InCall, IInv, Calling
  <2> QED
    BY <1>1, <2>1, OthersStay
<1>3. Arrived'
  BY <1>1, ArrivedStays DEF Arrived
<1>4. Fresh' /\ Befores'
  BY BeforesStay DEF WalkInv, Fresh
<1> QED
  BY <1>2, <1>3, <1>4 DEF WalkInv, Paths, Passing

----------------------------------------------------------------------------
(* What becomes of an entry.  The handlers are finitely many, and each is  *)
(* given to one other handler at most, in one place.                       *)

Bounded(b) == \A n \in Nodes : n <= b

\* What a handler makes of the verdicts v of its kids when A is what the streams
\* answered, as in Outcome.
Verdicts == Answers \cup {"none"}

Verdict(A, v, n) ==
  LET below == {v[Kids(n)[i]] : i \in 1..Len(Kids(n))}
  IN  CASE Kind(n) = "stream" -> A[n]
        [] Kind(n) = "failover" /\ below # {} /\ "nil" \notin below ->
             v[Kids(n)[Len(Kids(n))]]
        [] OTHER -> "nil"

LEMMA KidsHigher ==
  ASSUME TypeOK, NEW n \in Nodes, NEW i \in 1..Len(Kids(n))
  PROVE  Kids(n)[i] \in Nodes /\ Kids(n)[i] > n
  BY TreeShape, TreeAssumption DEF TypeOK, IsTree, Kids

\* The verdict of a handler depends on those of its kids alone.
LEMMA VerdictOf ==
  ASSUME TypeOK, NEW A, NEW n \in Nodes, NEW v, NEW w,
         \A i \in 1..Len(Kids(n)) : v[Kids(n)[i]] = w[Kids(n)[i]]
  PROVE  Verdict(A, v, n) = Verdict(A, w, n)
<1>1. {v[Kids(n)[i]] : i \in 1..Len(Kids(n))} = {w[Kids(n)[i]] : i \in 1..Len(Kids(n))}
  OBVIOUS
<1>2. CASE Len(Kids(n)) = 0
  <2>1. {v[Kids(n)[i]] : i \in 1..Len(Kids(n))} = {}
    BY <1>2
  <2> QED
    BY <1>1, <2>1 DEF Verdict
<1>3. CASE Len(Kids(n)) # 0
  <2>1. Len(Kids(n)) \in 1..Len(Kids(n))
    BY <1>3, TreeShape
  <2>2. v[Kids(n)[Len(Kids(n))]] = w[Kids(n)[Len(Kids(n))]]
    BY <2>1
  <2> QED
    BY <1>1, <2>2 DEF Verdict
<1> QED
  BY <1>2, <1>3

LEMMA VerdictType ==
  ASSUME TypeOK, NEW A \in [Nodes -> Verdicts], NEW n \in Nodes,
         NEW v, \A i \in 1..Len(Kids(n)) : v[Kids(n)[i]] \in Verdicts
  PROVE  Verdict(A, v, n) \in Verdicts
<1>1. A[n] \in Verdicts /\ "nil" \in Verdicts
  BY DEF Verdicts, Answers
<1>2. CASE Len(Kids(n)) = 0
  <2>1. {v[Kids(n)[i]] : i \in 1..Len(Kids(n))} = {}
    BY <1>2
  <2> QED
    BY <1>1, <2>1 DEF Verdict
<1>3. CASE Len(Kids(n)) # 0
  <2>1. Len(Kids(n)) \in 1..Len(Kids(n))
    BY <1>3, TreeShape
  <2> QED
    BY <1>1, <2>1 DEF Verdict
<1> QED
  BY <1>2, <1>3

Judged(t, A) ==
  LET v[n \in Nodes] ==
        LET below == {v[t.kids[n][i]] : i \in 1..Len(t.kids[n])}
        IN  CASE t.kind[n] = "stream" -> A[n]
              [] t.kind[n] = "failover" /\ below # {} /\ "nil" \notin below ->
                   v[t.kids[n][Len(t.kids[n])]]
              [] OTHER -> "nil"
  IN  v

LEMMA OutcomeIs ==
  ASSUME NEW c
  PROVE  /\ Outcome(c) = Judged(tree, answers[c])
         /\ Outcome(c)' = Judged(tree', answers'[c])
<1>1. Outcome(c) = Judged(tree, answers[c])
  BY DEF Outcome, Judged, Kind, Kids
<1>2. Outcome(c)' = Judged(tree', answers'[c])
  BY DEF Outcome, Judged, Kind, Kids
<1> QED
  BY <1>1, <1>2

\* Judged is what its definition says: handlers have higher numbers below them, so
\* that a function with its values can be given from the highest number down.
LEMMA JudgedIs ==
  ASSUME TypeOK, NEW A \in [Nodes -> Verdicts], NEW b \in Nat, Bounded(b)
  PROVE  /\ Judged(tree, A) \in [Nodes -> Verdicts]
         /\ \A n \in Nodes : Judged(tree, A)[n] = Verdict(A, Judged(tree, A), n)
<1> DEFINE Right(v, k) == \A n \in Nodes : n + k > b => v[n] = Verdict(A, v, n)
           T == {k \in Nat : \E v \in [Nodes -> Verdicts] : Right(v, k)}
<1>0. Nodes \subseteq Nat /\ \A n \in Nodes : n <= b
  BY TreeAssumption DEF Bounded
<1>1. 0 \in T
  <2>1. [n \in Nodes |-> "nil"] \in [Nodes -> Verdicts]
    BY DEF Verdicts, Answers
  <2>2. Right([n \in Nodes |-> "nil"], 0)
    BY <1>0
  <2> QED
    BY <2>1, <2>2
<1>2. ASSUME NEW k \in T PROVE k + 1 \in T
  <2>1. PICK v \in [Nodes -> Verdicts] : Right(v, k)
    BY <1>2
  <2> DEFINE w == [n \in Nodes |-> IF n + k = b THEN Verdict(A, v, n) ELSE v[n]]
  <2>2. w \in [Nodes -> Verdicts]
    <3>1. ASSUME NEW n \in Nodes PROVE Verdict(A, v, n) \in Verdicts
      BY <2>1, KidsHigher, VerdictType
    <3> QED
      BY <2>1, <3>1
  <2>3. ASSUME NEW n \in Nodes, n + (k + 1) > b PROVE w[n] = Verdict(A, w, n)
    <3>1. \A i \in 1..Len(Kids(n)) : v[Kids(n)[i]] = w[Kids(n)[i]]
      <4>1. ASSUME NEW i \in 1..Len(Kids(n)) PROVE Kids(n)[i] \in Nodes /\ Kids(n)[i] + k # b
        <5>1. Kids(n)[i] \in Nodes /\ Kids(n)[i] > n
          BY KidsHigher
        <5>2. Kids(n)[i] \in Nat /\ n \in Nat /\ k \in Nat
          BY <1>0, <5>1
        <5> QED
          BY <2>3, <5>1, <5>2
      <4> QED
        BY <4>1
    <3>2. Verdict(A, w, n) = Verdict(A, v, n)
      BY <3>1, VerdictOf
    <3>3. n + k = b \/ n + k > b
      BY <1>0, <2>3
    <3> QED
      BY <2>1, <3>2, <3>3
  <2> HIDE DEF w
  <2>4. Right(w, k + 1)
    BY <2>3
  <2> QED
    BY <2>2, <2>4
<1>3. T = Nat
  <2> HIDE DEF T
  <2>1. T \subseteq Nat
    BY DEF T
  <2> QED
    BY <1>1, <1>2, <2>1, Induct
<1>4. PICK v \in [Nodes -> Verdicts] : Right(v, b + 1)
  <2>1. b + 1 \in T
    BY <1>3
  <2> QED
    BY <2>1
<1>5. v = [n \in Nodes |-> Verdict(A, v, n)]
  <2>1. ASSUME NEW n \in Nodes PROVE v[n] = Verdict(A, v, n)
    <3>1. n \in Nat /\ n + (b + 1) > b
      BY <1>0
    <3> QED
      BY <1>4, <3>1
  <2> QED
    BY <1>4, <2>1
<1>7. Judged(tree, A) = [n \in Nodes |-> Verdict(A, Judged(tree, A), n)]
  BY <1>5, Zenon DEF Judged, Verdict, Kids, Kind
<1>8. ASSUME NEW n \in Nodes PROVE Judged(tree, A)[n] \in Verdicts
  <2> DEFINE B == {n_1 \in Nodes : Judged(tree, A)[n_1] \notin Verdicts}
  <2> SUFFICES ASSUME B # {} PROVE FALSE
    OBVIOUS
  <2>1. PICK x \in B : \A y \in B : y <= x
    BY <1>0, Greatest
  <2>2. \A i \in 1..Len(Kids(x)) : Judged(tree, A)[Kids(x)[i]] \in Verdicts
    <3>1. ASSUME NEW i \in 1..Len(Kids(x)) PROVE Kids(x)[i] \in Nodes /\ ~ (Kids(x)[i] <= x)
      <4>1. Kids(x)[i] \in Nodes /\ Kids(x)[i] > x
        BY KidsHigher
      <4>2. Kids(x)[i] \in Nat /\ x \in Nat
        BY <1>0, <4>1
      <4> QED
        BY <4>1, <4>2
    <3> QED
      BY <2>1, <3>1
  <2>3. Verdict(A, Judged(tree, A), x) \in Verdicts
    BY <2>2, VerdictType
  <2>4. Judged(tree, A)[x] = Verdict(A, Judged(tree, A), x)
    BY <1>7
  <2> QED
    BY <2>3, <2>4
<1> QED
  BY <1>7, <1>8

----------------------------------------------------------------------------
(* Where a call of Log has been.  A handler on the goroutine's stack has   *)
(* called the kids its loop has passed, and the one above it; any other    *)
(* has called, if it was called, those that Offered says.                  *)

Offers(v, p, i) ==
  Kind(p) = "failover" => \A j \in 1..i - 1 : v[Kids(p)[j]] # "nil"

On(s, p) == \E l \in 1..Len(s) : s[l].node = p

Loops(s, p, i) ==
  \E l \in 1..Len(s) : /\ s[l].node = p
                       /\ i < s[l].next \/ (i = s[l].next /\ l < Len(s))

Taken(s, v, p, i) == IF On(s, p) THEN Loops(s, p, i) ELSE Offers(v, p, i)

Followed(s, v, D) ==
  \A p \in D : \A i \in 1..Len(Kids(p)) : Taken(s, v, p, i) => Kids(p)[i] \in D

Been(s, v) == {n \in Nodes : \A D \in SUBSET Nodes : Root \in D /\ Followed(s, v, D) => n \in D}

LEMMA BeenClosed ==
  ASSUME TypeOK, NEW s, NEW v
  PROVE  Been(s, v) \in SUBSET Nodes /\ Root \in Been(s, v) /\ Followed(s, v, Been(s, v))
<1>1. Been(s, v) \in SUBSET Nodes /\ Root \in Been(s, v)
  BY TreeAssumption DEF Been
<1>2. ASSUME NEW p \in Been(s, v), NEW i \in 1..Len(Kids(p)), Taken(s, v, p, i)
      PROVE  Kids(p)[i] \in Been(s, v)
  <2>1. p \in Nodes /\ Kids(p)[i] \in Nodes
    BY <1>1, KidsHigher
  <2>2. ASSUME NEW D \in SUBSET Nodes, Root \in D, Followed(s, v, D) PROVE Kids(p)[i] \in D
    <3>1. p \in D
      BY <2>2 DEF Been
    <3> QED
      BY <1>2, <2>2, <3>1 DEF Followed
  <2> QED
    BY <2>1, <2>2 DEF Been
<1> QED
  BY <1>1, <1>2 DEF Followed

LEMMA BeenLeast ==
  ASSUME NEW s, NEW v, NEW D \in SUBSET Nodes, Root \in D, Followed(s, v, D)
  PROVE  Been(s, v) \subseteq D
  BY DEF Been

\* Every handler a call has been at, but the root, was called by another.
LEMMA BeenBy ==
  ASSUME TypeOK, NEW s, NEW v, NEW n \in Been(s, v), n # Root
  PROVE  \E p \in Been(s, v) : \E i \in 1..Len(Kids(p)) : Taken(s, v, p, i) /\ Kids(p)[i] = n
<1> SUFFICES ASSUME \A p \in Been(s, v) : \A i \in 1..Len(Kids(p)) :
                       Taken(s, v, p, i) => Kids(p)[i] # n
             PROVE  FALSE
  OBVIOUS
<1> DEFINE D == Been(s, v) \ {n}
<1>1. D \in SUBSET Nodes /\ Root \in D
  BY BeenClosed
<1>2. Followed(s, v, D)
  BY BeenClosed DEF Followed
<1>3. Been(s, v) \subseteq D
  BY <1>1, <1>2, BeenLeast
<1> QED
  BY <1>3

\* If the same handlers were taken, the call has been at the same.
LEMMA BeenSame ==
  ASSUME NEW r, NEW w, NEW s, NEW v,
         \A p \in Nodes : \A i \in 1..Len(Kids(p)) : Taken(r, w, p, i) <=> Taken(s, v, p, i)
  PROVE  Been(r, w) = Been(s, v)
<1>1. \A D \in SUBSET Nodes : Followed(r, w, D) <=> Followed(s, v, D)
  BY DEF Followed
<1> QED
  BY <1>1 DEF Been

\* When no method of the call is left, it has been at the handlers it was offered to.
OfferedBy(t, v) ==
  LET o[n \in Nodes] ==
        \/ n = Root
        \/ \E p \in Nodes : p < n /\ o[p] /\ \E i \in 1..Len(t.kids[p]) :
             /\ t.kids[p][i] = n
             /\ t.kind[p] = "failover" => \A j \in 1..i-1 : v[t.kids[p][j]] # "nil"
  IN  {n \in Nodes : o[n]}

LEMMA OfferedIs ==
  ASSUME NEW c
  PROVE  /\ Offered(c) = OfferedBy(tree, Outcome(c))
         /\ Offered(c)' = OfferedBy(tree', Outcome(c)')
<1>1. Offered(c) = OfferedBy(tree, Outcome(c))
  BY DEF Offered, OfferedBy, Kind, Kids
<1>2. Offered(c)' = OfferedBy(tree', Outcome(c)')
  BY DEF Offered, OfferedBy, Kind, Kids
<1> QED
  BY <1>1, <1>2

LEMMA OfferedByIs ==
  ASSUME TypeOK, NEW v
  PROVE  OfferedBy(tree, v) = Been(<<>>, v)
<1> DEFINE B == Been(<<>>, v)
           Step(o, n) == \/ n = Root
                         \/ \E p \in Nodes : p < n /\ o[p] /\ \E i \in 1..Len(Kids(p)) :
                              Kids(p)[i] = n /\ Offers(v, p, i)
           star == [n \in Nodes |-> n \in B]
<1>1. \A p, i : Taken(<<>>, v, p, i) <=> Offers(v, p, i)
  BY DEF Taken, On
<1>2. /\ B \in SUBSET Nodes /\ Root \in B
      /\ \A p \in B : \A i \in 1..Len(Kids(p)) : Offers(v, p, i) => Kids(p)[i] \in B
  BY <1>1, BeenClosed DEF Followed
<1>3. ASSUME NEW n \in Nodes PROVE (n \in B) <=> Step(star, n)
  <2>1. ASSUME n \in B, n # Root PROVE Step(star, n)
    <3>1. PICK p \in B : \E i \in 1..Len(Kids(p)) : Taken(<<>>, v, p, i) /\ Kids(p)[i] = n
      BY <2>1, BeenBy
    <3>2. PICK i \in 1..Len(Kids(p)) : Offers(v, p, i) /\ Kids(p)[i] = n
      BY <1>1, <3>1
    <3>3. p \in Nodes /\ n > p
      BY <1>2, <3>2, KidsHigher
    <3>4. p < n
      BY <3>3, TreeAssumption
    <3> QED
      BY <3>2, <3>3, <3>4
  <2>2. ASSUME Step(star, n), n # Root PROVE n \in B
    BY <1>2, <2>2
  <2> QED
    BY <1>2, <2>1, <2>2
<1>4. star = [n \in Nodes |-> Step(star, n)]
  <2>1. ASSUME NEW n \in Nodes PROVE (n \in B) = Step(star, n)
    <3>1. Step(star, n) \in BOOLEAN
      OBVIOUS
    <3>2. (n \in B) \in BOOLEAN
      OBVIOUS
    <3>3. (n \in B) <=> Step(star, n)
      BY <1>3
    <3> HIDE DEF B, star, Step
    <3> QED
      BY <3>1, <3>2, <3>3, Zenon
  <2> HIDE DEF B, Step
  <2> QED
    BY <2>1, Zenon
<1> DEFINE o == CHOOSE o_1 : o_1 = [n \in Nodes |-> Step(o_1, n)]
<1>5. OfferedBy(tree, v) = {n \in Nodes : o[n]}
  BY DEF OfferedBy, Offers, Kids, Kind
<1>6. o = [n \in Nodes |-> Step(o, n)]
  <2> HIDE DEF B, Step, star
  <2> QED
    BY <1>4, Zenon
<1> HIDE DEF o
<1>7. \A n \in Nodes : o[n] <=> Step(o, n)
  <2> HIDE DEF Step
  <2>1. ASSUME NEW n \in Nodes PROVE o[n] = Step(o, n)
    BY <1>6, Zenon
  <2> QED
    BY <2>1, Zenon
<1>8. \A n \in Nodes : o[n] <=> n \in B
  <2> DEFINE U == {n \in Nodes : ~ (o[n] <=> n \in B)}
  <2> SUFFICES ASSUME U # {} PROVE FALSE
    OBVIOUS
  <2>1. U \subseteq Nat
    BY TreeAssumption
  <2> HIDE DEF U
  <2>2. PICK x \in U : \A y \in U : x <= y
    BY <2>1, Least
  <2>3. x \in Nodes /\ ~ (o[x] <=> x \in B)
    BY <2>2 DEF U
  <2>4. \A p \in Nodes : p < x => (o[p] <=> p \in B)
    <3>1. ASSUME NEW p \in Nodes, p < x, ~ (o[p] <=> p \in B) PROVE FALSE
      <4>1. p \in U /\ x <= p /\ p \in Nat /\ x \in Nat
        BY <2>2, <2>3, <3>1, TreeAssumption DEF U
      <4> QED
        BY <3>1, <4>1
    <3> QED
      BY <3>1, Zenon
  <2>5. \A p \in Nodes : star[p] <=> p \in B
    OBVIOUS
  <2>6. Step(o, x) <=> Step(star, x)
    <3> HIDE DEF star, B
    <3> QED
      BY <2>4, <2>5, Zenon
  <2> HIDE DEF Step, star
  <2> QED
    BY <1>3, <1>7, <2>3, <2>6, Zenon
<1> QED
  BY <1>2, <1>5, <1>8

----------------------------------------------------------------------------
(* The stack of a call.  Its frames are numbered downwards, as the tree is,*)
(* and what is not on it is not changed by the call.                       *)

Descending(s) == \A l, m \in 1..Len(s) : l < m => s[l].node < s[m].node

IsStack(s) ==
  /\ Len(s) \in Nat \ {0}
  /\ \A l \in 1..Len(s) : s[l] \in Frames
  /\ Path(s)
  /\ Descending(s)

LEMMA OneFrame ==
  ASSUME NEW s, IsStack(s), NEW l \in 1..Len(s)
  PROVE  /\ \A m \in 1..Len(s) : s[m].node = s[l].node => m = l
         /\ \A i : Loops(s, s[l].node, i)
                     <=> i < s[l].next \/ (i = s[l].next /\ l < Len(s))
<1>1. ASSUME NEW m \in 1..Len(s), s[m].node = s[l].node PROVE m = l
  <2>1. s[m].node \in Nat /\ s[l].node \in Nat /\ m \in Nat /\ l \in Nat
    <3>1. s[m] \in Frames /\ s[l] \in Frames
      BY DEF IsStack
    <3>2. s[m].node \in Nodes /\ s[l].node \in Nodes
      BY <3>1 DEF Frames
    <3>3. Len(s) \in Nat
      BY DEF IsStack
    <3>4. s[m].node \in Nat /\ s[l].node \in Nat
      BY <3>2, TreeAssumption
    <3>5. m \in Nat /\ l \in Nat
      BY <3>3
    <3> QED
      BY <3>4, <3>5
  <2>2. ~ (m < l) /\ ~ (l < m)
    BY <1>1, <2>1 DEF IsStack, Descending
  <2> QED
    BY <2>1, <2>2
<1> QED
  BY <1>1 DEF Loops

\* A kid is on the stack only when the handler it was given to is below it.
LEMMA KidOn ==
  ASSUME Unshared(tree), NEW s, IsStack(s), NEW p \in Nodes, NEW i \in 1..Len(Kids(p)),
         On(s, Kids(p)[i])
  PROVE  \E m \in 1..Len(s) - 1 : s[m].node = p /\ s[m].next = i
<1>0. PICK l \in 1..Len(s) : s[l].node = Kids(p)[i]
  BY DEF On
<1>1. l # 1
  BY <1>0 DEF IsStack, Path, Unshared, Kids
<1>2. l - 1 \in 1..Len(s) - 1 /\ (l - 1) + 1 = l /\ l - 1 \in 1..Len(s)
  BY <1>1 DEF IsStack
<1>3. PICK m \in 1..Len(s) : m = l - 1
  BY <1>2
<1>4. PICK q, k : q = s[m].node /\ k = s[m].next
  OBVIOUS
<1>5. q \in Nodes /\ k \in 1..Len(Kids(q)) /\ Kids(p)[i] = Kids(q)[k]
  <2>1. s[m] \in Frames
    BY DEF IsStack
  <2>2. k <= Len(Kids(q)) /\ s[l].node = Kids(q)[k]
    BY <1>2, <1>3, <1>4 DEF IsStack, Path
  <2>3. k \in Nat \ {0} /\ q \in Nodes
    BY <1>4, <2>1 DEF Frames
  <2> QED
    BY <1>0, <2>2, <2>3
<1>6. p = q /\ i = k
  BY <1>5 DEF Unshared, Kids
<1> QED
  BY <1>2, <1>3, <1>4, <1>6

LEMMA KidOff ==
  ASSUME Unshared(tree), NEW s, IsStack(s), NEW p \in Nodes, ~ On(s, p),
         NEW i \in 1..Len(Kids(p))
  PROVE  ~ On(s, Kids(p)[i])
<1> SUFFICES ASSUME On(s, Kids(p)[i]) PROVE FALSE
  OBVIOUS
<1>1. PICK m \in 1..Len(s) - 1 : s[m].node = p
  BY KidOn
<1>2. m \in 1..Len(s)
  BY DEF IsStack
<1> QED
  BY <1>1, <1>2 DEF On

LEMMA TopKidOff ==
  ASSUME Unshared(tree), NEW s, IsStack(s), NEW i \in 1..Len(Kids(s[Len(s)].node))
  PROVE  ~ On(s, Kids(s[Len(s)].node)[i])
<1> SUFFICES ASSUME On(s, Kids(s[Len(s)].node)[i]) PROVE FALSE
  OBVIOUS
<1>1. Len(s) \in Nat /\ Len(s) \in 1..Len(s) /\ s[Len(s)].node \in Nodes
  BY DEF IsStack, Frames
<1>2. PICK m \in 1..Len(s) - 1 : s[m].node = s[Len(s)].node
  BY <1>1, KidOn
<1>3. m \in 1..Len(s) /\ m # Len(s)
  BY <1>1
<1> QED
  BY <1>1, <1>2, <1>3, OneFrame

\* The handlers on the stack are handlers the call has been at.
LEMMA OnBeen ==
  ASSUME TypeOK, NEW s, IsStack(s), NEW v
  PROVE  \A l \in 1..Len(s) : s[l].node \in Been(s, v)
<1> DEFINE U == {l \in 1..Len(s) : s[l].node \notin Been(s, v)}
<1> SUFFICES ASSUME U # {} PROVE FALSE
  OBVIOUS
<1>0. Len(s) \in Nat /\ U \subseteq Nat
  BY DEF IsStack
<1> HIDE DEF U
<1>1. PICK l \in U : \A m \in U : l <= m
  BY <1>0, Least
<1>2. l \in 1..Len(s) /\ s[l].node \notin Been(s, v)
  BY <1>1 DEF U
<1>3. l # 1
  BY <1>2, BeenClosed DEF IsStack, Path
<1>4. PICK m \in 1..Len(s) - 1 : l = m + 1
  <2>1. l - 1 \in 1..Len(s) - 1 /\ l = (l - 1) + 1
    BY <1>0, <1>2, <1>3
  <2> QED
    BY <2>1
<1>5. m \in 1..Len(s) /\ m \notin U /\ m < Len(s)
  BY <1>0, <1>1, <1>4
<1>6. s[m].node \in Been(s, v)
  BY <1>5 DEF U
<1>7. PICK p, i : p = s[m].node /\ i = s[m].next
  OBVIOUS
<1>8. i \in 1..Len(Kids(p)) /\ s[l].node = Kids(p)[i]
  <2>1. i <= Len(Kids(p)) /\ s[l].node = Kids(p)[i]
    BY <1>4, <1>7 DEF IsStack, Path
  <2>2. s[m] \in Frames
    BY <1>5 DEF IsStack
  <2>3. i \in Nat \ {0} /\ p \in Nodes
    BY <1>7, <2>2 DEF Frames
  <2> QED
    BY <2>1, <2>3, TreeShape
<1>9. Taken(s, v, p, i)
  BY <1>5, <1>7 DEF Taken, On, Loops
<1> QED
  BY <1>2, <1>6, <1>7, <1>8, <1>9, BeenClosed DEF Followed

\* What the streams on the stack answer is nothing to handlers that are not on it.
LEMMA JudgedOff ==
  ASSUME TypeOK, Unshared(tree), NEW b \in Nat, Bounded(b),
         NEW s, IsStack(s), NEW A \in [Nodes -> Verdicts], NEW B \in [Nodes -> Verdicts],
         \A n \in Nodes : ~ On(s, n) => A[n] = B[n]
  PROVE  \A n \in Nodes : ~ On(s, n) => Judged(tree, B)[n] = Judged(tree, A)[n]
<1> DEFINE v == Judged(tree, A)
           w == Judged(tree, B)
           U == {n \in Nodes : ~ On(s, n) /\ v[n] # w[n]}
<1> SUFFICES ASSUME U # {} PROVE FALSE
  OBVIOUS
<1>1. \A n \in Nodes : v[n] = Verdict(A, v, n) /\ w[n] = Verdict(B, w, n)
  BY JudgedIs
<1> HIDE DEF v, w
<1>2. U \subseteq Nat /\ \A n \in U : n <= b
  BY TreeAssumption DEF Bounded
<1> HIDE DEF U
<1>3. PICK n \in U : \A y \in U : y <= n
  BY <1>2, Greatest
<1>4. n \in Nodes /\ ~ On(s, n) /\ v[n] # w[n]
  BY <1>3 DEF U
<1>5. ASSUME NEW i \in 1..Len(Kids(n)) PROVE v[Kids(n)[i]] = w[Kids(n)[i]]
  <2>1. Kids(n)[i] \in Nodes /\ Kids(n)[i] > n /\ ~ On(s, Kids(n)[i])
    BY <1>4, KidsHigher, KidOff
  <2>2. Kids(n)[i] \in Nat /\ n \in Nat
    BY <1>4, <2>1, TreeAssumption
  <2>3. Kids(n)[i] \notin U
    BY <1>3, <2>1, <2>2
  <2> QED
    BY <2>1, <2>3 DEF U
<1>6. Verdict(A, v, n) = Verdict(A, w, n)
  BY <1>4, <1>5, VerdictOf
<1>7. Verdict(A, w, n) = Verdict(B, w, n)
  BY <1>4 DEF Verdict
<1> QED
  BY <1>1, <1>4, <1>6, <1>7

\* The stack after a return: one frame less, and the loop below has passed a kid.
Popped(r, s) ==
  /\ Len(r) = Len(s) - 1
  /\ \A l \in 1..Len(s) - 1 :
       /\ r[l].node = s[l].node
       /\ r[l].next = IF l = Len(s) - 1 THEN s[l].next + 1 ELSE s[l].next

LEMMA PopBeen ==
  ASSUME TypeOK, Unshared(tree), NEW s, IsStack(s), NEW r, Popped(r, s), NEW v, NEW w,
         \A n \in Nodes : ~ On(s, n) => w[n] = v[n],
         \A i \in 1..Len(Kids(s[Len(s)].node)) :
           i < s[Len(s)].next <=> Offers(w, s[Len(s)].node, i)
  PROVE  Been(r, w) = Been(s, v)
<1> DEFINE n == s[Len(s)].node
<1>0. Len(s) \in 1..Len(s) /\ Len(s) \in Nat /\ Len(r) = Len(s) - 1 /\ 1..Len(r) \subseteq 1..Len(s)
  BY DEF IsStack, Popped
<1>1. ASSUME NEW p \in Nodes, ~ On(s, p), NEW i \in 1..Len(Kids(p))
      PROVE  Taken(r, w, p, i) <=> Taken(s, v, p, i)
  <2>1. ~ On(r, p)
    BY <1>0, <1>1 DEF On, Popped
  <2>2. \A j \in 1..i - 1 : w[Kids(p)[j]] = v[Kids(p)[j]]
    <3>1. ASSUME NEW j \in 1..i - 1 PROVE w[Kids(p)[j]] = v[Kids(p)[j]]
      <4>1. j \in 1..Len(Kids(p))
        BY <1>1, TreeShape
      <4> QED
        BY <1>1, <4>1, KidOff, KidsHigher
    <3> QED
      BY <3>1
  <2> QED
    BY <1>1, <2>1, <2>2 DEF Taken, Offers
<1>2. ASSUME NEW i \in 1..Len(Kids(n))
      PROVE  Taken(r, w, n, i) <=> Taken(s, v, n, i)
  <2>1. ~ On(r, n)
    <3>1. ASSUME NEW l \in 1..Len(r) PROVE r[l].node # n
      <4>1. l \in 1..Len(s) - 1 /\ l \in 1..Len(s) /\ l # Len(s)
        BY <1>0
      <4> QED
        BY <1>0, <4>1, OneFrame DEF Popped
    <3> QED
      BY <3>1 DEF On
  <2>2. On(s, n) /\ (Loops(s, n, i) <=> i < s[Len(s)].next)
    <3>1. Loops(s, n, i) <=> i < s[Len(s)].next \/ (i = s[Len(s)].next /\ Len(s) < Len(s))
      BY <1>0, OneFrame
    <3> QED
      BY <1>0, <3>1 DEF On
  <2> QED
    BY <2>1, <2>2 DEF Taken
<1>3. ASSUME NEW l \in 1..Len(s) - 1, NEW p, p = s[l].node, NEW i \in 1..Len(Kids(p))
      PROVE  Taken(r, w, p, i) <=> Taken(s, v, p, i)
  <2>1. l \in 1..Len(r) /\ l \in 1..Len(s) /\ On(s, p) /\ On(r, p)
    BY <1>0, <1>3 DEF On, Popped
  <2>2. Loops(s, p, i) <=> i < s[l].next \/ i = s[l].next
    <3>1. l < Len(s)
      BY <1>0, <1>3
    <3> QED
      BY <1>3, <2>1, <3>1, OneFrame
  <2>3. Loops(r, p, i) <=> i < r[l].next \/ (i = r[l].next /\ l < Len(r))
    <3>1. ASSUME NEW m \in 1..Len(r), r[m].node = p PROVE m = l
      <4>1. m \in 1..Len(s) - 1 /\ m \in 1..Len(s)
        BY <1>0
      <4> QED
        BY <1>3, <2>1, <3>1, <4>1, OneFrame DEF Popped
    <3>2. r[l].node = p
      BY <1>3 DEF Popped
    <3> QED
      BY <2>1, <3>1, <3>2 DEF Loops
  <2>4. s[l].next \in Nat /\ i \in Nat /\ l \in Nat
    BY <2>1 DEF IsStack, Frames
  <2>5. CASE l = Len(s) - 1
    <3>1. r[l].next = s[l].next + 1 /\ ~ (l < Len(r))
      BY <1>0, <1>3, <2>5 DEF Popped
    <3> QED
      BY <2>1, <2>2, <2>3, <2>4, <3>1 DEF Taken
  <2>6. CASE l # Len(s) - 1
    <3>1. r[l].next = s[l].next /\ l < Len(r)
      BY <1>0, <1>3, <2>6 DEF Popped
    <3> QED
      BY <2>1, <2>2, <2>3, <2>4, <3>1 DEF Taken
  <2> QED
    BY <2>5, <2>6
<1>4. ASSUME NEW p \in Nodes, NEW i \in 1..Len(Kids(p))
      PROVE  Taken(r, w, p, i) <=> Taken(s, v, p, i)
  <2>1. CASE ~ On(s, p)
    BY <1>1, <2>1
  <2>2. CASE On(s, p)
    <3>1. PICK l \in 1..Len(s) : s[l].node = p
      BY <2>2 DEF On
    <3>2. l = Len(s) \/ l \in 1..Len(s) - 1
      BY <1>0
    <3> QED
      BY <1>2, <1>3, <3>1, <3>2
  <2> QED
    BY <2>1, <2>2
<1> QED
  BY <1>4, BeenSame

----------------------------------------------------------------------------
(* The invariant of the calls of Log *)

\* What the loops on the stack know of the kids they have passed: failover has the
\* error of the last, which is why it called the next; a multi handler has none.
Heard(s, v) ==
  \A l \in 1..Len(s) :
    /\ s[l].next <= Len(Kids(s[l].node)) + 1
    /\ s[l].next = 1 \/ Kind(s[l].node) # "failover" => s[l].err = "nil"
    /\ Kind(s[l].node) = "failover" =>
         \A j \in 1..Len(Kids(s[l].node)) :
           /\ j + 1 = s[l].next => s[l].err = v[Kids(s[l].node)[j]]
           /\ j + 1 = s[l].next /\ l < Len(s) => s[l].err # "nil"
           /\ j + 1 < s[l].next => v[Kids(s[l].node)[j]] # "nil"

\* The streams that have answered are those the call has been at, less the one it
\* is at now.
Asked(s, A, v) ==
  \A n \in Streams : A[n] # "none" <=> n \in Been(s, v) /\ n # s[Len(s)].node

Follows(s, A) == Heard(s, Judged(tree, A)) /\ Asked(s, A, Judged(tree, A))

\* A call is one goroutine's, and returns when that has no method left.
Alone == \A g, h \in Goroutines : InCall(g) /\ InCall(h) /\ call[g] = call[h] => g = h
Open  == \A g \in Goroutines : InCall(g) => result[call[g]] = "none"
Unasked ==
  \A c \in 1..MaxCalls : c > Len(calls) => \A n \in Nodes : answers[c][n] = "none"

Stacks == \A g \in Goroutines : InCall(g) => Descending(stack[g])
Hears  == \A g \in Goroutines : InCall(g) /\ Op(g) = "Log" => Follows(stack[g], answers[call[g]])

LogRight(c) ==
  /\ result[c] = Outcome(c)[Root]
  /\ \A n \in Streams : answers[c][n] # "none" <=> n \in Offered(c)

\* What LogOutcome says, but for how often a stream is visited.
Settled == \A c \in Returned("Log") : LogRight(c)

LogInv == Alone /\ Open /\ Unasked /\ Stacks /\ Hears /\ Settled

\* A call that no goroutine is in stays as it is.
LEMMA RightStays ==
  ASSUME tree' = tree, NEW c, answers'[c] = answers[c], result'[c] = result[c], LogRight(c)
  PROVE  LogRight(c)'
<1>1. Outcome(c)' = Outcome(c)
  BY OutcomeIs
<1>2. Offered(c)' = Offered(c)
  BY <1>1, OfferedIs
<1>3. Streams' = Streams
  BY DEF Streams, Kind
<1> QED
  BY <1>1, <1>2, <1>3 DEF LogRight

\* Following depends on the tree, the stack and the answers alone.
LEMMA FollowsIsSo ==
  ASSUME tree' = tree, NEW h, Follows(stack'[h], answers'[call'[h]])
  PROVE  Follows(stack[h], answers[call[h]])'
<1>1. Judged(tree', answers'[call'[h]]) = Judged(tree, answers'[call'[h]])
  OBVIOUS
<1>2. PICK s, A, v : s = stack'[h] /\ A = answers'[call'[h]] /\ v = Judged(tree, A)
  OBVIOUS
<1>3. Heard(s, v) /\ Asked(s, A, v)
  BY <1>2 DEF Follows
<1>4. Heard(s, v)' <=> Heard(s, v)
  BY DEF Heard, Kids, Kind
<1>5. Streams' = Streams /\ Been(s, v)' = Been(s, v)
  BY DEF Streams, Been, Followed, Taken, On, Loops, Offers, Kids, Kind
<1>6. Asked(s, A, v)' <=> Asked(s, A, v)
  BY <1>5 DEF Asked
<1>7. Heard(s, v)' /\ Asked(s, A, v)'
  BY <1>3, <1>4, <1>6
<1>8. /\ Heard(stack[h], Judged(tree, answers[call[h]]))'
      /\ Asked(stack[h], answers[call[h]], Judged(tree, answers[call[h]]))'
  BY <1>1, <1>2, <1>7
<1> QED
  BY <1>8 DEF Follows

\* A call gets on by a step of its goroutine g; the others stay as they are.
LEMMA OneSteps ==
  ASSUME IInv, LogInv, tree' = tree,
         NEW g \in Goroutines, NEW c \in 1..Len(calls'), c = call'[g],
         \A h \in Goroutines \ {g} :
           stack'[h] = stack[h] /\ call'[h] = call[h] /\ (InCall(h) => call[h] # c),
         Len(calls') \in Nat, Len(calls') >= Len(calls),
         \A m \in 1..Len(calls) : calls'[m] = calls[m],
         \A m \in 1..Len(calls') : m = c \/ m \in 1..Len(calls),
         \A m \in 1..MaxCalls : m # c => answers'[m] = answers[m] /\ result'[m] = result[m],
         stack'[g] # <<>> => /\ Descending(stack'[g]) /\ result'[c] = "none"
                             /\ calls'[c].op = "Log" => Follows(stack'[g], answers'[c]),
         stack'[g] = <<>> /\ calls'[c].op = "Log" => LogRight(c)'
  PROVE  LogInv'
<1>0. /\ Len(calls) \in Nat /\ MaxCalls \in Nat /\ Len(calls) <= MaxCalls
      /\ \A h \in Goroutines : InCall(h) => call[h] \in 1..Len(calls) /\ call[h] \in 1..MaxCalls
  <2>1. Len(calls) \in Nat /\ MaxCalls \in Nat /\ Len(calls) <= MaxCalls
    BY TreeAssumption, LenProperties DEF IInv, TypeOK
  <2>2. \A h \in Goroutines : InCall(h) => call[h] \in 1..Len(calls)
    BY DEF IInv, Calling
  <2> QED
    BY <2>1, <2>2
<1>1. Alone'
  BY DEF LogInv, Alone, InCall
<1>2. Open'
  BY <1>0 DEF LogInv, Open, InCall
<1>3. Unasked'
  <2> SUFFICES ASSUME NEW m \in 1..MaxCalls, m > Len(calls'), NEW n \in Nodes
               PROVE  answers'[m][n] = "none"
    BY DEF Unasked
  <2>1. m # c /\ m > Len(calls)
    BY <1>0
  <2> QED
    BY <2>1 DEF LogInv, Unasked
<1>4. Stacks'
  BY DEF LogInv, Stacks, InCall, Descending
<1>5. Hears'
  <2> SUFFICES ASSUME NEW h \in Goroutines, stack'[h] # <<>>, calls'[call'[h]].op = "Log"
               PROVE  Follows(stack[h], answers[call[h]])'
    BY DEF Hears, InCall, Op
  <2>1. Follows(stack'[h], answers'[call'[h]])
    <3>1. CASE h = g
      BY <3>1
    <3>2. CASE h # g
      <4>1. InCall(h) /\ stack'[h] = stack[h] /\ call'[h] = call[h] /\ call[h] \in 1..Len(calls)
            /\ call[h] # c /\ call[h] \in 1..MaxCalls
        BY <1>0, <3>2 DEF InCall
      <4>2. Op(h) = "Log"
        BY <4>1 DEF Op
      <4>3. answers'[call'[h]] = answers[call[h]]
        BY <4>1
      <4> QED
        BY <4>1, <4>2, <4>3 DEF LogInv, Hears
    <3> QED
      BY <3>1, <3>2
  <2>2. tree' = tree
    OBVIOUS
  <2> QED
    BY <2>1, <2>2, FollowsIsSo
<1>6. Settled'
  <2>1. ASSUME NEW m \in 1..Len(calls'), calls'[m].op = "Log", result'[m] # "none"
        PROVE  LogRight(m)'
    <3>1. CASE m = c
      BY <2>1, <3>1
    <3>2. CASE m # c
      <4>1. m \in 1..Len(calls) /\ m \in 1..MaxCalls
        BY <1>0, <2>1, <3>2
      <4>2. answers'[m] = answers[m] /\ result'[m] = result[m] /\ m \in Returned("Log")
        BY <2>1, <3>2, <4>1 DEF Returned
      <4> QED
        BY <4>2, RightStays DEF LogInv, Settled, LogRight
    <3> QED
      BY <3>1, <3>2
  <2> QED
    BY <2>1 DEF Settled, Returned, LogRight
<1> QED
  BY <1>1, <1>2, <1>3, <1>4, <1>5, <1>6 DEF LogInv

----------------------------------------------------------------------------
(* Calls that begin, and methods that call others. *)

LEMMA FreshFollows ==
  ASSUME TypeOK, NEW A, \A n \in Nodes : A[n] = "none", NEW s, s = <<Enter(Root)>>
  PROVE  Descending(s) /\ Follows(s, A)
<1> DEFINE v == Judged(tree, A)
<1>1. Len(s) = 1 /\ s[1].node = Root /\ s[1].next = 1 /\ s[1].err = "nil"
  BY DEF Enter
<1>2. Descending(s)
  BY <1>1 DEF Descending
<1>3. Heard(s, v)
  <2>1. Len(Kids(Root)) \in Nat
    BY TreeAssumption, TreeShape
  <2> QED
    BY <1>1, <2>1 DEF Heard
<1>4. Followed(s, v, {Root})
  <2>1. \A i \in 1..Len(Kids(Root)) : ~ Taken(s, v, Root, i)
    BY <1>1 DEF Taken, On, Loops
  <2> QED
    BY <2>1 DEF Followed
<1>5. Been(s, v) \subseteq {Root}
  BY <1>4, TreeAssumption, BeenLeast
<1>6. Asked(s, A, v)
  BY <1>1, <1>5 DEF Asked, Streams
<1> QED
  BY <1>2, <1>3, <1>6 DEF Follows

\* The stack after a call of the next kid.
Deeper(r, s, n, i) ==
  /\ n = s[Len(s)].node /\ i = s[Len(s)].next /\ i \in 1..Len(Kids(n))
  /\ Len(r) = Len(s) + 1
  /\ \A l \in 1..Len(s) : r[l] = s[l]
  /\ r[Len(r)] = Enter(Kids(n)[i])

\* The next kid of the innermost method is called: a handler the call has not been at.
LEMMA DeeperBeen ==
  ASSUME TypeOK, Unshared(tree), NEW s, IsStack(s), NEW v, NEW r, IsStack(r),
         NEW n, NEW i, Deeper(r, s, n, i)
  PROVE  /\ Been(r, v) = Been(s, v) \cup {Kids(n)[i]}
         /\ Kids(n)[i] \notin Been(s, v)
<1> DEFINE kid == Kids(n)[i]
<1>a. /\ n = s[Len(s)].node /\ i = s[Len(s)].next /\ i \in 1..Len(Kids(n))
      /\ Len(r) = Len(s) + 1 /\ \A l \in 1..Len(s) : r[l] = s[l]
      /\ r[Len(r)] = Enter(Kids(n)[i])
  BY DEF Deeper
<1> USE <1>a
<1>0. /\ Len(s) \in 1..Len(s) /\ Len(s) \in Nat /\ n \in Nodes /\ 1..Len(s) \subseteq 1..Len(r)
      /\ Len(r) \in 1..Len(r)
  BY DEF IsStack, Frames
<1>1. kid \in Nodes /\ ~ On(s, kid) /\ kid # Root
  BY <1>0, KidsHigher, TopKidOff DEF Unshared, Kids
<1>2. ~ Taken(s, v, n, i)
  <2>1. ~ Loops(s, n, i)
    <3>1. Loops(s, s[Len(s)].node, i)
            <=> i < s[Len(s)].next \/ (i = s[Len(s)].next /\ Len(s) < Len(s))
      BY <1>0, OneFrame
    <3>2. i \in Nat
      BY <1>0, TreeShape
    <3>3. ~ (i < s[Len(s)].next) /\ ~ (Len(s) < Len(s))
      BY <1>0, <3>2
    <3> QED
      BY <3>1, <3>3
  <2>2. On(s, n)
    BY <1>0 DEF On
  <2> HIDE <1>a
  <2> QED
    BY <2>1, <2>2 DEF Taken
<1>3. kid \notin Been(s, v)
  <2>1. SUFFICES ASSUME kid \in Been(s, v) PROVE FALSE
    OBVIOUS
  <2>2. PICK p \in Been(s, v) : \E j \in 1..Len(Kids(p)) : Taken(s, v, p, j) /\ Kids(p)[j] = kid
    BY <1>1, <2>1, BeenBy
  <2>3. PICK j \in 1..Len(Kids(p)) : Taken(s, v, p, j) /\ Kids(p)[j] = kid
    BY <2>2
  <2>4. p \in Nodes
    BY BeenClosed
  <2>a. \A m1, m2 \in Nodes : \A a \in 1..Len(Kids(m1)) : \A b \in 1..Len(Kids(m2)) :
          Kids(m1)[a] = Kids(m2)[b] => m1 = m2 /\ a = b
    BY DEF Unshared, Kids
  <2>5. p = n /\ j = i
    BY <1>0, <2>a, <2>3, <2>4
  <2> HIDE <1>a
  <2> HIDE DEF kid
  <2>6. Taken(s, v, p, j)
    BY <2>3
  <2> QED
    BY <1>2, <2>5, <2>6
<1>4. \A j \in 1..Len(Kids(kid)) : ~ Taken(r, v, kid, j)
  <2>1. r[Len(r)].node = kid /\ r[Len(r)].next = 1
    BY DEF Enter
  <2>2. ASSUME NEW j \in 1..Len(Kids(kid)) PROVE ~ Loops(r, kid, j)
    <3>1. Loops(r, r[Len(r)].node, j)
            <=> j < r[Len(r)].next \/ (j = r[Len(r)].next /\ Len(r) < Len(r))
      BY <1>0, OneFrame
    <3>2. Len(r) \in Nat /\ j \in Nat /\ ~ (j < 1)
      BY <1>1, TreeShape DEF IsStack
    <3> QED
      BY <2>1, <3>1, <3>2
  <2>3. On(r, kid)
    BY <1>0, <2>1 DEF On
  <2> QED
    BY <2>2, <2>3 DEF Taken
<1>5. ASSUME NEW p \in Nodes, p # kid, NEW j \in 1..Len(Kids(p))
      PROVE  Taken(r, v, p, j) <=> Taken(s, v, p, j) \/ (p = n /\ j = i)
  <2>1. On(r, p) <=> On(s, p)
    <3>1. ASSUME NEW l \in 1..Len(r), r[l].node = p PROVE l \in 1..Len(s)
      BY <1>0, <1>5, <3>1 DEF Enter
    <3> QED
      BY <1>0, <3>1 DEF On
  <2>2. CASE ~ On(s, p)
    BY <1>0, <2>1, <2>2 DEF Taken, On
  <2>3. CASE On(s, p)
    <3>1. PICK l \in 1..Len(s) : s[l].node = p
      BY <2>3 DEF On
    <3>2. l \in 1..Len(r) /\ r[l].node = p /\ r[l].next = s[l].next
      BY <1>0, <3>1
    <3>3. Loops(r, p, j) <=> j < s[l].next \/ (j = s[l].next /\ l < Len(r))
      BY <3>2, OneFrame
    <3>4. Loops(s, p, j) <=> j < s[l].next \/ (j = s[l].next /\ l < Len(s))
      BY <3>1, OneFrame
    <3>5. l < Len(r) /\ (l < Len(s) \/ l = Len(s))
      BY <1>0
    <3>6. p = n => l = Len(s)
      BY <1>0, <3>1, OneFrame
    <3> QED
      BY <1>0, <2>1, <2>3, <3>1, <3>3, <3>4, <3>5, <3>6 DEF Taken
  <2> QED
    BY <2>2, <2>3
<1>6. Been(r, v) \subseteq Been(s, v) \cup {kid}
  <2>1. Followed(r, v, Been(s, v) \cup {kid})
    <3>1. ASSUME NEW p \in Been(s, v) \cup {kid}, NEW j \in 1..Len(Kids(p)), Taken(r, v, p, j)
          PROVE  Kids(p)[j] \in Been(s, v) \cup {kid}
      <4>1. p # kid /\ p \in Been(s, v) /\ p \in Nodes
        BY <1>4, <3>1, BeenClosed
      <4>2. Taken(s, v, p, j) \/ (p = n /\ j = i)
        BY <1>5, <3>1, <4>1
      <4> QED
        BY <4>1, <4>2, BeenClosed DEF Followed
    <3> QED
      BY <3>1 DEF Followed
  <2>2. Been(s, v) \cup {kid} \in SUBSET Nodes /\ Root \in Been(s, v) \cup {kid}
    BY <1>1, BeenClosed
  <2> HIDE DEF kid
  <2> QED
    BY <2>1, <2>2, BeenLeast
<1>7. Been(s, v) \subseteq Been(r, v)
  <2> DEFINE D == Been(r, v) \cap Been(s, v)
  <2>1. D \in SUBSET Nodes /\ Root \in D
    BY BeenClosed
  <2>2. Followed(s, v, D)
    <3>1. ASSUME NEW p \in D, NEW j \in 1..Len(Kids(p)), Taken(s, v, p, j)
          PROVE  Kids(p)[j] \in D
      <4>1. p # kid /\ p \in Nodes /\ p \in Been(r, v) /\ p \in Been(s, v)
        BY <1>3, BeenClosed
      <4>2. Taken(r, v, p, j)
        BY <1>5, <3>1, <4>1
      <4> QED
        BY <3>1, <4>1, <4>2, BeenClosed DEF Followed
    <3> QED
      BY <3>1 DEF Followed
  <2> HIDE DEF D
  <2>3. Been(s, v) \subseteq D
    BY <2>1, <2>2, BeenLeast
  <2> QED
    BY <2>3 DEF D
<1>8. kid \in Been(r, v)
  BY <1>0, OnBeen DEF Enter
<1> QED
  BY <1>3, <1>6, <1>7, <1>8

LEMMA DeeperFollows ==
  ASSUME TypeOK, Unshared(tree), NEW s, IsStack(s), NEW A, Follows(s, A), NEW r, IsStack(r),
         NEW n, NEW i, Deeper(r, s, n, i), Kind(n) # "stream",
         Kind(n) = "failover" => i = 1 \/ s[Len(s)].err # "nil"
  PROVE  Follows(r, A)
<1>a. PICK v : v = Judged(tree, A)
  OBVIOUS
<1>b. /\ n = s[Len(s)].node /\ i = s[Len(s)].next /\ i \in 1..Len(Kids(n))
      /\ Len(r) = Len(s) + 1 /\ \A l \in 1..Len(s) : r[l] = s[l]
      /\ r[Len(r)] = Enter(Kids(n)[i])
  BY DEF Deeper
<1>0. Heard(s, v) /\ Asked(s, A, v) /\ Len(s) \in Nat
  BY <1>a DEF Follows, IsStack
<1>1. /\ Been(r, v) = Been(s, v) \cup {Kids(n)[i]}
      /\ Kids(n)[i] \notin Been(s, v)
  BY DeeperBeen
<1> USE <1>b
<1>2. Asked(r, A, v)
  <2>1. r[Len(r)].node = Kids(n)[i] /\ n \notin Streams
    BY DEF Enter, Streams
  <2> QED
    BY <1>0, <1>1, <2>1 DEF Asked
<1>3. Heard(r, v)
  <2> SUFFICES ASSUME NEW l \in 1..Len(r)
               PROVE  /\ r[l].next <= Len(Kids(r[l].node)) + 1
                      /\ r[l].next = 1 \/ Kind(r[l].node) # "failover" => r[l].err = "nil"
                      /\ Kind(r[l].node) = "failover" =>
                           \A j \in 1..Len(Kids(r[l].node)) :
                             /\ j + 1 = r[l].next => r[l].err = v[Kids(r[l].node)[j]]
                             /\ j + 1 = r[l].next /\ l < Len(r) => r[l].err # "nil"
                             /\ j + 1 < r[l].next => v[Kids(r[l].node)[j]] # "nil"
    BY DEF Heard
  <2>1. CASE l = Len(r)
    <3>1. r[l].next = 1 /\ r[l].err = "nil" /\ r[l].node \in Nodes
      BY <2>1 DEF Enter, IsStack, Frames
    <3>2. Len(Kids(r[l].node)) \in Nat
      BY <3>1, TreeShape
    <3> QED
      BY <3>1, <3>2
  <2>2. CASE l # Len(r)
    <3>1. l \in 1..Len(s) /\ r[l] = s[l]
      BY <1>0, <2>2
    <3>2. l = Len(s) \/ l < Len(s)
      BY <1>0, <3>1
    <3>3. ASSUME Kind(s[l].node) = "failover", NEW j \in 1..Len(Kids(s[l].node)), j + 1 = s[l].next
          PROVE  s[l].err # "nil"
      <4>1. CASE l < Len(s)
        BY <1>0, <3>1, <3>3, <4>1 DEF Heard
      <4>2. CASE l = Len(s)
        <5>1. i # 1
          BY <3>3, <4>2
        <5> QED
          BY <3>3, <4>2, <5>1
      <4> QED
        BY <3>2, <4>1, <4>2
    <3> QED
      BY <1>0, <3>1, <3>3 DEF Heard
  <2> QED
    BY <2>1, <2>2
<1> QED
  BY <1>a, <1>2, <1>3 DEF Follows

----------------------------------------------------------------------------
(* Methods that return. *)

\* What a method that returns a leaves.
Left(r, s, a) ==
  /\ Popped(r, s)
  /\ \A l \in 1..Len(s) - 1 :
       r[l].err = IF l < Len(s) - 1 THEN s[l].err
                  ELSE IF Kind(s[l].node) = "failover" \/ s[l].err # "nil" THEN a ELSE s[l].err

\* The answers after it, which may be one more, and what it says of its kids.
Answered(B, A, n) ==
  /\ \A m \in Nodes : m # n => B[m] = A[m]
  /\ n \in Streams => B[n] # "none"

Returns(s, w, a) ==
  LET n == s[Len(s)].node
  IN  /\ w[n] = a
      /\ \A i \in 1..Len(Kids(n)) : i < s[Len(s)].next <=> Offers(w, n, i)

LEMMA PoppedFollows ==
  ASSUME TypeOK, Unshared(tree), NEW b \in Nat, Bounded(b),
         NEW s, IsStack(s), NEW A \in [Nodes -> Verdicts], Follows(s, A),
         NEW B \in [Nodes -> Verdicts], Answered(B, A, s[Len(s)].node),
         NEW w, w = Judged(tree, B), NEW a, Returns(s, w, a), NEW r, Left(r, s, a)
  PROVE  /\ \A m \in Streams : B[m] # "none" <=> m \in Been(r, w)
         /\ Len(s) # 1 => Follows(r, B)
<1>a. PICK v, n : v = Judged(tree, A) /\ n = s[Len(s)].node
  OBVIOUS
<1>b. /\ \A m \in Nodes : m # n => B[m] = A[m]
      /\ n \in Streams => B[n] # "none"
      /\ w[n] = a /\ \A i \in 1..Len(Kids(n)) : i < s[Len(s)].next <=> Offers(w, n, i)
      /\ Popped(r, s)
      /\ \A l \in 1..Len(s) - 1 :
           r[l].err = IF l < Len(s) - 1 THEN s[l].err
                      ELSE IF Kind(s[l].node) = "failover" \/ s[l].err # "nil" THEN a ELSE s[l].err
  BY <1>a DEF Answered, Returns, Left
<1> USE <1>a, <1>b
<1>0. /\ Heard(s, v) /\ Asked(s, A, v)
      /\ Len(s) \in 1..Len(s) /\ Len(s) \in Nat /\ Len(r) = Len(s) - 1
      /\ \A l \in 1..Len(s) : s[l].node \in Nodes /\ s[l].next \in Nat \ {0}
  <2>1. ASSUME NEW l \in 1..Len(s) PROVE s[l].node \in Nodes /\ s[l].next \in Nat \ {0}
    <3>1. s[l] \in Frames
      BY DEF IsStack
    <3> QED
      BY <3>1 DEF Frames
  <2> QED
    BY <2>1 DEF Follows, IsStack, Popped
<1>1. \A m \in Nodes : ~ On(s, m) => w[m] = v[m]
  <2>1. \A m \in Nodes : ~ On(s, m) => A[m] = B[m]
    BY <1>0 DEF On
  <2> QED
    BY <2>1, JudgedOff
<1>2. Been(r, w) = Been(s, v)
  BY <1>1, PopBeen
<1>3. ASSUME NEW m \in Streams PROVE B[m] # "none" <=> m \in Been(r, w)
  <2>1. CASE m = n
    BY <1>0, <1>2, <2>1, OnBeen
  <2>2. CASE m # n
    BY <1>0, <1>2, <2>2 DEF Asked, Streams
  <2> QED
    BY <2>1, <2>2
<1>4. ASSUME Len(s) # 1 PROVE Asked(r, B, w)
  <2>1. Len(s) - 1 \in 1..Len(s) - 1 /\ Len(s) - 1 \in 1..Len(s)
    BY <1>0, <1>4
  <2>2. PICK d \in 1..Len(s) - 1 : d = Len(s) - 1
    BY <2>1
  <2>3. r[Len(r)].node = s[d].node /\ s[d].next <= Len(Kids(s[d].node))
    BY <1>0, <2>2 DEF Popped, IsStack, Path
  <2>4. s[d].node \notin Streams
    <3>1. SUFFICES ASSUME s[d].node \in Streams PROVE FALSE
      OBVIOUS
    <3>2. Kids(s[d].node) = <<>>
      <4>1. IsTree(tree)
        BY TreeAssumption DEF TypeOK
      <4>2. PICK p \in Nodes : p = s[d].node
        BY <3>1 DEF Streams
      <4>3. Kids(p) = <<>>
        BY <3>1, <4>1, <4>2 DEF IsTree, Streams, Kind, Kids
      <4> QED
        BY <4>2, <4>3
    <3>3. Len(Kids(s[d].node)) = 0 /\ s[d].next \in Nat \ {0}
      BY <1>0, <2>1, <2>2, <3>2
    <3> QED
      BY <2>3, <3>3
  <2> QED
    BY <1>3, <2>3, <2>4 DEF Asked
<1>5. ASSUME NEW l \in 1..Len(s) - 1, NEW p, p = s[l].node
      PROVE  /\ r[l].next <= Len(Kids(p)) + 1
             /\ r[l].next = 1 \/ Kind(p) # "failover" => r[l].err = "nil"
             /\ Kind(p) = "failover" =>
                  \A j \in 1..Len(Kids(p)) :
                    /\ j + 1 = r[l].next => r[l].err = w[Kids(p)[j]]
                    /\ j + 1 = r[l].next /\ l < Len(r) => r[l].err # "nil"
                    /\ j + 1 < r[l].next => w[Kids(p)[j]] # "nil"
  <2>1. l \in 1..Len(s) /\ l < Len(s) /\ p \in Nodes /\ s[l].next \in Nat \ {0} /\ Len(Kids(p)) \in Nat
    BY <1>0, <1>5, TreeShape
  <2>2. /\ s[l].next <= Len(Kids(p)) + 1
        /\ s[l].next = 1 \/ Kind(p) # "failover" => s[l].err = "nil"
        /\ Kind(p) = "failover" =>
             \A j \in 1..Len(Kids(p)) :
               /\ j + 1 = s[l].next => s[l].err = v[Kids(p)[j]] /\ s[l].err # "nil"
               /\ j + 1 < s[l].next => v[Kids(p)[j]] # "nil"
    BY <1>0, <1>5, <2>1 DEF Heard
  <2>3. ASSUME NEW j \in 1..Len(Kids(p)), j # s[l].next PROVE w[Kids(p)[j]] = v[Kids(p)[j]]
    <3>1. ~ On(s, Kids(p)[j])
      <4>1. SUFFICES ASSUME On(s, Kids(p)[j]) PROVE FALSE
        OBVIOUS
      <4>2. PICK m \in 1..Len(s) - 1 : s[m].node = p /\ s[m].next = j
        BY <2>1, <4>1, KidOn
      <4>3. l \in 1..Len(s) /\ m \in 1..Len(s) /\ s[m].node = s[l].node
        BY <1>0, <1>5, <2>1, <4>2
      <4>4. m = l
        BY <4>3, OneFrame
      <4> QED
        BY <2>3, <4>2, <4>4
    <3> QED
      BY <1>1, <2>1, <3>1, KidsHigher
  <2>4. CASE l < Len(s) - 1
    <3>0. l # Len(s) - 1
      BY <1>0, <2>1, <2>4
    <3>1. r[l].next = s[l].next /\ r[l].err = s[l].err
      BY <2>4, <3>0 DEF Popped
    <3>2. \A j \in 1..Len(Kids(p)) : j + 1 = s[l].next \/ j + 1 < s[l].next => j # s[l].next
      BY <2>1
    <3> QED
      BY <2>2, <2>3, <3>1, <3>2
  <2>5. CASE l = Len(s) - 1
    <3>1. /\ r[l].next = s[l].next + 1
          /\ r[l].err = IF Kind(p) = "failover" \/ s[l].err # "nil" THEN a ELSE s[l].err
          /\ ~ (l < Len(r))
      BY <1>0, <1>5, <2>5 DEF Popped
    <3>2. s[l].next <= Len(Kids(p)) /\ n = Kids(p)[s[l].next]
      <4>1. l + 1 = Len(s)
        BY <1>0, <2>5
      <4>2. s[l].next <= Len(Kids(s[l].node)) /\ s[l + 1].node = Kids(s[l].node)[s[l].next]
        BY DEF IsStack, Path
      <4> QED
        BY <1>5, <4>1, <4>2
    <3>3. r[l].next <= Len(Kids(p)) + 1 /\ r[l].next # 1
      BY <2>1, <3>1, <3>2
    <3>4. ASSUME Kind(p) = "failover", NEW j \in 1..Len(Kids(p)), j + 1 = r[l].next
          PROVE  r[l].err = w[Kids(p)[j]]
      <4>1. j = s[l].next
        BY <2>1, <3>1, <3>4
      <4> QED
        BY <3>1, <3>2, <3>4, <4>1
    <3>5. ASSUME Kind(p) = "failover", NEW j \in 1..Len(Kids(p)), j + 1 < r[l].next
          PROVE  w[Kids(p)[j]] # "nil"
      <4>1. j # s[l].next /\ (j + 1 = s[l].next \/ j + 1 < s[l].next)
        BY <2>1, <3>1, <3>5
      <4> QED
        BY <2>2, <2>3, <3>5, <4>1
    <3> QED
      BY <2>2, <3>1, <3>3, <3>4, <3>5
  <2> QED
    BY <1>0, <2>4, <2>5
<1>6. ASSUME Len(s) # 1 PROVE Heard(r, w)
  <2>1. ASSUME NEW l \in 1..Len(r)
        PROVE  r[l].node = s[l].node /\ l \in 1..Len(s) - 1
    BY <1>0, <2>1 DEF Popped
  <2> QED
    BY <1>5, <2>1 DEF Heard
<1> QED
  BY <1>3, <1>4, <1>6 DEF Follows

\* A multi handler returns when its kids all have been called; failover also when one took
\* the entry.  What it returns is the verdict on its kids.
LEMMA LeaveOffers ==
  ASSUME TypeOK, NEW b \in Nat, Bounded(b), NEW A \in [Nodes -> Verdicts],
         NEW v, v = Judged(tree, A), NEW s, IsStack(s), Heard(s, v),
         LET f == s[Len(s)]
         IN  /\ Kind(f.node) \in {"failover", "list"}
             /\ f.next > Len(Kids(f.node)) \/ (Kind(f.node) = "failover" /\ f.next > 1 /\ f.err = "nil")
  PROVE  Returns(s, v, s[Len(s)].err)
<1>a. PICK n, next, err : n = s[Len(s)].node /\ next = s[Len(s)].next /\ err = s[Len(s)].err
  OBVIOUS
<1>b. /\ Kind(n) \in {"failover", "list"}
      /\ next > Len(Kids(n)) \/ (Kind(n) = "failover" /\ next > 1 /\ err = "nil")
  BY <1>a
<1> USE <1>a, <1>b
<1>0. /\ Len(s) \in 1..Len(s) /\ n \in Nodes /\ next \in Nat \ {0} /\ Len(Kids(n)) \in Nat
      /\ next <= Len(Kids(n)) + 1
  <2>1. Len(s) \in 1..Len(s) /\ s[Len(s)] \in Frames
    BY DEF IsStack
  <2>2. n \in Nodes /\ next \in Nat \ {0}
    BY <2>1 DEF Frames
  <2>3. next <= Len(Kids(n)) + 1
    BY <2>1 DEF Heard
  <2> QED
    BY <2>1, <2>2, <2>3, TreeShape
<1>1. v[n] = Verdict(A, v, n)
  BY <1>0, JudgedIs
<1>2. CASE Kind(n) = "list"
  <2>1. next > Len(Kids(n)) /\ err = "nil" /\ v[n] = "nil"
    BY <1>0, <1>1, <1>2 DEF Heard, Verdict
  <2> QED
    BY <1>0, <1>2, <2>1 DEF Offers, Returns
<1>3. CASE Kind(n) = "failover" /\ next = 1
  <2>1. err = "nil"
    BY <1>0, <1>3 DEF Heard
  <2>2. ~ (next > 1) /\ Len(Kids(n)) = 0
    BY <1>0, <1>3
  <2>3. {v[Kids(n)[i]] : i \in 1..Len(Kids(n))} = {}
    BY <2>2
  <2>4. v[n] = "nil"
    BY <1>1, <1>3, <2>3 DEF Verdict
  <2> QED
    BY <2>1, <2>2, <2>4 DEF Returns
<1>4. CASE Kind(n) = "failover" /\ next # 1
  <2>1. PICK last \in 1..Len(Kids(n)) : last + 1 = next
    <3>1. next - 1 \in 1..Len(Kids(n)) /\ (next - 1) + 1 = next
      BY <1>0, <1>4
    <3> QED
      BY <3>1
  <2>2. err = v[Kids(n)[last]]
    BY <1>0, <1>4, <2>1 DEF Heard
  <2>3. \A j \in 1..Len(Kids(n)) : j < last => v[Kids(n)[j]] # "nil"
    <3>1. ASSUME NEW j \in 1..Len(Kids(n)), j < last PROVE v[Kids(n)[j]] # "nil"
      <4>1. j + 1 < next
        BY <1>0, <2>1, <3>1
      <4> QED
        BY <1>0, <1>4, <4>1 DEF Heard
    <3> QED
      BY <3>1
  <2>4. CASE err = "nil"
    <3>1. "nil" \in {v[Kids(n)[i]] : i \in 1..Len(Kids(n))}
      BY <2>2, <2>4
    <3>2. v[n] = "nil"
      BY <1>1, <1>4, <3>1 DEF Verdict
    <3>3. ASSUME NEW i \in 1..Len(Kids(n)) PROVE i < next <=> Offers(v, n, i)
      <4>1. CASE i < next
        <5>1. \A j \in 1..i - 1 : j \in 1..Len(Kids(n)) /\ j < last
          BY <1>0, <2>1, <4>1
        <5> QED
          BY <2>3, <4>1, <5>1 DEF Offers
      <4>2. CASE ~ (i < next)
        <5>1. last \in 1..i - 1
          BY <1>0, <2>1, <4>2
        <5> QED
          BY <1>4, <2>2, <2>4, <4>2, <5>1 DEF Offers
      <4> QED
        BY <4>1, <4>2
    <3> QED
      BY <2>4, <3>2, <3>3 DEF Returns
  <2>5. CASE err # "nil"
    <3>1. last = Len(Kids(n))
      BY <1>0, <2>1, <2>5
    <3>2. \A j \in 1..Len(Kids(n)) : v[Kids(n)[j]] # "nil"
      <4>1. ASSUME NEW j \in 1..Len(Kids(n)) PROVE v[Kids(n)[j]] # "nil"
        <5>1. j = last \/ j < last
          BY <1>0, <3>1
        <5> QED
          BY <2>2, <2>3, <2>5, <5>1
      <4> QED
        BY <4>1
    <3>3. "nil" \notin {v[Kids(n)[i]] : i \in 1..Len(Kids(n))}
      BY <3>2
    <3>4. {v[Kids(n)[i]] : i \in 1..Len(Kids(n))} # {}
      BY <2>1
    <3>5. v[n] = v[Kids(n)[Len(Kids(n))]]
      BY <1>1, <1>4, <3>3, <3>4 DEF Verdict
    <3>6. ASSUME NEW i \in 1..Len(Kids(n)) PROVE i < next /\ Offers(v, n, i)
      <4>1. i < next
        BY <1>0, <2>1, <3>1
      <4>2. \A j \in 1..i - 1 : j \in 1..Len(Kids(n))
        BY <1>0
      <4> QED
        BY <3>2, <4>1, <4>2 DEF Offers
    <3> QED
      BY <2>2, <3>1, <3>5, <3>6 DEF Returns
  <2> QED
    BY <2>4, <2>5
<1> QED
  BY <1>2, <1>3, <1>4 DEF Returns

----------------------------------------------------------------------------
(* The steps *)

LEMMA StackIs ==
  ASSUME IInv, WalkInv, LogInv, NEW g \in Goroutines, InCall(g)
  PROVE  /\ IsStack(stack[g]) /\ stack[g] \in Seq(Frames)
         /\ call[g] \in 1..Len(calls) /\ call[g] \in 1..MaxCalls
         /\ answers[call[g]] \in [Nodes -> Verdicts]
<1>1. stack[g] \in Seq(Frames) /\ Len(stack[g]) \in Nat \ {0}
  BY TopFrame DEF IInv
<1>2. Path(stack[g]) /\ Descending(stack[g])
  BY DEF WalkInv, Paths, LogInv, Stacks
<1>3. call[g] \in 1..Len(calls) /\ Len(calls) \in Nat /\ Len(calls) <= MaxCalls /\ MaxCalls \in Nat
  BY LenProperties, TreeAssumption DEF IInv, Calling, TypeOK
<1>4. call[g] \in 1..MaxCalls
  BY <1>3
<1>5. answers[call[g]] \in [Nodes -> Verdicts]
  BY <1>4 DEF IInv, TypeOK, Verdicts
<1> QED
  BY <1>1, <1>2, <1>3, <1>4, <1>5, ElementOfSeq DEF IsStack

LEMMA CallLogs ==
  ASSUME IInv, WalkInv, LogInv, NEW g \in Goroutines, NEW op \in Ops, NEW type \in Types,
         Call(g, op, type)
  PROVE  LogInv'
<1> DEFINE new == [op |-> op, type |-> type, before |-> written]
<1>1. /\ calls \in Seq(Called) /\ Len(calls) \in Nat /\ Len(calls) < MaxCalls /\ MaxCalls \in Nat
      /\ TypeOK
  BY LenProperties, TreeAssumption DEF IInv, TypeOK, Called, Call
<1>2. new \in Called
  BY <1>1 DEF TypeOK, Called
<1>3. /\ Len(calls') = Len(calls) + 1
      /\ \A i \in 1..Len(calls) : calls'[i] = calls[i]
  <2>1. calls' = Append(calls, new)
    BY DEF Call
  <2> HIDE DEF new
  <2> QED
    BY <1>1, <1>2, <2>1, AppendProperties
<1>4. UNCHANGED <<tree, answers, result>> /\ ~ InCall(g)
  BY DEF Call
<1>5. PICK c, s, A : c = Len(calls) + 1 /\ s = <<Enter(Root)>> /\ A = answers[c]
  OBVIOUS
<1>6. /\ stack'[g] = s /\ call'[g] = c
      /\ \A h \in Goroutines \ {g} : stack'[h] = stack[h] /\ call'[h] = call[h]
  BY <1>1, <1>5 DEF Call, TypeOK
<1>7. c \in 1..MaxCalls /\ c \in 1..Len(calls') /\ c > Len(calls)
  BY <1>1, <1>3, <1>5
<1>8. result[c] = "none" /\ \A n \in Nodes : A[n] = "none"
  BY <1>5, <1>7 DEF WalkInv, Fresh, LogInv, Unasked
<1>9. Descending(s) /\ Follows(s, A)
  BY <1>1, <1>5, <1>8, FreshFollows
<1>10. \A h \in Goroutines : InCall(h) => call[h] # c
  <2>1. \A h \in Goroutines : InCall(h) => call[h] \in 1..Len(calls)
    BY DEF IInv, Calling
  <2> QED
    BY <1>1, <1>5, <2>1
<1>11. \A m \in 1..Len(calls') : m = c \/ m \in 1..Len(calls)
  BY <1>1, <1>3, <1>5
<1>12. Len(calls') \in Nat /\ Len(calls') >= Len(calls)
  BY <1>1, <1>3
<1>13. /\ stack'[g] # <<>> /\ Descending(stack'[g]) /\ result'[c] = "none"
       /\ Follows(stack'[g], answers'[c])
  BY <1>4, <1>5, <1>6, <1>8, <1>9
<1>14. \A h \in Goroutines \ {g} :
         stack'[h] = stack[h] /\ call'[h] = call[h] /\ (InCall(h) => call[h] # c)
  BY <1>6, <1>10
<1>15. \A m \in 1..MaxCalls : m # c => answers'[m] = answers[m] /\ result'[m] = result[m]
  BY <1>4
<1>16. tree' = tree /\ c = call'[g]
  BY <1>4, <1>6
<1> QED
  BY <1>3, <1>7, <1>11, <1>12, <1>13, <1>14, <1>15, <1>16, OneSteps

LEMMA DescendLogs ==
  ASSUME IInv, WalkInv, LogInv, Unshared(tree), NEW g \in Goroutines, Descend(g)
  PROVE  LogInv'
<1>0. PICK s, n, i, kid, c, A : /\ s = stack[g] /\ n = s[Len(s)].node /\ i = s[Len(s)].next
                                /\ kid = Enter(Kids(n)[i]) /\ c = call[g] /\ A = answers[c]
  OBVIOUS
<1>1. /\ InCall(g) /\ TypeOK /\ s \in Seq(Frames) /\ Len(s) \in Nat \ {0} /\ n \in Nodes
      /\ i \in Nat \ {0} /\ IsStack(s) /\ Top(g) = s[Len(s)] /\ Len(Kids(n)) \in Nat
      /\ Kind(n) # "stream" /\ ~ Finished(g, Top(g)) /\ c \in 1..Len(calls) /\ c \in 1..MaxCalls
  <2>1. InCall(g) /\ TypeOK /\ ~ Finished(g, Top(g)) /\ Top(g) = s[Len(s)] /\ Kind(Top(g).node) # "stream"
    BY <1>0 DEF Descend, IInv, Top
  <2>2. n \in Nodes /\ i \in Nat \ {0} /\ Len(s) \in Nat \ {0}
    BY <1>0, <2>1, TopFrame
  <2> QED
    BY <1>0, <2>1, <2>2, StackIs, TreeShape
<1>2. i \in 1..Len(Kids(n))
  BY <1>0, <1>1 DEF Finished
<1>3. UNCHANGED <<tree, call, calls, answers, result>>
  BY DEF Descend, history
<1>4. Kids(n)[i] \in Nodes /\ Kids(n)[i] > n
  BY <1>1, <1>2, KidsHigher
<1>5. kid \in Frames /\ kid.node = Kids(n)[i]
  BY <1>0, <1>4 DEF Enter, Frames, Answers
<1>6. PICK r : r = Append(s, kid)
  OBVIOUS
<1>7. /\ Len(r) = Len(s) + 1 /\ \A j \in 1..Len(s) : r[j] = s[j]
      /\ r[Len(s) + 1] = kid
  BY <1>1, <1>5, <1>6, AppendProperties
<1>8. stack'[g] = r /\ \A h \in Goroutines \ {g} : stack'[h] = stack[h]
  BY <1>0, <1>1, <1>6 DEF Descend, TypeOK
<1>9. Deeper(r, s, n, i)
  BY <1>0, <1>2, <1>7 DEF Deeper
<1>10. Path(r)
  <2>1. r[1].node = Root
    <3>1. s[1].node = Root /\ 1 \in 1..Len(s)
      BY <1>1 DEF IsStack, Path
    <3> QED
      BY <1>7, <3>1
  <2>2. ASSUME NEW j \in 1..Len(s)
        PROVE  r[j].next <= Len(Kids(r[j].node)) /\ r[j + 1].node = Kids(r[j].node)[r[j].next]
    <3>1. CASE j = Len(s)
      <4>1. r[j] = s[Len(s)] /\ r[j + 1] = kid
        BY <1>1, <1>7, <3>1
      <4>2. r[j].node = n /\ r[j].next = i
        BY <1>0, <4>1
      <4> QED
        BY <1>2, <1>5, <4>1, <4>2
    <3>2. CASE j # Len(s)
      <4>1. j \in 1..Len(s) - 1 /\ j + 1 \in 1..Len(s)
        BY <1>1, <2>2, <3>2
      <4> QED
        BY <1>1, <1>7, <2>2, <4>1 DEF IsStack, Path
    <3> QED
      BY <3>1, <3>2
  <2>3. Len(r) - 1 = Len(s)
    BY <1>1, <1>7
  <2> QED
    BY <2>1, <2>2, <2>3 DEF Path
<1>11. Descending(r)
  <2> SUFFICES ASSUME NEW l \in 1..Len(r), NEW m \in 1..Len(r), l < m
               PROVE  r[l].node < r[m].node
    BY DEF Descending
  <2>1. l \in 1..Len(s) /\ r[l] = s[l] /\ (l = Len(s) \/ l < Len(s))
    BY <1>1, <1>7
  <2>2. CASE m = Len(s) + 1
    <3>1. s[l].node \in Nat /\ n \in Nat /\ Kids(n)[i] \in Nat
      <4>1. s[l] \in Frames
        BY <1>1, <2>1 DEF IsStack
      <4>2. s[l].node \in Nodes
        BY <4>1 DEF Frames
      <4> QED
        BY <1>1, <1>4, <4>2, TreeAssumption
    <3>2. s[l].node = n \/ s[l].node < n
      BY <1>0, <1>1, <2>1 DEF IsStack, Descending
    <3> QED
      BY <1>4, <1>5, <1>7, <2>1, <2>2, <3>1, <3>2
  <2>3. CASE m # Len(s) + 1
    <3>1. m \in 1..Len(s)
      BY <1>1, <1>7, <2>3
    <3> QED
      BY <1>1, <1>7, <2>1, <3>1 DEF IsStack, Descending
  <2> QED
    BY <2>2, <2>3
<1>12. IsStack(r)
  <2>1. ASSUME NEW l \in 1..Len(r) PROVE r[l] \in Frames
    <3>1. l = Len(s) + 1 \/ l \in 1..Len(s)
      BY <1>1, <1>7
    <3> QED
      BY <1>1, <1>5, <1>7, <3>1 DEF IsStack
  <2> QED
    BY <1>1, <1>7, <1>10, <1>11, <2>1 DEF IsStack
<1>13. ASSUME calls'[c].op = "Log" PROVE Follows(r, A)
  <2>1. Op(g) = "Log"
    BY <1>0, <1>3, <1>13 DEF Op
  <2>2. Follows(s, A)
    BY <1>0, <1>1, <2>1 DEF LogInv, Hears
  <2>3. Kind(n) = "failover" => i = 1 \/ s[Len(s)].err # "nil"
    BY <1>0, <1>1, <2>1 DEF Finished
  <2> QED
    BY <1>1, <1>9, <1>12, <2>2, <2>3, DeeperFollows
<1>14. r # <<>>
  <2>1. Len(r) # 0
    BY <1>1, <1>7
  <2> QED
    BY <2>1, EmptySeq
<1>15. result[c] = "none" /\ \A h \in Goroutines \ {g} : InCall(h) => call[h] # c
  BY <1>0, <1>1 DEF LogInv, Open, Alone
<1>16. Len(calls) \in Nat /\ calls' = calls
  BY <1>1, <1>3, LenProperties DEF TypeOK
<1>17. c \in 1..Len(calls') /\ c = call'[g]
  BY <1>0, <1>1, <1>3
<1>18. /\ Len(calls') \in Nat /\ Len(calls') >= Len(calls)
       /\ \A m \in 1..Len(calls) : calls'[m] = calls[m]
       /\ \A m \in 1..Len(calls') : m = c \/ m \in 1..Len(calls)
  BY <1>16
<1>19. \A h \in Goroutines \ {g} :
         stack'[h] = stack[h] /\ call'[h] = call[h] /\ (InCall(h) => call[h] # c)
  BY <1>3, <1>8, <1>15
<1>20. \A m \in 1..MaxCalls : m # c => answers'[m] = answers[m] /\ result'[m] = result[m]
  BY <1>3
<1>21. /\ stack'[g] # <<>> /\ Descending(stack'[g]) /\ result'[c] = "none"
       /\ calls'[c].op = "Log" => Follows(stack'[g], answers'[c])
  BY <1>0, <1>3, <1>8, <1>11, <1>13, <1>14, <1>15
<1>22. tree' = tree
  BY <1>3
<1> QED
  BY <1>17, <1>18, <1>19, <1>20, <1>21, <1>22, OneSteps

LEMMA LeftIs ==
  ASSUME IInv, NEW g \in Goroutines, InCall(g), NEW a \in Answers,
         NEW s, s = stack[g], IsStack(s), NEW d \in Nat \ {0}, Len(s) = d + 1,
         NEW r, r = FramesAfter(g, a)
  PROVE  Popped(r, s) /\ Descending(r) /\ (Op(g) = "Log" => Left(r, s, a))
<1>1. /\ Len(r) = d /\ \A l \in 1..d : r[l].node = s[l].node
      /\ \A l \in 1..d - 1 : r[l].next = s[l].next /\ r[l].err = s[l].err
      /\ r[d].next = s[d].next + 1 /\ r[d].err = Combine(g, s[d], a)
  BY FramesLeft
<1>2. /\ Len(s) - 1 = d
      /\ \A l \in 1..d : l = d \/ (l \in 1..d - 1 /\ l # d /\ l < d)
      /\ \A l \in 1..d : l \in 1..Len(s)
  OBVIOUS
<1>3. Popped(r, s)
  BY <1>1, <1>2 DEF Popped
<1>4. Descending(r)
  BY <1>1, <1>2 DEF IsStack, Descending
<1>5. Op(g) = "Log" => Left(r, s, a)
  BY <1>1, <1>2, <1>3 DEF Left, Combine
<1> QED
  BY <1>3, <1>4, <1>5

\* A method returns what the streams below it are worth, B being their answers now.
LEMMA ReturnLogs ==
  ASSUME IInv, WalkInv, LogInv, Unshared(tree), NEW b \in Nat, Bounded(b),
         UNCHANGED <<tree, call, calls>>,
         NEW g \in Goroutines, InCall(g), NEW a \in Answers, Return(g, a),
         NEW c, c = call[g], NEW s, s = stack[g],
         NEW A, A = answers[c], NEW B \in [Nodes -> Verdicts], B = answers'[c],
         \A m \in 1..MaxCalls : m # c => answers'[m] = answers[m],
         Answered(B, A, s[Len(s)].node), NEW w, w = Judged(tree, B),
         Op(g) = "Log" => Returns(s, w, a)
  PROVE  LogInv'
<1>1. /\ TypeOK /\ IsStack(s) /\ s \in Seq(Frames) /\ c \in 1..Len(calls) /\ c \in 1..MaxCalls
      /\ A \in [Nodes -> Verdicts] /\ Len(s) \in Nat \ {0} /\ Len(calls) \in Nat
  <2>1. TypeOK /\ Len(calls) \in Nat
    BY LenProperties DEF IInv, TypeOK
  <2> QED
    BY <2>1, StackIs DEF IsStack
<1>2. ASSUME Op(g) = "Log" PROVE Follows(s, A)
  BY <1>2 DEF LogInv, Hears
<1>3. /\ \A h \in Goroutines \ {g} : call'[h] = call[h] /\ (InCall(h) => call[h] # c)
      /\ \A m \in 1..Len(calls') : m \in 1..Len(calls)
      /\ Len(calls') \in Nat /\ Len(calls') >= Len(calls)
      /\ \A m \in 1..Len(calls) : calls'[m] = calls[m]
      /\ tree' = tree /\ c = call'[g] /\ c \in 1..Len(calls') /\ calls'[c].op = Op(g)
  <2>1. \A h \in Goroutines \ {g} : InCall(h) => call[h] # c
    BY DEF LogInv, Alone
  <2> QED
    BY <1>1, <2>1 DEF Op
<1>4. stack \in [Goroutines -> Seq(Frames)] /\ result \in [1..MaxCalls -> Answers \cup {"none"}]
  BY <1>1 DEF TypeOK
<1>5. ASSUME Op(g) = "Log", NEW r, Left(r, s, a)
      PROVE  /\ \A m \in Streams : B[m] # "none" <=> m \in Been(r, w)
             /\ Len(s) # 1 => Follows(r, B)
  BY <1>1, <1>2, <1>5, PoppedFollows
<1>6. CASE Len(s) = 1
  <2>1. stack' = [stack EXCEPT ![g] = <<>>] /\ result' = [result EXCEPT ![c] = a]
    BY <1>6 DEF Return
  <2>2. stack'[g] = <<>> /\ \A h \in Goroutines \ {g} : stack'[h] = stack[h]
    BY <1>4, <2>1
  <2>3. result'[c] = a /\ \A m \in 1..MaxCalls : m # c => result'[m] = result[m]
    BY <1>1, <1>4, <2>1
  <2>4. ASSUME Op(g) = "Log" PROVE LogRight(c)'
    <3>1. PICK r : r = <<>>
      OBVIOUS
    <3>2. Left(r, s, a)
      BY <1>6, <3>1 DEF Left, Popped
    <3>3. \A m \in Streams : B[m] # "none" <=> m \in Been(r, w)
      BY <1>5, <1>6, <2>4, <3>2
    <3>4. Outcome(c)' = w
      BY <1>3, OutcomeIs
    <3>5. Offered(c)' = OfferedBy(tree, w)
      BY <1>3, <3>4, OfferedIs
    <3>6. OfferedBy(tree, w) = Been(r, w)
      BY <1>1, <3>1, OfferedByIs
    <3>7. Streams' = Streams
      BY <1>3 DEF Streams, Kind
    <3>8. s[Len(s)].node = Root
      BY <1>1, <1>6 DEF IsStack, Path
    <3>9. result'[c] = w[Root]
      BY <2>3, <2>4, <3>8 DEF Returns
    <3>10. \A m \in Streams' : answers'[c][m] # "none" <=> m \in Offered(c)'
      BY <3>3, <3>5, <3>6, <3>7
    <3> QED
      BY <3>4, <3>9, <3>10 DEF LogRight
  <2>5. \A m \in 1..MaxCalls : m # c => answers'[m] = answers[m] /\ result'[m] = result[m]
    BY <2>3
  <2> QED
    BY <1>3, <2>2, <2>4, <2>5, OneSteps
<1>7. CASE Len(s) # 1
  <2>0. PICK r, d : r = FramesAfter(g, a) /\ d = Len(s) - 1
    OBVIOUS
  <2>1. d \in Nat \ {0} /\ Len(s) = d + 1 /\ Len(stack[g]) - 1 # 0
    BY <1>1, <1>7, <2>0
  <2>2. stack' = [stack EXCEPT ![g] = r] /\ result' = result
    BY <2>0, <2>1 DEF Return, FramesAfter
  <2>3. stack'[g] = r /\ \A h \in Goroutines \ {g} : stack'[h] = stack[h]
    BY <1>4, <2>2
  <2>4. Popped(r, s) /\ Descending(r) /\ (Op(g) = "Log" => Left(r, s, a))
    BY <1>1, <2>0, <2>1, LeftIs
  <2>8. ASSUME Op(g) = "Log" PROVE Follows(r, B)
    BY <1>5, <1>7, <2>4, <2>8
  <2>9. r # <<>>
    <3>1. Len(r) # 0
      BY <2>1, <2>4 DEF Popped
    <3> QED
      BY <3>1, EmptySeq
  <2>10. result'[c] = "none"
    BY <2>2 DEF LogInv, Open
  <2>11. calls'[c].op = "Log" => Follows(stack'[g], answers'[c])
    BY <1>3, <2>3, <2>8
  <2> QED
    BY <1>3, <2>2, <2>3, <2>4, <2>9, <2>10, <2>11, OneSteps
<1> QED
  BY <1>6, <1>7

LEMMA LeaveLogs ==
  ASSUME IInv, WalkInv, LogInv, Unshared(tree), NEW b \in Nat, Bounded(b),
         NEW g \in Goroutines, Leave(g)
  PROVE  LogInv'
<1>0. PICK c, s, n, A, v, a : /\ c = call[g] /\ s = stack[g] /\ n = s[Len(s)].node
                              /\ A = answers[c] /\ v = Judged(tree, A) /\ a = s[Len(s)].err
  OBVIOUS
<1>1. /\ InCall(g) /\ TypeOK /\ a \in Answers /\ Return(g, a) /\ IsStack(s)
      /\ A \in [Nodes -> Verdicts] /\ Kind(n) \in {"failover", "list"} /\ Top(g) = s[Len(s)]
      /\ Finished(g, Top(g))
  <2>1. InCall(g) /\ TypeOK /\ Top(g) = s[Len(s)]
    BY <1>0 DEF Leave, IInv, Top
  <2>2. a \in Answers
    BY <1>0, <2>1, TopFrame
  <2> QED
    BY <1>0, <2>1, <2>2, StackIs DEF Leave
<1>2. UNCHANGED <<tree, call, calls>> /\ answers' = answers
  BY DEF Leave
<1>3. ASSUME Op(g) = "Log" PROVE Returns(s, v, a)
  <2>1. Heard(s, v)
    BY <1>0, <1>1, <1>3 DEF LogInv, Hears, Follows
  <2>2. \/ s[Len(s)].next > Len(Kids(n))
        \/ Kind(n) = "failover" /\ s[Len(s)].next > 1 /\ a = "nil"
    BY <1>0, <1>1 DEF Finished
  <2> QED
    BY <1>0, <1>1, <2>1, <2>2, LeaveOffers
<1>4. Answered(A, A, n)
  BY <1>1 DEF Answered, Streams
<1>5. A = answers'[c] /\ \A m \in 1..MaxCalls : m # c => answers'[m] = answers[m]
  BY <1>0, <1>2
<1> QED
  BY <1>0, <1>1, <1>2, <1>3, <1>4, <1>5, ReturnLogs

LEMMA StreamLogs ==
  ASSUME IInv, WalkInv, LogInv, Unshared(tree), NEW b \in Nat, Bounded(b),
         NEW g \in Goroutines, NEW a \in Answers, Stream(g, a)
  PROVE  LogInv'
<1>0. PICK c, s, n, A, B, w : /\ c = call[g] /\ s = stack[g] /\ n = s[Len(s)].node
                              /\ A = answers[c] /\ B = answers'[c] /\ w = Judged(tree, B)
  OBVIOUS
<1>1. /\ InCall(g) /\ TypeOK /\ Return(g, a) /\ IsStack(s) /\ c \in 1..MaxCalls
      /\ Top(g) = s[Len(s)] /\ Kind(n) = "stream" /\ n \in Nodes
      /\ answers' = [answers EXCEPT ![c][n] = a] /\ UNCHANGED <<tree, call, calls>>
  <2>1. InCall(g) /\ TypeOK /\ Top(g) = s[Len(s)]
    BY <1>0 DEF Stream, IInv, Top
  <2>2. n \in Nodes
    BY <1>0, <2>1, TopFrame
  <2> QED
    BY <1>0, <2>1, <2>2, StackIs DEF Stream
<1>2. /\ B \in [Nodes -> Verdicts] /\ B[n] = a /\ a # "none"
      /\ \A m \in Nodes : m # n => B[m] = answers[c][m]
      /\ \A m \in 1..MaxCalls : m # c => answers'[m] = answers[m]
  <2>1. answers \in [1..MaxCalls -> [Nodes -> Verdicts]] /\ a \in Verdicts /\ a # "none"
    BY <1>1 DEF TypeOK, Verdicts, Answers
  <2>2. PICK row : row = [answers[c] EXCEPT ![n] = a]
    OBVIOUS
  <2>3. answers' = [answers EXCEPT ![c] = row]
    BY <1>1, <2>2
  <2>4. /\ row \in [Nodes -> Verdicts] /\ row[n] = a
        /\ \A m \in Nodes : m # n => row[m] = answers[c][m]
    BY <1>1, <2>1, <2>2
  <2>5. B = row /\ \A m \in 1..MaxCalls : m # c => answers'[m] = answers[m]
    BY <1>0, <1>1, <2>1, <2>3
  <2> QED
    BY <2>1, <2>4, <2>5
<1>3. w[n] = a
  <2>1. w[n] = Verdict(B, w, n)
    <3>1. \A m \in Nodes : w[m] = Verdict(B, w, m)
      <4>1. TypeOK /\ B \in [Nodes -> Verdicts] /\ w = Judged(tree, B)
        BY <1>0, <1>1, <1>2
      <4> QED
        BY <4>1, JudgedIs
    <3> QED
      BY <1>1, <3>1
  <2> QED
    BY <1>1, <1>2, <2>1 DEF Verdict
<1>4. Len(Kids(n)) = 0
  <2>1. IsTree(tree)
    BY <1>1, TreeAssumption DEF TypeOK
  <2>2. Kids(n) = <<>>
    BY <1>1, <2>1 DEF IsTree, Kids, Kind
  <2> QED
    BY <2>2
<1>5. Returns(s, w, a)
  BY <1>0, <1>3, <1>4 DEF Returns
<1>6. Answered(B, A, n)
  BY <1>0, <1>2 DEF Answered
<1> QED
  BY <1>0, <1>1, <1>2, <1>5, <1>6, ReturnLogs

LEMMA SameLogs ==
  ASSUME LogInv, UNCHANGED <<tree, stack, call, calls, answers, result>>
  PROVE  LogInv'
<1>1. Alone' /\ Open' /\ Unasked' /\ Stacks'
  BY DEF LogInv, Alone, Open, Unasked, Stacks, InCall, Descending
<1>2. Hears'
  <2> SUFFICES ASSUME NEW h \in Goroutines, stack'[h] # <<>>, calls'[call'[h]].op = "Log"
               PROVE  Follows(stack[h], answers[call[h]])'
    BY DEF Hears, InCall, Op
  <2>1. Follows(stack'[h], answers'[call'[h]])
    BY DEF LogInv, Hears, InCall, Op
  <2> QED
    BY <2>1, FollowsIsSo
<1>3. Settled'
  <2>1. ASSUME NEW m \in 1..Len(calls), calls[m].op = "Log", result[m] # "none"
        PROVE  LogRight(m)'
    <3>1. LogRight(m)
      BY <2>1 DEF LogInv, Settled, Returned, LogRight
    <3> QED
      BY <3>1, RightStays
  <2> QED
    BY <2>1 DEF Settled, Returned, LogRight
<1> QED
  BY <1>1, <1>2, <1>3 DEF LogInv

LEMMA InitLogs == Init => LogInv
<1> SUFFICES ASSUME Init PROVE LogInv
  OBVIOUS
<1>1. \A g \in Goroutines : ~ InCall(g)
  BY DEF Init, InCall
<1>2. Alone /\ Open /\ Stacks /\ Hears
  BY <1>1 DEF Alone, Open, Stacks, Hears
<1>3. Unasked
  BY DEF Init, Unasked
<1>4. Settled
  <2>1. Len(calls) = 0
    BY EmptySeq DEF Init
  <2> QED
    BY <2>1 DEF Settled, Returned
<1> QED
  BY <1>2, <1>3, <1>4 DEF LogInv

LEMMA LogStep ==
  ASSUME \A t \in Trees : Unshared(t), NEW b \in Nat, Bounded(b),
         IInv, WalkInv, LogInv, [Next]_vars
  PROVE  LogInv'
<1>1. Unshared(tree)
  BY DEF IInv, TypeOK
<1>2. ASSUME NEW g \in Goroutines, NEW op \in Ops, NEW t \in Types, Call(g, op, t)
      PROVE  LogInv'
  BY <1>2, CallLogs
<1>3. ASSUME NEW g \in Goroutines, Method(g)
      PROVE  LogInv'
  BY <1>1, <1>3, DescendLogs, LeaveLogs, StreamLogs DEF Method
<1>4. ASSUME NEW n \in Nodes, NEW a \in Answers, FlushTick(n, a)
      PROVE  LogInv'
  BY <1>4, SameLogs DEF FlushTick, history
<1>5. CASE UNCHANGED vars
  BY <1>5, SameLogs DEF vars, streams, history
<1> QED
  BY <1>2, <1>3, <1>4, <1>5 DEF Next

----------------------------------------------------------------------------
(* A stream that a call of Log is at has not answered it yet, so that no call visits one  *)
(* twice.                                                                                *)

Counted ==
  \A c \in 1..MaxCalls : c > Len(calls) \/ calls[c].op = "Log" =>
    \A n \in Nodes : visits[c][n] = IF answers[c][n] = "none" THEN 0 ELSE 1

LEMMA StreamCounts ==
  ASSUME IInv, WalkInv, LogInv, Counted,
         NEW g \in Goroutines, NEW a \in Answers, Stream(g, a)
  PROVE  Counted'
<1> DEFINE n == Top(g).node
           c == call[g]
<1>1. /\ InCall(g) /\ TypeOK /\ n \in Nodes /\ n \in Streams /\ c \in 1..MaxCalls
      /\ Top(g) = stack[g][Len(stack[g])] /\ a # "none" /\ calls' = calls
      /\ answers' = [answers EXCEPT ![c][n] = a]
      /\ visits' = [visits EXCEPT ![c][n] = @ + 1]
  <2>1. InCall(g) /\ TypeOK
    BY DEF Stream, IInv
  <2> QED
    BY <2>1, TopFrame, StackIs DEF Stream, Top, Streams, Answers
<1>2. ASSUME Op(g) = "Log" PROVE answers[c][n] = "none"
  <2>1. Asked(stack[g], answers[c], Judged(tree, answers[c]))
    BY <1>1, <1>2 DEF LogInv, Hears, Follows
  <2> QED
    BY <1>1, <2>1 DEF Asked
<1> HIDE DEF n, c
<1>3. /\ answers \in [1..MaxCalls -> [Nodes -> Answers \cup {"none"}]]
      /\ visits \in [1..MaxCalls -> [Nodes -> Nat]]
  BY <1>1 DEF TypeOK
<1>4. SUFFICES ASSUME NEW d \in 1..MaxCalls, d > Len(calls) \/ calls[d].op = "Log",
                      NEW m \in Nodes
               PROVE  visits'[d][m] = IF answers'[d][m] = "none" THEN 0 ELSE 1
  BY <1>1 DEF Counted
<1>5. visits[d][m] = IF answers[d][m] = "none" THEN 0 ELSE 1
  BY <1>4 DEF Counted
<1>6. CASE d = c /\ m = n
  <2>1. c <= Len(calls) /\ Len(calls) \in Nat
    <3>1. c \in 1..Len(calls) /\ Len(calls) \in Nat
      BY <1>1, StackIs, LenProperties DEF TypeOK, c
    <3> QED
      BY <3>1
  <2>2. Op(g) = "Log"
    BY <1>4, <1>6, <2>1 DEF Op, c
  <2>3. answers'[d][m] = a /\ visits'[d][m] = visits[d][m] + 1
    BY <1>1, <1>3, <1>6
  <2> QED
    BY <1>1, <1>2, <1>5, <1>6, <2>2, <2>3
<1>7. CASE ~ (d = c /\ m = n)
  <2>1. answers'[d][m] = answers[d][m] /\ visits'[d][m] = visits[d][m]
    BY <1>1, <1>3, <1>7
  <2> QED
    BY <1>5, <2>1
<1> QED
  BY <1>6, <1>7

LEMMA CountStep ==
  ASSUME IInv, WalkInv, LogInv, Counted, [Next]_vars
  PROVE  Counted'
<1>1. ASSUME NEW g \in Goroutines, NEW op \in Ops, NEW t \in Types, Call(g, op, t)
      PROVE  Counted'
  <2> DEFINE new == [op |-> op, type |-> t, before |-> written]
  <2>1. calls \in Seq(Called) /\ Len(calls) \in Nat /\ new \in Called
    BY LenProperties DEF IInv, TypeOK, Called
  <2>2. calls' = Append(calls, new) /\ UNCHANGED <<answers, visits>>
    BY <1>1 DEF Call
  <2> HIDE DEF new
  <2>3. Len(calls') = Len(calls) + 1 /\ \A i \in 1..Len(calls) : calls'[i] = calls[i]
    BY <2>1, <2>2, AppendProperties
  <2> QED
    BY <2>1, <2>2, <2>3 DEF Counted
<1>2. ASSUME NEW g \in Goroutines, Method(g)
      PROVE  Counted'
  <2>1. CASE Descend(g) \/ Leave(g)
    BY <2>1 DEF Descend, Leave, history, Counted
  <2> QED
    BY <1>2, <2>1, StreamCounts DEF Method
<1>3. ASSUME NEW n \in Nodes, NEW a \in Answers, FlushTick(n, a)
      PROVE  Counted'
  BY <1>3 DEF FlushTick, history, Counted
<1>4. CASE UNCHANGED vars
  BY <1>4 DEF vars, history, Counted
<1> QED
  BY <1>1, <1>2, <1>3, <1>4 DEF Next

----------------------------------------------------------------------------
(* Theorems *)

LEMMA InitInv == Init => IInv
<1> SUFFICES ASSUME Init PROVE IInv
  OBVIOUS
<1>1. TypeOK
  <2>1. <<>> \in Seq(Frames) /\ <<>> \in Seq(Called) /\ Len(<<>>) = 0
    BY EmptySeq
  <2>2. tree \in Trees /\ calls \in Seq(Called) /\ Len(calls) <= MaxCalls
    BY <2>1, TreeAssumption DEF Init
  <2>3. stack \in [Goroutines -> Seq(Frames)] /\ call \in [Goroutines -> 0..MaxCalls]
    BY <2>1, TreeAssumption DEF Init
  <2>4. closed \in [Nodes -> BOOLEAN] /\ ends \in [Nodes -> Nat]
    BY DEF Init
  <2>5. /\ written \in [Nodes -> SUBSET (1..MaxCalls)]
        /\ synced \in [Nodes -> SUBSET (1..MaxCalls)]
    BY DEF Init
  <2>6. flushing \in [Nodes -> BOOLEAN]
    <3>1. \A n \in Nodes : (n \in tree.buffered) \in BOOLEAN
      OBVIOUS
    <3> QED
      BY <3>1 DEF Init
  <2>7. /\ answers \in [1..MaxCalls -> [Nodes -> Answers \cup {"none"}]]
        /\ visits \in [1..MaxCalls -> [Nodes -> Nat]]
        /\ result \in [1..MaxCalls -> Answers \cup {"none"}]
    BY DEF Init
  <2> QED
    BY <2>2, <2>3, <2>4, <2>5, <2>6, <2>7 DEF TypeOK, Called
<1>2. Calling
  BY DEF Init, Calling, InCall
<1>3. EndsOnce
  BY DEF Init, EndsOnce
<1>4. Flushers /\ Backed
  BY DEF Init, Flushers, Backed
<1> QED
  BY <1>1, <1>2, <1>3, <1>4 DEF IInv

LEMMA NextStep ==
  ASSUME IInv, [Next]_vars
  PROVE  IInv' /\ Final
<1>1. ASSUME NEW g \in Goroutines, NEW op \in Ops, NEW t \in Types, Call(g, op, t)
      PROVE  IInv' /\ Final
  BY <1>1, CallStep DEF Call, streams, Final
<1>2. ASSUME NEW g \in Goroutines, Descend(g) \/ Leave(g)
      PROVE  IInv' /\ Final
  BY <1>2, DescendStep, LeaveStep DEF Descend, Leave, streams, Final
<1>3. ASSUME NEW g \in Goroutines, NEW a \in Answers, Stream(g, a)
      PROVE  IInv' /\ Final
  BY <1>3, StreamStep
<1>4. ASSUME NEW n \in Nodes, NEW a \in Answers, FlushTick(n, a)
      PROVE  IInv' /\ Final
  BY <1>4, FlushTickStep
<1>5. CASE UNCHANGED vars
  <2>1. UNCHANGED <<tree, closed, ends, written, synced, flushing, stack, call, calls, answers,
                     visits, result>>
    BY <1>5 DEF vars, streams, history
  <2> QED
    BY <2>1 DEF IInv, TypeOK, Calling, InCall, EndsOnce, Flushers, Backed, Final
<1> QED
  BY <1>1, <1>2, <1>3, <1>4, <1>5 DEF Next, Method

\* Only streams are written to and flushed.
LEMMA OnlyStreams ==
  ASSUME IInv, [Next]_vars
  PROVE  \A n \in Nodes \ Streams : written'[n] = written[n] /\ synced'[n] = synced[n]
<1> SUFFICES ASSUME NEW n \in Nodes \ Streams
             PROVE  written'[n] = written[n] /\ synced'[n] = synced[n]
  OBVIOUS
<1>1. TypeOK
  BY DEF IInv
<1>2. ASSUME NEW g \in Goroutines, NEW a \in Answers, Stream(g, a)
      PROVE  written'[n] = written[n] /\ synced'[n] = synced[n]
  <2>1. Top(g).node # n
    BY <1>2 DEF Stream, Streams
  <2>2. Op(g) \in Ops
    <3>1. InCall(g) /\ calls \in Seq(Called)
      BY <1>1, <1>2 DEF Stream, TypeOK, Called
    <3>2. calls[call[g]] \in Called
      BY <3>1, ElementOfSeq DEF IInv, Calling
    <3> QED
      BY <3>2 DEF Op, Called
  <2> QED
    BY <1>1, <1>2, <2>1, <2>2 DEF Stream, LogTo, FlushOf, CloseOf, TypeOK, Ops
<1>3. ASSUME NEW m \in Nodes, NEW a \in Answers, FlushTick(m, a)
      PROVE  written'[n] = written[n] /\ synced'[n] = synced[n]
  <2>1. m \in tree.buffered
    BY <1>3 DEF FlushTick, IInv, Flushers
  <2>2. m # n
    BY <1>1, <2>1, TreeAssumption DEF TypeOK, IsTree, Streams, Kind
  <2> QED
    BY <1>1, <1>3, <2>2 DEF FlushTick, FlushOf, TypeOK
<1>4. CASE \E g \in Goroutines, op \in Ops, t \in Types : Call(g, op, t)
  BY <1>4 DEF Call, streams
<1>5. CASE \E g \in Goroutines : Descend(g) \/ Leave(g)
  BY <1>5 DEF Descend, Leave, streams
<1>6. CASE UNCHANGED vars
  BY <1>6 DEF vars, streams
<1> QED
  BY <1>2, <1>3, <1>4, <1>5, <1>6 DEF Next, Method

LEMMA WalkStep ==
  ASSUME IInv, WalkInv, [Next]_vars
  PROVE  WalkInv'
<1>1. Final
  BY NextStep
<1>2. ASSUME NEW g \in Goroutines, NEW op \in Ops, NEW t \in Types, Call(g, op, t)
      PROVE  WalkInv'
  BY <1>2, CallWalks
<1>3. ASSUME NEW g \in Goroutines, Method(g)
      PROVE  WalkInv'
  BY <1>3, DescendWalks, LeaveWalks, StreamWalks DEF Method
<1>4. ASSUME NEW n \in Nodes, NEW a \in Answers, FlushTick(n, a)
      PROVE  WalkInv'
  BY <1>1, <1>4, SameWalks DEF FlushTick, history
<1>5. CASE UNCHANGED vars
  BY <1>1, <1>5, SameWalks DEF vars, streams, history
<1> QED
  BY <1>2, <1>3, <1>4, <1>5 DEF Next

LEMMA AllClosed ==
  ASSUME IInv, WalkInv, Returned("Close") # {}
  PROVE  \A n \in Streams : closed[n]
<1>1. PICK c \in 1..Len(calls) : calls[c].op = "Close" /\ result[c] # "none"
  BY DEF Returned
<1>2. Reached(c, Root)
  BY <1>1 DEF WalkInv, Arrived, Claims
<1> QED
  BY <1>1, <1>2, ReachedRoot DEF IInv, Done

LEMMA InitWalk == Init => WalkInv
<1> SUFFICES ASSUME Init PROVE WalkInv
  OBVIOUS
<1>1. Paths /\ Passing
  BY DEF Init, Paths, Passing, InCall
<1>2. Arrived /\ Befores
  <2>1. Len(calls) = 0
    BY EmptySeq DEF Init
  <2> QED
    BY <2>1 DEF Arrived, Befores
<1>3. Fresh
  BY DEF Init, Fresh
<1> QED
  BY <1>1, <1>2, <1>3 DEF WalkInv

\* The model's values are of their types, whatever the tree and however the calls
\* of the goroutines mix.
THEOREM TypeCorrect == Spec => []TypeOK
<1>1. IInv /\ [Next]_vars => IInv'
  BY NextStep
<1> QED
  BY InitInv, <1>1, PTL DEF Spec, IInv

\* A stream that was closed is final: nothing is written to it or flushed to its file
\* again, by Log, Flush or its own goroutine, and its file is closed exactly once.
THEOREM ClosedIsFinal == Spec => [][EndsOnce /\ Final]_vars
<1>1. IInv /\ [Next]_vars => IInv' /\ EndsOnce /\ Final
  BY NextStep DEF IInv
<1>2. IInv /\ [Next]_vars => [EndsOnce /\ Final]_vars
  BY <1>1
<1> QED
  BY InitInv, <1>1, <1>2, PTL DEF Spec

\* A Flush that reports success has flushed, in every stream of the tree, all that was
\* written before it was called, whatever other goroutines write, flush and close meanwhile.
THEOREM FlushesAll == Spec => []FlushCovers
<1>1. IInv /\ WalkInv /\ [Next]_vars => IInv' /\ WalkInv'
  BY NextStep, WalkStep
<1>2. IInv /\ WalkInv => FlushCovers
  <2> SUFFICES ASSUME IInv, WalkInv, NEW c \in Returned("Flush"), result[c] = "nil",
                      NEW n \in Streams
               PROVE  calls[c].before[n] \subseteq synced[n]
    BY DEF FlushCovers
  <2>1. c \in 1..Len(calls) /\ calls[c].op = "Flush"
    BY DEF Returned
  <2>2. Reached(c, Root)
    BY <2>1 DEF WalkInv, Arrived, Claims
  <2> QED
    BY <2>1, <2>2, ReachedRoot DEF IInv, Done
<1> QED
  BY InitInv, InitWalk, <1>1, <1>2, PTL DEF Spec

\* A Close that has returned has closed every stream of the tree, however failover and
\* multi handlers are nested, whatever fails, and however many goroutines call them.
THEOREM ClosesAll == Spec => []CloseComplete
<1>1. IInv /\ WalkInv /\ [Next]_vars => IInv' /\ WalkInv'
  BY NextStep, WalkStep
<1>2. IInv /\ WalkInv => CloseComplete
  BY AllClosed DEF CloseComplete, IInv, EndsOnce, Streams
<1> QED
  BY InitInv, InitWalk, <1>1, <1>2, PTL DEF Spec

\* From then on nothing is written or flushed, by calls that were under way or come later.
THEOREM Silent == Spec => SilentAfterClose
<1>1. IInv /\ WalkInv /\ [Next]_vars => IInv' /\ WalkInv'
  BY NextStep, WalkStep
<1>2. IInv /\ WalkInv /\ [Next]_vars => [Returned("Close") # {} => UNCHANGED <<written, synced>>]_vars
  <2> SUFFICES ASSUME IInv, WalkInv, [Next]_vars, Returned("Close") # {}
               PROVE  UNCHANGED <<written, synced>>
    OBVIOUS
  <2>1. \A n \in Streams : closed[n]
    BY AllClosed
  <2>2. \A n \in Streams : written'[n] = written[n] /\ synced'[n] = synced[n]
    BY <2>1, NextStep DEF Final, Streams
  <2>3. \A n \in Nodes \ Streams : written'[n] = written[n] /\ synced'[n] = synced[n]
    BY OnlyStreams
  <2>4. /\ written \in [Nodes -> SUBSET (1..MaxCalls)] /\ written' \in [Nodes -> SUBSET (1..MaxCalls)]
        /\ synced \in [Nodes -> SUBSET (1..MaxCalls)] /\ synced' \in [Nodes -> SUBSET (1..MaxCalls)]
    BY NextStep DEF IInv, TypeOK
  <2> QED
    BY <2>2, <2>3, <2>4
<1> QED
  BY InitInv, InitWalk, <1>1, <1>2, PTL DEF Spec, SilentAfterClose

\* While other goroutines log, flush and close, and whatever fails, a call of Log visits
\* exactly the streams that failover and multi handlers stand for, each of them once, and
\* returns their verdict.  This is for finitely many handlers of which none is given to two
\* others: a stream that two handlers share is visited twice.
THEOREM LogsRight ==
  ASSUME NEW b \in Nat, Bounded(b), \A t \in Trees : Unshared(t)
  PROVE  Spec => []LogOutcome
<1>1. Init => Counted
  <2> SUFFICES ASSUME Init, NEW c \in 1..MaxCalls, NEW n \in Nodes
               PROVE  visits[c][n] = IF answers[c][n] = "none" THEN 0 ELSE 1
    BY DEF Counted
  <2>1. visits[c][n] = 0 /\ answers[c][n] = "none"
    BY DEF Init
  <2> QED
    BY <2>1
<1>2. IInv /\ WalkInv /\ LogInv /\ Counted /\ [Next]_vars
        => IInv' /\ WalkInv' /\ LogInv' /\ Counted'
  BY NextStep, WalkStep, LogStep, CountStep
<1>3. IInv /\ LogInv /\ Counted => LogOutcome
  <2> SUFFICES ASSUME IInv, LogInv, Counted, NEW c \in Returned("Log")
               PROVE  /\ result[c] = Outcome(c)[Root]
                      /\ \A n \in Streams :
                           visits[c][n] = IF n \in Offered(c) THEN 1 ELSE 0
    BY DEF LogOutcome
  <2>1. LogRight(c)
    BY DEF LogInv, Settled
  <2>2. calls[c].op = "Log" /\ c \in 1..MaxCalls
    <3>1. c \in 1..Len(calls) /\ calls[c].op = "Log"
      BY DEF Returned
    <3>2. Len(calls) \in Nat /\ Len(calls) <= MaxCalls /\ MaxCalls \in Nat
      BY LenProperties, TreeAssumption DEF IInv, TypeOK
    <3> QED
      BY <3>1, <3>2
  <2>3. \A n \in Nodes : visits[c][n] = IF answers[c][n] = "none" THEN 0 ELSE 1
    BY <2>2 DEF Counted
  <2>4. Streams \subseteq Nodes
    BY DEF Streams
  <2> QED
    BY <2>1, <2>3, <2>4 DEF LogRight
<1> QED
  BY InitInv, InitWalk, InitLogs, <1>1, <1>2, <1>3, PTL DEF Spec
=============================================================================

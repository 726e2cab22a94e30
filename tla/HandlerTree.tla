------------------------------ MODULE HandlerTree ------------------------------
(***************************************************************************)
(* log/handler.go and log/stream.go: a tree of failover and multi handlers *)
(* with stream handlers at its leaves, shared by goroutines that log to    *)
(* it, flush it and close it, and the goroutine each buffered stream has   *)
(* for flushing.                                                           *)
(*                                                                         *)
(* A stream's mutex makes each of its calls one step.  Failover and multi  *)
(* handlers have no lock: a call of one is a loop over its children during *)
(* which other calls get on.  Calls are kept on a stack per goroutine.     *)
(*                                                                         *)
(* Streams may fail in Log (formatter or write), Flush (Sync) and Close.   *)
(* Their buffer is left out because nothing is ever written to it: Log     *)
(* writes to the stream itself, and flushing an empty buffer succeeds.     *)
(* Filter is never copied from the options and Rotate does nothing.        *)
(***************************************************************************)
EXTENDS Naturals, Sequences

CONSTANTS
  Nodes,      \* the handlers of a tree, each numbered lower than its children
  Root,       \* the one whose methods the goroutines call
  Trees,      \* the trees considered, see IsTree
  Goroutines,
  MaxCalls    \* bound on the calls

\* A set of handlers in which each comes with the handlers it was made of.
HasKids(t, D) == \A n \in D : \A i \in 1..Len(t.kids[n]) : t.kids[n][i] \in D

Types   == {"info", "error"}     \* what an entry is, by its field Error
Ops     == {"Log", "Flush", "Close"}
Answers == {"nil", "closed", "failed"}  \* an error result

\* kids are the handlers a node was made of, types the LogType of a stream, buffered
\* the streams with a BufferSize, and reliable the streams that never fail.  Every
\* stream is reached from the root.
IsTree(t) ==
  /\ t.kind \in [Nodes -> {"stream", "failover", "list", "absent"}]
  /\ t.kids \in [Nodes -> Seq(Nodes)]
  /\ t.types \in [Nodes -> SUBSET Types]
  /\ \A n \in t.buffered : n \in Nodes /\ t.kind[n] = "stream"
  /\ t.reliable \subseteq Nodes
  /\ \A n \in Nodes : \A i \in 1..Len(t.kids[n]) : t.kids[n][i] > n
  /\ \A n \in Nodes : t.kind[n] = "stream" => t.kids[n] = <<>>
  /\ \A D \in SUBSET Nodes : Root \in D /\ HasKids(t, D) =>
       \A n \in Nodes : t.kind[n] = "stream" => n \in D

\* No handler is given to two others, or to one twice.
Unshared(t) ==
  /\ \A n \in Nodes : \A i \in 1..Len(t.kids[n]) : t.kids[n][i] # Root
  /\ \A m, n \in Nodes : \A i \in 1..Len(t.kids[m]) : \A j \in 1..Len(t.kids[n]) :
       t.kids[m][i] = t.kids[n][j] => m = n /\ i = j

ASSUME TreeAssumption ==
  /\ Nodes \subseteq Nat /\ Root \in Nodes
  /\ \A t \in Trees : IsTree(t)
  /\ MaxCalls \in Nat

VARIABLES
  tree,
  closed,   \* of each stream: its field closed
  ends,     \* how many times its wc.Close was called
  written,  \* the calls whose entry it has written
  synced,   \* how many of these its last successful Flush covered
  flushing, \* its goroutine s.flush is running
  stack,    \* the handler methods each goroutine is in, innermost last
  call,     \* the number of the call g makes
  calls,    \* the calls made: [op, type, before], before being how many entries
            \* each stream had written at that time
  answers,  \* what each stream answered in each call
  visits,   \* how many times each call was made of each stream
  result    \* what each call returned, or "none"

streams == <<closed, ends, written, synced, flushing>>
history == <<calls, answers, visits, result>>
vars    == <<tree, streams, stack, call, history>>

Kind(n) == tree.kind[n]
Kids(n) == tree.kids[n]
Streams == {n \in Nodes : Kind(n) = "stream"}

\* A loop over the children of node: child next is the next to call, and err is the
\* variable err, firstError or prevError.
Enter(n) == [node |-> n, next |-> 1, err |-> "nil"]
Frames   == [node : Nodes, next : Nat \ {0}, err : Answers]

Init ==
  /\ tree \in Trees
  /\ closed = [n \in Nodes |-> FALSE]
  /\ ends = [n \in Nodes |-> 0]
  /\ written = [n \in Nodes |-> {}]
  /\ synced = [n \in Nodes |-> {}]
  /\ flushing = [n \in Nodes |-> n \in tree.buffered]
  /\ stack = [g \in Goroutines |-> <<>>]
  /\ call = [g \in Goroutines |-> 0]
  /\ calls = <<>>
  /\ answers = [c \in 1..MaxCalls |-> [n \in Nodes |-> "none"]]
  /\ visits = [c \in 1..MaxCalls |-> [n \in Nodes |-> 0]]
  /\ result = [c \in 1..MaxCalls |-> "none"]

InCall(g) == stack[g] # <<>>
Top(g)    == stack[g][Len(stack[g])]
Op(g)     == calls[call[g]].op

----------------------------------------------------------------------------
(* Calls, and the loops of failover and multi handlers *)

\* g calls Log, Flush or Close of the tree; type matters to Log only.
Call(g, op, type) ==
  /\ op # "Log" => type = "info"
  /\ ~ InCall(g)
  /\ Len(calls) < MaxCalls
  /\ calls' = Append(calls, [op |-> op, type |-> type, before |-> written])
  /\ call' = [call EXCEPT ![g] = Len(calls) + 1]
  /\ stack' = [stack EXCEPT ![g] = <<Enter(Root)>>]
  /\ UNCHANGED <<tree, streams, answers, visits, result>>

\* Slip: the last child's error is kept, not the first.
CombineLast(g, f, a) == IF Kind(f.node) = "list" /\ Op(g) = "Log" THEN f.err ELSE a

\* What err becomes when a child returns a.  list.Log looks at prevError where it
\* means err, so that prevError is always nil.
Combine(g, f, a) ==
  IF Op(g) # "Log" THEN IF f.err = "nil" THEN a ELSE f.err
  ELSE IF Kind(f.node) = "failover" \/ f.err # "nil" THEN a ELSE f.err

\* The method on top of g's stack returns a: to its caller's loop, or to the
\* goroutine.
Return(g, a) ==
  LET d == Len(stack[g]) - 1
  IN  IF d = 0
      THEN /\ stack' = [stack EXCEPT ![g] = <<>>]
           /\ result' = [result EXCEPT ![call[g]] = a]
      ELSE LET f == stack[g][d]
               looped == [f EXCEPT !.next = @ + 1, !.err = Combine(g, f, a)]
           IN  /\ stack' = [stack EXCEPT ![g] = Append(SubSeq(@, 1, d - 1), looped)]
               /\ UNCHANGED result

\* Slip: Flush and Close, too, stop at the first child that succeeds.
FinishedAnyOp(g, f) ==
  \/ f.next > Len(Kids(f.node))
  \/ Kind(f.node) = "failover" /\ f.next > 1 /\ f.err = "nil"

\* Slip: failover stops after its first child.
FinishedFirst(g, f) ==
  \/ f.next > Len(Kids(f.node))
  \/ Kind(f.node) = "failover" /\ Op(g) = "Log" /\ f.next > 1

\* The loop ends with its last child; failover.Log returns when one takes the entry.
Finished(g, f) ==
  \/ f.next > Len(Kids(f.node))
  \/ Kind(f.node) = "failover" /\ Op(g) = "Log" /\ f.next > 1 /\ f.err = "nil"

\* h.Log(e), h.Flush() or h.Close() of the next child
Descend(g) ==
  /\ InCall(g)
  /\ Kind(Top(g).node) \in {"failover", "list"}
  /\ ~ Finished(g, Top(g))
  /\ stack' = [stack EXCEPT ![g] = Append(@, Enter(Kids(Top(g).node)[Top(g).next]))]
  /\ UNCHANGED <<tree, streams, call, history>>

Leave(g) ==
  /\ InCall(g)
  /\ Kind(Top(g).node) \in {"failover", "list"}
  /\ Finished(g, Top(g))
  /\ Return(g, Top(g).err)
  /\ UNCHANGED <<tree, streams, call, calls, answers, visits>>

----------------------------------------------------------------------------
(* Streams *)

\* Slip: Log does not look at closed.
MayAnswerOpen(n, op, type) ==
  IF closed[n] /\ op # "Log" THEN {"closed"}
  ELSE IF n \in tree.reliable \/ (op = "Log" /\ type \notin tree.types[n]) THEN {"nil"}
  ELSE {"nil", "failed"}

\* What stream n may answer.
MayAnswer(n, op, type) ==
  IF closed[n] THEN {"closed"}
  ELSE IF n \in tree.reliable \/ (op = "Log" /\ type \notin tree.types[n]) THEN {"nil"}
  ELSE {"nil", "failed"}

\* s.Log, s.Flush or s.Close of stream n answers a.  Close sets closed even when
\* wc.Close fails.
LogTo(n, c, a) ==
  /\ written' = IF a = "nil" /\ calls[c].type \in tree.types[n]
                THEN [written EXCEPT ![n] = @ \cup {c}] ELSE written
  /\ UNCHANGED <<closed, ends, synced, flushing>>

FlushOf(n, a) ==
  /\ synced' = IF a = "nil" THEN [synced EXCEPT ![n] = written[n]] ELSE synced
  /\ UNCHANGED <<closed, ends, written>>

CloseOf(n) ==
  /\ closed' = [closed EXCEPT ![n] = TRUE]
  /\ ends' = IF closed[n] THEN ends ELSE [ends EXCEPT ![n] = @ + 1]
  /\ UNCHANGED <<written, synced, flushing>>

Stream(g, a) ==
  /\ InCall(g)
  /\ LET n == Top(g).node
         c == call[g]
     IN  /\ Kind(n) = "stream"
         /\ a \in MayAnswer(n, Op(g), calls[c].type)
         /\ CASE Op(g) = "Log"   -> LogTo(n, c, a)
              [] Op(g) = "Flush" -> FlushOf(n, a) /\ UNCHANGED flushing
              [] Op(g) = "Close" -> CloseOf(n)
         /\ answers' = [answers EXCEPT ![c][n] = a]
         /\ visits' = [visits EXCEPT ![c][n] = @ + 1]
  /\ Return(g, a)
  /\ UNCHANGED <<tree, call, calls>>

\* s.flush: for s.Flush() != nil { time.Sleep(duration) }, which ends the goroutine
\* at the first Flush that succeeds
FlushTick(n, a) ==
  /\ flushing[n]
  /\ a \in MayAnswer(n, "Flush", "info")
  /\ FlushOf(n, a)
  /\ flushing' = [flushing EXCEPT ![n] = a # "nil"]
  /\ UNCHANGED <<tree, stack, call, history>>

----------------------------------------------------------------------------

Method(g) == Descend(g) \/ Leave(g) \/ \E a \in Answers : Stream(g, a)

Next ==
  \/ \E g \in Goroutines, op \in Ops, t \in Types : Call(g, op, t)
  \/ \E g \in Goroutines : Method(g)
  \/ \E n \in Nodes, a \in Answers : FlushTick(n, a)

Spec == Init /\ [][Next]_vars
----------------------------------------------------------------------------
(* Properties *)

TypeOK ==
  /\ tree \in Trees
  /\ closed \in [Nodes -> BOOLEAN]
  /\ ends \in [Nodes -> Nat]
  /\ written \in [Nodes -> SUBSET (1..MaxCalls)]
  /\ synced \in [Nodes -> SUBSET (1..MaxCalls)]
  /\ flushing \in [Nodes -> BOOLEAN]
  /\ stack \in [Goroutines -> Seq(Frames)]
  /\ call \in [Goroutines -> 0..MaxCalls]
  /\ calls \in Seq([op : Ops, type : Types, before : [Nodes -> SUBSET (1..MaxCalls)]])
  /\ Len(calls) <= MaxCalls
  /\ answers \in [1..MaxCalls -> [Nodes -> Answers \cup {"none"}]]
  /\ visits \in [1..MaxCalls -> [Nodes -> Nat]]
  /\ result \in [1..MaxCalls -> Answers \cup {"none"}]

Returned(op) == {c \in 1..Len(calls) : calls[c].op = op /\ result[c] # "none"}

\* What handler n makes of the answers of the streams below it in call c: failover
\* passes on the success of any child and else the error of the last; a multi
\* handler reports no error.
Outcome(c) ==
  LET v[n \in Nodes] ==
        LET below == {v[Kids(n)[i]] : i \in 1..Len(Kids(n))}
        IN  CASE Kind(n) = "stream" -> answers[c][n]
              [] Kind(n) = "failover" /\ below # {} /\ "nil" \notin below ->
                   v[Kids(n)[Len(Kids(n))]]
              [] OTHER -> "nil"
  IN  v

\* The handlers an entry is offered to: every child of a multi handler, and a child
\* of a failover handler when all before it have refused the entry.
Offered(c) ==
  LET v == Outcome(c)
      o[n \in Nodes] ==
        \/ n = Root
        \/ \E p \in Nodes : p < n /\ o[p] /\ \E i \in 1..Len(Kids(p)) :
             /\ Kids(p)[i] = n
             /\ Kind(p) = "failover" => \A j \in 1..i-1 : v[Kids(p)[j]] # "nil"
  IN  {n \in Nodes : o[n]}

\* Whatever fails or is closed while an entry passes through the tree, it is offered
\* to exactly the streams failover and multi handlers stand for, once each, and
\* Log reports what became of it.
LogOutcome ==
  \A c \in Returned("Log") :
    /\ result[c] = Outcome(c)[Root]
    /\ \A n \in Streams : visits[c][n] = IF n \in Offered(c) THEN 1 ELSE 0

\* A Flush that reports success has flushed, in every stream of the tree, all that
\* was written before it was called, although other goroutines write meanwhile.
FlushCovers ==
  \A c \in Returned("Flush") :
    result[c] = "nil" => \A n \in Streams : calls[c].before[n] \subseteq synced[n]

\* When a Close has returned, every stream of the tree is closed, by one wc.Close,
\* however many Closes run at once and whatever fails.
CloseComplete == Returned("Close") # {} => \A n \in Streams : closed[n] /\ ends[n] = 1

\* From then on nothing is written or flushed.
SilentAfterClose == [][Returned("Close") # {} => UNCHANGED <<written, synced>>]_vars
=============================================================================

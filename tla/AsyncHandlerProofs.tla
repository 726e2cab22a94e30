------------------------- MODULE AsyncHandlerProofs -------------------------
(***************************************************************************)
(* Machine-checked proofs about AsyncHandler, for any number of            *)
(* goroutines, any buffer size and any number of calls.                    *)
(***************************************************************************)
EXTENDS AsyncHandler, SequenceTheorems, TLAPS

----------------------------------------------------------------------------
(* Facts about sequences *)

\* Appending to the last part of a concatenation appends to the whole.
LEMMA AppendConcat ==
  ASSUME NEW s \in Seq(Nat), NEW t \in Seq(Nat), NEW e \in Nat
  PROVE  Append(s \o t, e) = s \o Append(t, e)
<1>1. Append(s \o t, e) = (s \o t) \o <<e>>
  BY ConcatProperties, AppendIsConcat
<1>2. Append(t, e) = t \o <<e>>
  BY AppendIsConcat
<1>3. <<e>> \in Seq(Nat)
  OBVIOUS
<1> QED
  BY <1>1, <1>2, <1>3, ConcatAssociative

\* A nonempty sequence is its head followed by its tail.
LEMMA HeadConcatTail ==
  ASSUME NEW S, NEW s \in Seq(S), s # <<>>
  PROVE  s = <<Head(s)>> \o Tail(s)
<1>1. <<Head(s)>> \in Seq(S) /\ Tail(s) \in Seq(S) /\ Len(<<Head(s)>>) = 1
  BY HeadTailProperties
<1>2. Len(<<Head(s)>> \o Tail(s)) = Len(s)
  BY <1>1, ConcatProperties, HeadTailProperties, LenProperties
<1>3. \A i \in 1..Len(s) : s[i] = (<<Head(s)>> \o Tail(s))[i]
  BY <1>1, HeadTailProperties, ConcatProperties, LenProperties
<1> QED
  BY <1>1, <1>2, <1>3, ConcatProperties, SeqEqual

----------------------------------------------------------------------------
(* The type invariant *)

USE DEF callers, worker, wrapped, rest

\* Every step of the handler keeps the state well typed and the queue within
\* its capacity.
LEMMA TypeStep == TypeOK /\ [Next]_vars => TypeOK'
<1> SUFFICES ASSUME TypeOK, [Next]_vars PROVE TypeOK'
  OBVIOUS
<1> USE AsyncAssumption DEF TypeOK, Labels, Goto
<1>1. CASE UNCHANGED vars
  BY <1>1 DEF vars
<1>2. ASSUME NEW g \in Goroutines, LogCall(g) \/ FlushCall(g) \/ CloseCall(g)
      PROVE TypeOK'
  <2>0. Len(sent) \in Nat
    BY LenProperties
  <2>1. CASE LogCall(g)
    BY <2>1 DEF LogCall, Call
  <2>2. CASE FlushCall(g)
    BY <2>0, <2>2 DEF FlushCall, Call
  <2>3. CASE CloseCall(g)
    BY <2>0, <2>3 DEF CloseCall, Call
  <2> QED
    BY <1>2, <2>1, <2>2, <2>3
<1>3. ASSUME NEW g \in Goroutines, Caller(g) PROVE TypeOK'
  <2>1. CASE SendEntry(g)
    BY <2>1, AppendProperties DEF SendEntry
  <2>2. CASE HandOffEntry(g)
    BY <2>2, AppendProperties DEF HandOffEntry
  <2>3. CASE RequestFlush(g) \/ AckFlush(g) \/ ReleaseFlush(g)
    BY <2>3 DEF RequestFlush, AckFlush, ReleaseFlush
  <2>4. CASE RequestStop(g) \/ AckStop(g) \/ ReleaseStop(g)
    BY <2>4 DEF RequestStop, AckStop, ReleaseStop
  <2>5. CASE CloseStop(g) \/ CloseHandler(g)
    BY <2>5 DEF CloseStop, CloseHandler
  <2>6. ASSUME NEW h \in Goroutines, CrossStop(g, h) PROVE TypeOK'
    BY <2>6 DEF CrossStop
  <2>7. CASE Panic(pc[g])
    BY <2>7 DEF Panic
  <2> QED
    BY <1>3, <2>1, <2>2, <2>3, <2>4, <2>5, <2>6, <2>7 DEF Caller
<1>4. CASE Worker
  <2>1. CASE Receive
    BY <2>1, HeadTailProperties, LenProperties DEF Receive
  <2>2. CASE ReceiveStopClosed \/ Check
    BY <2>2 DEF ReceiveStopClosed, Check, AfterCheck
  <2>3. CASE LogEntry
    BY <2>3, AppendProperties DEF LogEntry
  <2>4. CASE FlushHandler
    BY <2>4, LenProperties DEF FlushHandler
  <2>5. ASSUME NEW i \in 1..3, CloseChannel(i) PROVE TypeOK'
    <3>1. CloseOrder[i] \in {"flush", "flushWait", "queue"}
      BY DEF CloseOrder
    <3> QED
      BY <2>5, <3>1 DEF CloseChannel
  <2>6. CASE Panic(run)
    BY <2>6 DEF Panic
  <2> QED
    BY <1>4, <2>1, <2>2, <2>3, <2>4, <2>5, <2>6 DEF Worker
<1> QED
  BY <1>1, <1>2, <1>3, <1>4 DEF Next

LEMMA TypeInit == Init => TypeOK
<1> SUFFICES ASSUME Init PROVE TypeOK
  OBVIOUS
<1>1. queue \in Seq(Nat) /\ Len(queue) <= bufsize
  BY EmptySeq, AsyncAssumption DEF Init
<1>2. pc \in [Goroutines -> Labels] /\ arg \in [Goroutines -> Nat]
  BY DEF Init, Labels
<1>3. bufsize \in Nat
  BY AsyncAssumption DEF Init
<1> QED
  BY <1>1, <1>2, <1>3 DEF Init, TypeOK

\* The handler's state is always well typed; in particular the queue never
\* holds more than bufsize entries.
THEOREM TypeCorrect == Spec => []TypeOK
  BY TypeInit, TypeStep, PTL DEF Spec

----------------------------------------------------------------------------
(* The channel is a queue between the goroutines and the wrapped handler *)

LEMMA FIFOStep == TypeOK /\ ChannelFIFO /\ [Next]_vars => ChannelFIFO'
<1> SUFFICES ASSUME TypeOK, ChannelFIFO, [Next]_vars PROVE ChannelFIFO'
  OBVIOUS
<1> USE DEF TypeOK
<1> DEFINE Same == UNCHANGED <<sent, handled, queue>> /\ InHand' = InHand
<1>0. ASSUME Same PROVE ChannelFIFO'
  BY <1>0 DEF ChannelFIFO
<1>1. CASE UNCHANGED vars
  BY <1>0, <1>1 DEF vars, InHand
<1>2. ASSUME NEW g \in Goroutines, LogCall(g) \/ FlushCall(g) \/ CloseCall(g)
      PROVE ChannelFIFO'
  BY <1>0, <1>2 DEF LogCall, FlushCall, CloseCall, Call, InHand
<1>3. ASSUME NEW g \in Goroutines, Caller(g) PROVE ChannelFIFO'
  <2>1. CASE SendEntry(g)
    <3>1. InHand' = InHand /\ InHand \in Seq(Nat)
      BY <2>1 DEF SendEntry, InHand
    <3>2. handled \o InHand \in Seq(Nat)
      BY <3>1, ConcatProperties
    <3>3. Append(sent, arg[g]) = (handled \o InHand) \o Append(queue, arg[g])
      <4>1. queue \in Seq(Nat) /\ arg[g] \in Nat
        OBVIOUS
      <4> HIDE DEF TypeOK
      <4> QED
        BY <3>2, <4>1, AppendConcat DEF ChannelFIFO
    <3> QED
      BY <2>1, <3>1, <3>3 DEF SendEntry, ChannelFIFO
  <2>2. CASE HandOffEntry(g)
    <3>1. queue = <<>>
      BY <2>2, EmptySeq, AsyncAssumption DEF HandOffEntry
    <3>2. sent = handled
      BY <2>2, <3>1, ConcatEmptySeq, EmptySeq DEF HandOffEntry, ChannelFIFO, InHand
    <3>3. sent' = handled \o <<arg[g]>>
      BY <2>2, <3>2, AppendIsConcat DEF HandOffEntry
    <3>4. InHand' = <<arg[g]>> /\ queue' = <<>> /\ handled' = handled
      BY <2>2, <3>1 DEF HandOffEntry, InHand
    <3>5. handled \o <<arg[g]>> \in Seq(Nat)
      BY ConcatProperties
    <3> QED
      BY <3>3, <3>4, <3>5, ConcatEmptySeq DEF ChannelFIFO
  <2>3. CASE RequestFlush(g) \/ AckFlush(g) \/ ReleaseFlush(g)
    BY <1>0, <2>3 DEF RequestFlush, AckFlush, ReleaseFlush, InHand
  <2>4. CASE RequestStop(g) \/ AckStop(g) \/ ReleaseStop(g)
    BY <1>0, <2>4 DEF RequestStop, AckStop, ReleaseStop, InHand
  <2>5. CASE CloseStop(g) \/ CloseHandler(g)
    BY <1>0, <2>5 DEF CloseStop, CloseHandler, InHand
  <2>6. ASSUME NEW h \in Goroutines, CrossStop(g, h) PROVE ChannelFIFO'
    BY <1>0, <2>6 DEF CrossStop, InHand
  <2>7. CASE Panic(pc[g])
    BY <1>0, <2>7 DEF Panic, InHand
  <2> QED
    BY <1>3, <2>1, <2>2, <2>3, <2>4, <2>5, <2>6, <2>7 DEF Caller
<1>4. CASE Worker
  <2>1. CASE Receive
    <3>1. InHand = <<>> /\ InHand' = <<Head(queue)>> /\ queue' = Tail(queue)
      BY <2>1 DEF Receive, InHand
    <3>2. queue = InHand' \o queue'
      BY <2>1, <3>1, HeadConcatTail DEF Receive
    <3>3. InHand' \in Seq(Nat) /\ queue' \in Seq(Nat)
      BY <2>1, <3>1, HeadTailProperties DEF Receive
    <3>4. sent = handled \o queue
      BY <3>1, ConcatEmptySeq DEF ChannelFIFO
    <3>5. sent = (handled \o InHand') \o queue'
      <4>1. handled \in Seq(Nat)
        OBVIOUS
      <4> HIDE DEF TypeOK
      <4>2. (handled \o InHand') \o queue' = handled \o (InHand' \o queue')
        BY <3>3, <4>1, ConcatAssociative, SMT
      <4> QED
        BY <3>2, <3>4, <4>2
    <3> QED
      BY <2>1, <3>5 DEF Receive, ChannelFIFO
  <2>2. CASE LogEntry
    <3>1. InHand = <<cur>> /\ InHand' = <<>> /\ queue' = queue
      BY <2>2 DEF LogEntry, InHand
    <3>2. handled' = handled \o InHand /\ handled' \in Seq(Nat)
      BY <2>2, <3>1, AppendIsConcat, AppendProperties DEF LogEntry
    <3>3. sent = handled' \o InHand' \o queue'
      BY <3>1, <3>2, ConcatEmptySeq DEF ChannelFIFO
    <3> QED
      BY <2>2, <3>3 DEF LogEntry, ChannelFIFO
  <2>3. CASE ReceiveStopClosed \/ Check \/ FlushHandler
    BY <1>0, <2>3 DEF ReceiveStopClosed, Check, AfterCheck, FlushHandler, InHand
  <2>4. ASSUME NEW i \in 1..3, CloseChannel(i) PROVE ChannelFIFO'
    BY <1>0, <2>4 DEF CloseChannel, InHand
  <2>5. CASE Panic(run)
    BY <1>0, <2>5 DEF Panic, InHand
  <2> QED
    BY <1>4, <2>1, <2>2, <2>3, <2>4, <2>5 DEF Worker
<1> QED
  BY <1>1, <1>2, <1>3, <1>4 DEF Next

LEMMA FIFOInit == Init => ChannelFIFO
<1> SUFFICES ASSUME Init PROVE ChannelFIFO
  OBVIOUS
<1>1. handled = <<>> /\ InHand = <<>> /\ queue = <<>> /\ sent = <<>>
  BY DEF Init, InHand
<1> QED
  BY <1>1, ConcatEmptySeq, EmptySeq DEF ChannelFIFO

\* However many goroutines log, flush and close at once, the wrapped handler
\* receives exactly the entries that were accepted, in the order in which they
\* were accepted; what it has not received yet is in the channel or in the
\* worker's hand.
THEOREM FIFO == Spec => []ChannelFIFO
  BY FIFOInit, FIFOStep, TypeCorrect, PTL DEF Spec

----------------------------------------------------------------------------
(* One Close, any number of Log and Flush calls around it *)

\* What the FIFO says about lengths.
LEMMA FIFOLength ==
  ASSUME TypeOK, ChannelFIFO
  PROVE  /\ Len(sent) \in Nat /\ Len(handled) \in Nat /\ Len(queue) \in Nat
         /\ Len(sent) = Len(handled) + (IF run = "log" THEN 1 ELSE 0) + Len(queue)
<1>1. InHand \in Seq(Nat) /\ Len(InHand) = IF run = "log" THEN 1 ELSE 0
  BY EmptySeq DEF InHand, TypeOK
<1>2. handled \o InHand \in Seq(Nat) /\ Len(handled \o InHand) = Len(handled) + Len(InHand)
  BY <1>1, ConcatProperties DEF TypeOK
<1>3. Len(sent) = Len(handled \o InHand) + Len(queue)
  BY <1>2, ConcatProperties DEF TypeOK, ChannelFIFO
<1> QED
  BY <1>1, <1>2, <1>3, LenProperties DEF TypeOK

\* The number of Close calls never falls.
LEMMA ClosesGrow ==
  ASSUME TypeOK, [Next]_vars
  PROVE  closes' = closes \/ closes' = closes + 1
  BY DEF Next, vars, LogCall, FlushCall, CloseCall, Call, Caller, SendEntry, HandOffEntry,
         RequestFlush, AckFlush, ReleaseFlush, RequestStop, AckStop, ReleaseStop, CloseStop,
         CloseHandler, CrossStop, Panic, Worker, Receive, ReceiveStopClosed, LogEntry, Check,
         FlushHandler, CloseChannel

\* The inductive invariant.
IInv == TypeOK /\ ChannelFIFO /\ Coordination

LEMMA CoordinationStep ==
  ASSUME IInv, [Next]_vars
  PROVE  Coordination'
<1> SUFFICES ASSUME closes' <= 1 PROVE Coordination'
  BY DEF Coordination
<1> USE AsyncAssumption
<1>0. TypeOK /\ ChannelFIFO /\ TypeOK' /\ ChannelFIFO'
  BY TypeStep, FIFOStep DEF IInv
<1>1. /\ Len(sent) \in Nat /\ Len(handled) \in Nat /\ Len(queue) \in Nat
      /\ Len(sent) = Len(handled) + (IF run = "log" THEN 1 ELSE 0) + Len(queue)
  BY <1>0, FIFOLength
<1>2. pc \in [Goroutines -> Labels] /\ arg \in [Goroutines -> Nat] /\ durable \in Nat
      /\ issued \in Nat /\ closes \in Nat /\ MaxEntries \in Nat
  BY <1>0 DEF TypeOK
<1>3. sent \in Seq(Nat) /\ handled \in Seq(Nat) /\ queue \in Seq(Nat)
  BY <1>0 DEF TypeOK
<1>4. closes <= 1 /\ Snapshots /\ OneClose /\ ClosePhases /\ FlushPhases
  BY <1>2, ClosesGrow DEF IInv, Coordination
<1> USE DEF Coordination, Snapshots, OneClose, ClosePhases, FlushPhases, Flushing, Closing, Finishing,
            Goto, Entries, Labels
<1>5. CASE UNCHANGED vars
  BY <1>4, <1>5 DEF vars
<1>6. ASSUME NEW g \in Goroutines, LogCall(g) PROVE Coordination'
  BY <1>1, <1>2, <1>4, <1>6 DEF LogCall, Call
<1>7. ASSUME NEW g \in Goroutines, FlushCall(g) PROVE Coordination'
  BY <1>1, <1>2, <1>4, <1>7 DEF FlushCall, Call
<1>8. ASSUME NEW g \in Goroutines, CloseCall(g) PROVE Coordination'
  BY <1>1, <1>2, <1>4, <1>8 DEF CloseCall, Call
<1>9. ASSUME NEW g \in Goroutines, Caller(g) PROVE Coordination'
  <2>1. CASE SendEntry(g)
    <3>1. Len(sent') = Len(sent) + 1
      BY <1>2, <1>3, <2>1, AppendProperties DEF SendEntry
    <3> QED
      BY <1>1, <1>2, <1>4, <2>1, <3>1 DEF SendEntry
  <2>2. CASE HandOffEntry(g)
    <3>1. Len(sent') = Len(sent) + 1
      BY <1>2, <1>3, <2>2, AppendProperties DEF HandOffEntry
    <3> QED
      BY <1>1, <1>2, <1>4, <2>2, <3>1 DEF HandOffEntry
  <2>3. CASE RequestFlush(g)
    BY <1>1, <1>2, <1>4, <2>3 DEF RequestFlush
  <2>4. CASE AckFlush(g)
    BY <1>1, <1>2, <1>4, <2>4 DEF AckFlush
  <2>5. CASE ReleaseFlush(g)
    BY <1>1, <1>2, <1>4, <2>5 DEF ReleaseFlush
  <2>6. CASE RequestStop(g)
    BY <1>1, <1>2, <1>4, <2>6 DEF RequestStop
  <2>7. CASE AckStop(g)
    BY <1>1, <1>2, <1>4, <2>7 DEF AckStop
  <2>8. CASE ReleaseStop(g)
    BY <1>1, <1>2, <1>4, <2>8 DEF ReleaseStop
  <2>9. CASE CloseStop(g)
    BY <1>1, <1>2, <1>4, <2>9 DEF CloseStop
  <2>10. CASE CloseHandler(g)
    BY <1>1, <1>2, <1>4, <2>10 DEF CloseHandler
  <2>11. ASSUME NEW h \in Goroutines, CrossStop(g, h) PROVE Coordination'
    BY <1>1, <1>2, <1>4, <2>11 DEF CrossStop
  <2>12. CASE Panic(pc[g])
    BY <1>1, <1>2, <1>4, <2>12 DEF Panic
  <2> QED
    BY <1>9, <2>1, <2>2, <2>3, <2>4, <2>5, <2>6, <2>7, <2>8, <2>9, <2>10, <2>11, <2>12
    DEF Caller
<1>10. CASE Worker
  <2>1. CASE Receive
    BY <1>1, <1>2, <1>4, <2>1 DEF Receive
  <2>2. CASE ReceiveStopClosed
    BY <1>1, <1>2, <1>4, <2>2 DEF ReceiveStopClosed
  <2>3. CASE LogEntry
    <3>1. Len(handled') = Len(handled) + 1
      BY <1>0, <1>3, <2>3, AppendProperties DEF LogEntry, TypeOK
    <3> QED
      BY <1>1, <1>2, <1>4, <2>3, <3>1 DEF LogEntry
  <2>4. CASE Check
    <3>1. queue = <<>> => Len(queue) = 0
      BY EmptySeq
    <3> QED
      BY <1>1, <1>2, <1>4, <2>4, <3>1 DEF Check, AfterCheck
  <2>5. CASE FlushHandler
    BY <1>1, <1>2, <1>4, <2>5 DEF FlushHandler
  <2>6. ASSUME NEW i \in 1..3, CloseChannel(i) PROVE Coordination'
    BY <1>1, <1>2, <1>4, <2>6 DEF CloseChannel, CloseOrder
  <2>7. CASE Panic(run)
    BY <1>1, <1>2, <1>4, <2>7 DEF Panic
  <2> QED
    BY <1>10, <2>1, <2>2, <2>3, <2>4, <2>5, <2>6, <2>7 DEF Worker
<1> QED
  BY <1>5, <1>6, <1>7, <1>8, <1>9, <1>10 DEF Next

LEMMA IInvInit == Init => IInv
<1> SUFFICES ASSUME Init PROVE IInv
  OBVIOUS
<1>1. TypeOK /\ ChannelFIFO
  BY TypeInit, FIFOInit
<1>2. Coordination
  BY EmptySeq, AsyncAssumption
  DEF Init, Coordination, Snapshots, OneClose, ClosePhases, FlushPhases,
      Flushing, Closing, Finishing
<1> QED
  BY <1>1, <1>2 DEF IInv

LEMMA IInvariant == Spec => []IInv
<1>1. IInv /\ [Next]_vars => IInv'
  BY TypeStep, FIFOStep, CoordinationStep DEF IInv
<1> QED
  BY <1>1, IInvInit, PTL DEF Spec

\* The calls, the worker and the channels always agree as long as Close was called
\* at most once, whatever else is called and however the goroutines interleave.
THEOREM Coordinated == Spec => []Coordination
<1>1. IInv => Coordination
  BY DEF IInv
<1> QED
  BY <1>1, IInvariant, PTL

\* A single Close, racing any number of Log and Flush calls, closes the wrapped
\* handler only when everything accepted before it was called has been logged,
\* the worker does not use the wrapped handler after that, and if something
\* panics it is a Log or a Flush.
THEOREM CloseSafe == Spec => []CloseSafety
<1>1. IInv => CloseDrains
  BY DEF IInv, Coordination, ClosePhases, CloseDrains, Closing, Finishing
<1>2. IInv => NoUseAfterClose
  BY DEF IInv, Coordination, ClosePhases, NoUseAfterClose
<1>3. IInv => OnlyLogAndFlushPanic
  <2> SUFFICES ASSUME IInv, closes <= 1
               PROVE  ~ Panics(run) /\ \A g \in Goroutines : Panics(pc[g]) => pc[g] \in {"logSend", "flushSend"}
    BY DEF OnlyLogAndFlushPanic
  <2>1. ~ Panics(run)
    BY DEF IInv, Coordination, ClosePhases, TypeOK, Panics
  <2>2. ASSUME NEW g \in Goroutines, Panics(pc[g])
        PROVE  pc[g] \in {"logSend", "flushSend"}
    <3>1. pc[g] \in Labels
      BY DEF IInv, TypeOK
    <3>2. pc[g] \notin {"stopSend", "closeStop"}
      BY <2>2 DEF Panics, IInv, Coordination, ClosePhases, Finishing
    <3> QED
      BY <2>2, <3>1, <3>2 DEF Panics, Labels
  <2> QED
    BY <2>1, <2>2
<1>4. IInv => CloseSafety
  BY <1>1, <1>2, <1>3 DEF CloseSafety
<1> QED
  BY <1>4, IInvariant, PTL

\* A Flush returns only after everything accepted before it was called has been
\* flushed by the wrapped handler, whoever logged it and whichever request the
\* worker answered.
THEOREM FlushIsBarrier == Spec => FlushBarrier
<1> DEFINE Barrier ==
      closes <= 1 =>
        \A g \in Goroutines : pc[g] = "flushWait" /\ pc'[g] = "idle" => arg[g] <= durable'
<1>1. ASSUME IInv, [Next]_vars PROVE Barrier
  <2> SUFFICES ASSUME closes <= 1, NEW g \in Goroutines, pc[g] = "flushWait", pc'[g] = "idle"
               PROVE  arg[g] <= durable'
    OBVIOUS
  <2>0. pc \in [Goroutines -> Labels]
    BY <1>1 DEF IInv, TypeOK
  <2>1. \/ \E h \in Goroutines : AckFlush(h) \/ ReleaseFlush(h)
        \/ UNCHANGED vars
        \/ pc' = pc
        \/ \E h \in Goroutines, l \in Labels : pc[h] # "flushWait" /\ pc' = [pc EXCEPT ![h] = l]
        \/ \E h, k \in Goroutines : CrossStop(h, k)
    <3> USE <2>0 DEF Labels
    <3>1. ASSUME NEW h \in Goroutines, LogCall(h) \/ FlushCall(h) \/ CloseCall(h)
          PROVE  \E l \in Labels : pc[h] # "flushWait" /\ pc' = [pc EXCEPT ![h] = l]
      BY <3>1 DEF LogCall, FlushCall, CloseCall, Call, Goto
    <3>2. ASSUME NEW h \in Goroutines,
                 \/ SendEntry(h) \/ HandOffEntry(h) \/ RequestFlush(h) \/ RequestStop(h)
                 \/ AckStop(h) \/ ReleaseStop(h) \/ CloseStop(h) \/ CloseHandler(h)
          PROVE  \E l \in Labels : pc[h] # "flushWait" /\ pc' = [pc EXCEPT ![h] = l]
      BY <3>2 DEF SendEntry, HandOffEntry, RequestFlush, RequestStop, AckStop, ReleaseStop,
                  CloseStop, CloseHandler, Goto
    <3>3. Worker => pc' = pc
      BY DEF Worker, Receive, ReceiveStopClosed, LogEntry, Check, FlushHandler, CloseChannel, Panic
    <3>4. ASSUME NEW h \in Goroutines, Panic(pc[h]) PROVE pc' = pc
      BY <3>4 DEF Panic
    <3> QED
      BY <1>1, <3>1, <3>2, <3>3, <3>4 DEF Next, Caller
  <2>2. flush = FALSE => arg[g] <= durable
    BY <1>1 DEF IInv, Coordination, FlushPhases
  <2>3. CASE \E h \in Goroutines : AckFlush(h) \/ ReleaseFlush(h)
    BY <1>1, <2>2, <2>3 DEF AckFlush, ReleaseFlush, IInv, TypeOK, Coordination, FlushPhases,
                            ClosePhases, Finishing
  <2>4. CASE \E h, k \in Goroutines : CrossStop(h, k)
    BY <2>0, <2>4 DEF CrossStop
  <2> QED
    BY <2>0, <2>1, <2>3, <2>4 DEF vars
<1> QED
  BY <1>1, IInvariant, PTL DEF Spec, FlushBarrier

----------------------------------------------------------------------------
(* An orderly application *)

\* Its one Close is the last call to begin and finds none running, so that from then
\* on nothing more is accepted.
Quiet ==
  Orderly =>
    /\ OrderlyShutdown
    /\ closes <= 1
    /\ closes = 1 => \A g \in Goroutines : pc[g] = "idle" \/ (Closing(g) /\ arg[g] = Len(sent))

\* When all that was accepted has been handled, what was handled is what was accepted.
LEMMA AllHandled ==
  ASSUME TypeOK, ChannelFIFO, Len(sent) <= Len(handled)
  PROVE  handled = sent
<1>1. /\ Len(sent) \in Nat /\ Len(handled) \in Nat /\ Len(queue) \in Nat
      /\ Len(sent) = Len(handled) + (IF run = "log" THEN 1 ELSE 0) + Len(queue)
  BY FIFOLength
<1>2. Len(queue) = 0 /\ run # "log"
  BY <1>1
<1>3. queue = <<>> /\ InHand = <<>>
  BY <1>2, EmptySeq DEF TypeOK, InHand
<1> QED
  BY <1>3, ConcatEmptySeq, EmptySeq DEF ChannelFIFO, TypeOK

LEMMA QuietStep ==
  ASSUME IInv, Quiet, [Next]_vars
  PROVE  Quiet'
<1> SUFFICES ASSUME Orderly PROVE Quiet'
  BY DEF Quiet
<1>1. /\ TypeOK /\ ChannelFIFO /\ ~crashed /\ closes <= 1
      /\ Snapshots /\ OneClose /\ ClosePhases /\ FlushPhases
      /\ pc \in [Goroutines -> Labels] /\ arg \in [Goroutines -> Nat] /\ closes \in Nat
      /\ closes = 1 => \A g \in Goroutines : pc[g] = "idle" \/ (Closing(g) /\ arg[g] = Len(sent))
      /\ handlerClosed => handled = sent
      /\ handlerClosed \in BOOLEAN
  BY DEF IInv, Quiet, OrderlyShutdown, Coordination, TypeOK
<1>2. closes = 0 \/ closes = 1
  BY <1>1
<1>3. \A g \in Goroutines : Closing(g) => closes = 1
  BY <1>1, <1>2 DEF OneClose
<1>4. \A g \in Goroutines : pc[g] \in {"logSend", "flushSend", "flushWait"} => closes = 0
  BY <1>1, <1>2 DEF Closing
<1>5. handlerClosed => closes = 1 /\ run = "done"
  BY <1>1, <1>2 DEF OneClose, ClosePhases
<1>6. \A l : l = run \/ (\E g \in Goroutines : l = pc[g]) => ~ Panics(l)
  <2>1. ~ Panics(run)
    BY <1>1 DEF TypeOK, ClosePhases, Panics
  <2>2. ASSUME NEW g \in Goroutines PROVE ~ Panics(pc[g])
    <3>1. pc[g] \notin {"stopSend", "closeStop"} \/ "stop" \notin closed
      BY <1>1 DEF ClosePhases, Finishing
    <3>2. pc[g] \in {"logSend", "flushSend"} => closed = {}
      BY <1>1, <1>4 DEF OneClose
    <3> QED
      BY <3>1, <3>2 DEF Panics
  <2> QED
    BY <2>1, <2>2
<1> USE DEF Quiet, OrderlyShutdown, Goto, Closing, Labels
<1>7. CASE UNCHANGED vars
  BY <1>1, <1>7 DEF vars
<1>8. ASSUME NEW g \in Goroutines, LogCall(g) \/ FlushCall(g) PROVE Quiet'
  BY <1>1, <1>8 DEF LogCall, FlushCall, Call
<1>9. ASSUME NEW g \in Goroutines, CloseCall(g) PROVE Quiet'
  BY <1>1, <1>9 DEF CloseCall, Call
<1>10. ASSUME NEW g \in Goroutines, Caller(g) PROVE Quiet'
  <2>1. CASE SendEntry(g) \/ HandOffEntry(g)
    BY <1>1, <1>4, <1>5, <2>1 DEF SendEntry, HandOffEntry
  <2>2. CASE RequestFlush(g) \/ AckFlush(g) \/ ReleaseFlush(g)
    BY <1>1, <1>4, <1>5, <2>2 DEF RequestFlush, AckFlush, ReleaseFlush
  <2>3. CASE RequestStop(g) \/ AckStop(g) \/ ReleaseStop(g)
    BY <1>1, <1>3, <2>3 DEF RequestStop, AckStop, ReleaseStop
  <2>4. CASE CloseStop(g)
    BY <1>1, <1>3, <2>4 DEF CloseStop
  <2>5. CASE CloseHandler(g)
    <3>1. Len(sent) <= Len(handled)
      BY <1>1, <1>3, <2>5 DEF CloseHandler, ClosePhases, Finishing
    <3>2. handled = sent
      BY <1>1, <3>1, AllHandled
    <3> QED
      BY <1>1, <1>3, <2>5, <3>2 DEF CloseHandler
  <2>6. ASSUME NEW h \in Goroutines, CrossStop(g, h) PROVE Quiet'
    BY <1>1, <1>3, <2>6 DEF CrossStop
  <2>7. ~ Panic(pc[g])
    BY <1>6 DEF Panic
  <2> QED
    BY <1>10, <2>1, <2>2, <2>3, <2>4, <2>5, <2>6, <2>7 DEF Caller
<1>11. CASE Worker
  <2>1. CASE LogEntry
    BY <1>1, <1>5, <2>1 DEF LogEntry
  <2>2. CASE Receive \/ ReceiveStopClosed \/ Check \/ FlushHandler \/ \E i \in 1..3 : CloseChannel(i)
    BY <1>1, <2>2 DEF Receive, ReceiveStopClosed, Check, FlushHandler, CloseChannel
  <2>3. ~ Panic(run)
    BY <1>6 DEF Panic
  <2> QED
    BY <1>11, <2>1, <2>2, <2>3 DEF Worker
<1> QED
  BY <1>7, <1>8, <1>9, <1>10, <1>11 DEF Next

\* An application that stops logging before it calls Close loses no entry, whatever is
\* still in the queue or in the worker's hand, and nothing panics.
THEOREM ShutdownOrderly == Spec => []OrderlyShutdown
<1>1. Init => Quiet
  BY DEF Init, Quiet, OrderlyShutdown
<1>2. Quiet => OrderlyShutdown
  BY DEF Quiet, OrderlyShutdown
<1> QED
  BY <1>1, <1>2, QuietStep, IInvariant, PTL DEF Spec

----------------------------------------------------------------------------
(* AsyncHandler implements LogSink *)

\* The calls in progress change only with the goroutines that make them.
LEMMA SameCalls ==
  ASSUME \A h \in Goroutines :
           /\ Flushing(h)' <=> Flushing(h)
           /\ Closing(h)' <=> Closing(h)
           /\ Flushing(h) \/ Closing(h) => arg'[h] = arg[h]
  PROVE  FlushCalls' = FlushCalls /\ CloseCalls' = CloseCalls
  BY DEF FlushCalls, CloseCalls

LEMMA SinkStep ==
  ASSUME IInv, [Next]_vars
  PROVE  [Sink!Next]_(Sink!vars)
<1> USE AsyncAssumption
<1>0. /\ TypeOK /\ ChannelFIFO
      /\ closes \in Nat /\ (closes' = closes \/ closes' = closes + 1)
  BY ClosesGrow DEF IInv, TypeOK
<1>a. CASE closes > 1
  BY <1>0, <1>a DEF Sink!Next, Sink!Anything
<1> SUFFICES ASSUME closes <= 1 PROVE [Sink!Next]_(Sink!vars)
  BY <1>0, <1>a
<1>b. Snapshots /\ OneClose /\ ClosePhases /\ FlushPhases
  BY DEF IInv, Coordination
<1>1. /\ Len(sent) \in Nat /\ Len(handled) \in Nat /\ Len(queue) \in Nat
      /\ Len(sent) = Len(handled) + (IF run = "log" THEN 1 ELSE 0) + Len(queue)
  BY <1>0, FIFOLength
<1>2. pc \in [Goroutines -> Labels] /\ arg \in [Goroutines -> Nat] /\ durable \in Nat
      /\ closes \in Nat /\ handlerClosed \in BOOLEAN
  BY <1>0 DEF TypeOK
<1>3. handlerClosed => run = "done" /\ "queue" \in closed
  BY <1>b DEF ClosePhases
<1> DEFINE Stutter == UNCHANGED <<sent, handled, durable, FlushCalls, CloseCalls, handlerClosed, closes>>
<1>4. Stutter => UNCHANGED Sink!vars
  BY DEF Sink!vars
<1>5. ASSUME NEW g \in Goroutines, NEW l \in Labels,
             ~ Flushing(g), ~ Closing(g),
             l \notin {"flushSend", "flushWait", "stopSend", "stopRecv", "closeStop", "closeHandler"},
             pc' = [pc EXCEPT ![g] = l], \A h \in Goroutines \ {g} : arg'[h] = arg[h]
      PROVE  FlushCalls' = FlushCalls /\ CloseCalls' = CloseCalls
  <2> SUFFICES ASSUME NEW h \in Goroutines
               PROVE  /\ Flushing(h)' <=> Flushing(h)
                      /\ Closing(h)' <=> Closing(h)
                      /\ Flushing(h) \/ Closing(h) => arg'[h] = arg[h]
    BY SameCalls
  <2> QED
    BY <1>2, <1>5 DEF Flushing, Closing
<1>6. ASSUME NEW g \in Goroutines, NEW l \in Labels,
             \/ Flushing(g) /\ l \in {"flushSend", "flushWait"}
             \/ Closing(g) /\ l \in {"stopSend", "stopRecv", "closeStop", "closeHandler"},
             pc' = [pc EXCEPT ![g] = l], arg' = arg
      PROVE  FlushCalls' = FlushCalls /\ CloseCalls' = CloseCalls
  <2> SUFFICES ASSUME NEW h \in Goroutines
               PROVE  (Flushing(h)' <=> Flushing(h)) /\ (Closing(h)' <=> Closing(h))
    BY <1>6, SameCalls
  <2> QED
    BY <1>2, <1>6 DEF Flushing, Closing
<1>7. pc' = pc /\ arg' = arg => FlushCalls' = FlushCalls /\ CloseCalls' = CloseCalls
  BY DEF FlushCalls, CloseCalls, Flushing, Closing
<1>8. CASE UNCHANGED vars
  BY <1>4, <1>7, <1>8 DEF vars
<1>9. ASSUME NEW g \in Goroutines, LogCall(g) PROVE UNCHANGED Sink!vars
  <2>1. FlushCalls' = FlushCalls /\ CloseCalls' = CloseCalls
    BY <1>2, <1>5, <1>9 DEF LogCall, Call, Goto, Flushing, Closing, Labels
  <2> QED
    BY <1>4, <1>9, <2>1 DEF LogCall, Call
<1>10. ASSUME NEW g \in Goroutines, FlushCall(g) PROVE Sink!FlushBegin(g)
  <2>1. CloseCalls' = CloseCalls
    BY <1>2, <1>10 DEF FlushCall, Call, Goto, CloseCalls, Closing
  <2>2. FlushCalls' = FlushCalls \cup {<<g, Len(sent)>>}
    BY <1>1, <1>2, <1>10 DEF FlushCall, Call, Goto, FlushCalls, Flushing
  <2> QED
    BY <1>10, <2>1, <2>2 DEF FlushCall, Call, Sink!FlushBegin
<1>11. ASSUME NEW g \in Goroutines, CloseCall(g) PROVE Sink!CloseBegin(g) \/ Sink!CloseAgain(g)
  <2>1. FlushCalls' = FlushCalls
    BY <1>2, <1>11 DEF CloseCall, Call, Goto, FlushCalls, Flushing
  <2>2. CloseCalls' = CloseCalls \cup {<<g, Len(sent)>>}
    BY <1>1, <1>2, <1>11 DEF CloseCall, Call, Goto, CloseCalls, Closing
  <2>3. CASE closes = 0
    <3>1. ~ handlerClosed /\ CloseCalls = {}
      BY <1>b, <2>3 DEF OneClose, CloseCalls
    <3>2. closes' = 1
      BY <1>11, <2>3 DEF CloseCall
    <3> QED
      BY <1>11, <2>1, <2>2, <2>3, <3>1, <3>2 DEF CloseCall, Call, Sink!CloseBegin
  <2>4. CASE closes = 1
    <3>1. handlerClosed \/ CloseCalls # {}
      BY <1>b, <2>4 DEF OneClose, CloseCalls
    <3>2. closes' = 2
      BY <1>11, <2>4 DEF CloseCall
    <3> QED
      BY <1>11, <2>1, <2>2, <3>1, <3>2 DEF CloseCall, Call, Sink!CloseAgain
  <2> QED
    BY <1>0, <2>3, <2>4
<1>12. ASSUME NEW g \in Goroutines, SendEntry(g) \/ HandOffEntry(g)
       PROVE  Sink!Accept(arg[g])
  <2>1. FlushCalls' = FlushCalls /\ CloseCalls' = CloseCalls
    BY <1>2, <1>5, <1>12 DEF SendEntry, HandOffEntry, Goto, Flushing, Closing, Labels
  <2>2. ~ handlerClosed
    BY <1>3, <1>12 DEF SendEntry, HandOffEntry
  <2> QED
    BY <1>12, <2>1, <2>2 DEF SendEntry, HandOffEntry, Sink!Accept
<1>13. ASSUME NEW g \in Goroutines, SendEntry(g) \/ HandOffEntry(g) PROVE arg[g] \in Entries
  BY <1>b, <1>13 DEF SendEntry, HandOffEntry, Snapshots
<1>14. ASSUME NEW g \in Goroutines, AckFlush(g) \/ ReleaseFlush(g)
       PROVE  Sink!FlushEnd(g, arg[g]) /\ <<g, arg[g]>> \in FlushCalls
  <2>1. CloseCalls' = CloseCalls
    BY <1>2, <1>14 DEF AckFlush, ReleaseFlush, Goto, CloseCalls, Closing
  <2>2. FlushCalls' = FlushCalls \ {<<g, arg[g]>>}
    BY <1>2, <1>14 DEF AckFlush, ReleaseFlush, Goto, FlushCalls, Flushing
  <2>3. <<g, arg[g]>> \in FlushCalls
    BY <1>14 DEF AckFlush, ReleaseFlush, FlushCalls, Flushing
  <2>4. arg[g] <= durable
    BY <1>b, <1>14 DEF AckFlush, ReleaseFlush, FlushPhases, ClosePhases, Finishing
  <2> QED
    BY <1>14, <2>1, <2>2, <2>3, <2>4 DEF AckFlush, ReleaseFlush, Sink!FlushEnd
<1>15. ASSUME NEW g \in Goroutines, CloseHandler(g)
       PROVE  Sink!CloseEnd(g, arg[g]) /\ <<g, arg[g]>> \in CloseCalls
  <2>1. FlushCalls' = FlushCalls
    BY <1>2, <1>15 DEF CloseHandler, Goto, FlushCalls, Flushing
  <2>2. CloseCalls' = CloseCalls \ {<<g, arg[g]>>}
    BY <1>2, <1>15 DEF CloseHandler, Goto, CloseCalls, Closing
  <2>3. <<g, arg[g]>> \in CloseCalls
    BY <1>15 DEF CloseHandler, CloseCalls, Closing
  <2>4. arg[g] <= Len(handled) /\ ~ handlerClosed
    BY <1>b, <1>15 DEF CloseHandler, ClosePhases, Closing, Finishing
  <2> QED
    BY <1>15, <2>1, <2>2, <2>3, <2>4 DEF CloseHandler, Sink!CloseEnd
<1>16. ASSUME NEW g \in Goroutines,
              RequestFlush(g) \/ RequestStop(g) \/ AckStop(g) \/ ReleaseStop(g) \/ CloseStop(g)
       PROVE  UNCHANGED Sink!vars
  <2>1. FlushCalls' = FlushCalls /\ CloseCalls' = CloseCalls
    BY <1>2, <1>6, <1>16
    DEF RequestFlush, RequestStop, AckStop, ReleaseStop, CloseStop, Goto, Flushing, Closing, Labels
  <2> QED
    BY <1>4, <1>16, <2>1 DEF RequestFlush, RequestStop, AckStop, ReleaseStop, CloseStop
<1>17. ASSUME NEW g \in Goroutines, NEW h \in Goroutines, CrossStop(g, h)
       PROVE  UNCHANGED Sink!vars
  <2>1. \A k \in Goroutines : (Flushing(k)' <=> Flushing(k)) /\ (Closing(k)' <=> Closing(k))
    BY <1>2, <1>17 DEF CrossStop, Flushing, Closing
  <2>2. FlushCalls' = FlushCalls /\ CloseCalls' = CloseCalls
    BY <1>17, <2>1, SameCalls DEF CrossStop
  <2> QED
    BY <1>4, <1>17, <2>2 DEF CrossStop
<1>18. ASSUME \E g \in Goroutines : Panic(pc[g]) \/ Panic(run) PROVE UNCHANGED Sink!vars
  BY <1>4, <1>7, <1>18 DEF Panic
<1>19. CASE LogEntry
  <2>1. Len(handled) < Len(sent) /\ cur = sent[Len(handled) + 1] /\ ~ handlerClosed
    <3>1. InHand = <<cur>> /\ run = "log"
      BY <1>19 DEF LogEntry, InHand
    <3>2. handled \o <<cur>> \in Seq(Nat) /\ Len(handled \o <<cur>>) = Len(handled) + 1
          /\ (handled \o <<cur>>)[Len(handled) + 1] = cur
      BY <1>0, <1>1, ConcatProperties DEF TypeOK
    <3>3. sent = (handled \o <<cur>>) \o queue
      BY <1>0, <3>1 DEF ChannelFIFO
    <3>4. sent[Len(handled) + 1] = cur
      BY <1>0, <1>1, <3>2, <3>3, ConcatProperties DEF TypeOK
    <3> QED
      BY <1>1, <1>3, <3>1, <3>4
  <2>2. FlushCalls' = FlushCalls /\ CloseCalls' = CloseCalls
    BY <1>7, <1>19 DEF LogEntry
  <2>3. Sink!Deliver
    BY <1>19, <2>1, <2>2 DEF LogEntry, Sink!Deliver
  <2> QED
    BY <2>3 DEF Sink!Next
<1>20. CASE FlushHandler
  <2>1. FlushCalls' = FlushCalls /\ CloseCalls' = CloseCalls
    BY <1>7, <1>20 DEF FlushHandler
  <2>2. Sink!Sync
    BY <1>3, <1>20, <2>1 DEF FlushHandler, Sink!Sync
  <2> QED
    BY <2>2 DEF Sink!Next
<1>21. CASE Receive \/ ReceiveStopClosed \/ Check \/ (\E i \in 1..3 : CloseChannel(i))
  BY <1>4, <1>7, <1>21 DEF Receive, ReceiveStopClosed, Check, CloseChannel
<1>22. ASSUME NEW g \in Goroutines, LogCall(g) \/ FlushCall(g) \/ CloseCall(g) \/ Caller(g)
       PROVE  [Sink!Next]_(Sink!vars)
  <2>1. CASE AckFlush(g) \/ ReleaseFlush(g)
    <3>1. <<g, arg[g]>>[1] = g /\ <<g, arg[g]>>[2] = arg[g]
      OBVIOUS
    <3> QED
      BY <1>14, <2>1, <3>1 DEF Sink!Next
  <2>2. CASE CloseHandler(g)
    <3>1. <<g, arg[g]>>[1] = g /\ <<g, arg[g]>>[2] = arg[g]
      OBVIOUS
    <3> QED
      BY <1>15, <2>2, <3>1 DEF Sink!Next
  <2>3. CASE SendEntry(g) \/ HandOffEntry(g)
    BY <1>12, <1>13, <2>3 DEF Sink!Next
  <2>4. CASE FlushCall(g) \/ CloseCall(g)
    BY <1>10, <1>11, <2>4 DEF Sink!Next
  <2> QED
    BY <1>9, <1>16, <1>17, <1>18, <1>22, <2>1, <2>2, <2>3, <2>4 DEF Caller
<1>23. ASSUME Worker PROVE [Sink!Next]_(Sink!vars)
  <2>1. CASE Panic(run)
    BY <1>4, <1>7, <2>1 DEF Panic
  <2> QED
    BY <1>19, <1>20, <1>21, <1>23, <2>1 DEF Worker
<1> QED
  BY <1>8, <1>22, <1>23 DEF Next

\* The channels, the worker goroutine and its flags
\* implement the abstract log sink: entries are delivered in the order they were
\* accepted, a Flush returns only when everything accepted before it is durable,
\* a Close closes the wrapped handler only when everything accepted before it has
\* been delivered, and nothing is delivered after that, until Close is called again.
THEOREM ImplementsLogSink == Spec => SinkSpec
<1>1. Init => Sink!Init
  BY DEF Init, Sink!Init, FlushCalls, CloseCalls, Flushing, Closing
<1>2. IInv /\ [Next]_vars => [Sink!Next]_(Sink!vars)
  BY SinkStep
<1> QED
  BY <1>1, <1>2, IInvariant, PTL DEF Spec, SinkSpec, Sink!Spec

=============================================================================

---------------------------- MODULE AsyncHandler ----------------------------
(***************************************************************************)
(* log/handler.go: the handler AsyncHandler returns.  Goroutines call Log, *)
(* Flush and Close on it; one worker goroutine, run, takes the entries off *)
(* a channel and gives them to the wrapped handler.                        *)
(*                                                                         *)
(* All four methods have value receivers: every call locks the mutex of a  *)
(* copy of the struct, and Close sets the closed flag of its copy.  So the *)
(* mutex excludes nobody and no call ever sees the flag set; Lock, Unlock  *)
(* and the test of closed have no effect and do not appear here.           *)
(*                                                                         *)
(* A step is one channel operation or one call of the wrapped handler.  An *)
(* operation on an unbuffered channel is one step of its two goroutines.   *)
(* A send on a closed channel and a second close of one panic; nothing     *)
(* recovers the panic and the process ends.                                *)
(***************************************************************************)
EXTENDS Naturals, Sequences

CONSTANTS
  Goroutines,  \* the goroutines that share the handler
  Flushers,    \* those of them that call Flush
  BufSizes,    \* the capacities the queue channel may be made with
  Orderly,     \* the application calls Close when no call is running, and
               \* nothing after it
  MaxEntries, MaxFlushes, MaxCloses  \* bounds on the calls of a behaviour

ASSUME AsyncAssumption ==
  /\ Flushers \subseteq Goroutines
  /\ Orderly \in BOOLEAN
  /\ BufSizes \subseteq Nat
  /\ MaxEntries \in Nat
  /\ MaxFlushes \in Nat
  /\ MaxCloses \in Nat

VARIABLES
  pc,      \* where each goroutine is: "idle" or the operation it is about to do
  arg,     \* the entry it logs; in Flush and Close, how many had been accepted
  run,     \* where the worker is
  cur,     \* its local e
  flush,   \* its local flush
  stop,    \* its local stop
  bufsize, \* the capacity of the queue channel
  queue,   \* the contents of the queue channel
  closed,  \* the channels that have been closed
  sent,           \* history: every entry that went through the channel
  handled,        \* every entry given to the wrapped handler
  durable,        \* how many of these its last Flush covered
  handlerClosed,  \* its Close has been called
  crashed,        \* a goroutine has panicked
  issued, flushes, closes  \* the calls of Log, Flush and Close so far

callers == <<pc, arg>>
worker  == <<run, cur, flush, stop>>
wrapped == <<handled, durable, handlerClosed>>
rest    == <<bufsize, issued, flushes, closes>>
vars == <<callers, worker, queue, closed, sent, wrapped, crashed, rest>>

Init ==
  /\ pc = [g \in Goroutines |-> "idle"]
  /\ arg = [g \in Goroutines |-> 0]
  /\ run = "select"
  /\ cur = 0
  /\ flush = FALSE
  /\ stop = FALSE
  /\ bufsize \in BufSizes
  /\ queue = <<>>
  /\ closed = {}
  /\ sent = <<>>
  /\ handled = <<>>
  /\ durable = 0
  /\ handlerClosed = FALSE
  /\ crashed = FALSE
  /\ issued = 0
  /\ flushes = 0
  /\ closes = 0

Goto(g, l) == pc' = [pc EXCEPT ![g] = l]

\* The application makes a call: g goes from idle to the call's first channel
\* operation, remembering a.
Call(g, l, a) ==
  /\ pc[g] = "idle"
  /\ Goto(g, l)
  /\ arg' = [arg EXCEPT ![g] = a]
  /\ UNCHANGED <<worker, bufsize, queue, closed, sent, wrapped, crashed>>

----------------------------------------------------------------------------
(* Log *)

LogCall(g) ==
  /\ issued < MaxEntries
  /\ Orderly => closes = 0
  /\ Call(g, "logSend", issued + 1)
  /\ issued' = issued + 1
  /\ UNCHANGED <<flushes, closes>>

\* a.queue <- e, when the buffer has room
SendEntry(g) ==
  /\ pc[g] = "logSend"
  /\ "queue" \notin closed
  /\ Len(queue) < bufsize
  /\ queue' = Append(queue, arg[g])
  /\ sent' = Append(sent, arg[g])
  /\ Goto(g, "idle")
  /\ UNCHANGED <<arg, worker, closed, wrapped, crashed, rest>>

\* a.queue <- e when bufsize is 0: the entry goes straight to the worker
HandOffEntry(g) ==
  /\ bufsize = 0
  /\ pc[g] = "logSend"
  /\ run = "select"
  /\ run' = "log"
  /\ cur' = arg[g]
  /\ sent' = Append(sent, arg[g])
  /\ Goto(g, "idle")
  /\ UNCHANGED <<arg, flush, stop, queue, closed, wrapped, crashed, rest>>

----------------------------------------------------------------------------
(* Flush *)

FlushCall(g) ==
  /\ g \in Flushers
  /\ flushes < MaxFlushes
  /\ Orderly => closes = 0
  /\ Call(g, "flushSend", Len(sent))
  /\ flushes' = flushes + 1
  /\ UNCHANGED <<issued, closes>>

\* a.flush <- struct{}{} meets case <-a.flush
RequestFlush(g) ==
  /\ pc[g] = "flushSend"
  /\ run = "select"
  /\ Goto(g, "flushWait")
  /\ flush' = TRUE
  /\ run' = "check"
  /\ UNCHANGED <<arg, cur, stop, queue, closed, sent, wrapped, crashed, rest>>

\* <-a.flushWait meets the worker's send: the call returns
AckFlush(g) ==
  /\ pc[g] = "flushWait"
  /\ run = "ack"
  /\ Goto(g, "idle")
  /\ run' = "select"
  /\ UNCHANGED <<arg, cur, flush, stop, queue, closed, sent, wrapped, crashed, rest>>

\* <-a.flushWait after close(a.flushWait): the call returns
ReleaseFlush(g) ==
  /\ pc[g] = "flushWait"
  /\ "flushWait" \in closed
  /\ Goto(g, "idle")
  /\ UNCHANGED <<arg, worker, queue, closed, sent, wrapped, crashed, rest>>

----------------------------------------------------------------------------
(* Close *)

CloseCall(g) ==
  /\ closes < MaxCloses
  /\ Orderly => closes = 0 /\ \A h \in Goroutines : pc[h] = "idle"
  /\ Call(g, "stopSend", Len(sent))
  /\ closes' = closes + 1
  /\ UNCHANGED <<issued, flushes>>

\* Slip: Close does not wait for the worker's answer.
RequestStopNoWait(g) ==
  /\ pc[g] = "stopSend"
  /\ run = "select"
  /\ "stop" \notin closed
  /\ Goto(g, "closeStop")
  /\ stop' = TRUE
  /\ run' = "check"
  /\ UNCHANGED <<arg, cur, flush, queue, closed, sent, wrapped, crashed, rest>>

\* Slip: the worker goes back to select without looking at the queue.
RequestStopContinue(g) ==
  /\ pc[g] = "stopSend"
  /\ run = "select"
  /\ "stop" \notin closed
  /\ Goto(g, "stopRecv")
  /\ stop' = TRUE
  /\ UNCHANGED <<arg, run, cur, flush, queue, closed, sent, wrapped, crashed, rest>>

\* a.stop <- struct{}{} meets case <-a.stop
RequestStop(g) ==
  /\ pc[g] = "stopSend"
  /\ run = "select"
  /\ "stop" \notin closed
  /\ Goto(g, "stopRecv")
  /\ stop' = TRUE
  /\ run' = "check"
  /\ UNCHANGED <<arg, cur, flush, queue, closed, sent, wrapped, crashed, rest>>

\* <-a.stop meets the worker's a.stop <- struct{}{}
AckStop(g) ==
  /\ pc[g] = "stopRecv"
  /\ run = "stopSend"
  /\ "stop" \notin closed
  /\ Goto(g, "closeStop")
  /\ run' = "done"
  /\ UNCHANGED <<arg, cur, flush, stop, queue, closed, sent, wrapped, crashed, rest>>

\* <-a.stop of one Close meets a.stop <- struct{}{} of another: the channel
\* carries requests and answers alike
CrossStop(g, h) ==
  /\ pc[g] = "stopRecv"
  /\ pc[h] = "stopSend"
  /\ "stop" \notin closed
  /\ pc' = [pc EXCEPT ![g] = "closeStop", ![h] = "stopRecv"]
  /\ UNCHANGED <<arg, worker, queue, closed, sent, wrapped, crashed, rest>>

\* <-a.stop after close(a.stop)
ReleaseStop(g) ==
  /\ pc[g] = "stopRecv"
  /\ "stop" \in closed
  /\ Goto(g, "closeStop")
  /\ UNCHANGED <<arg, worker, queue, closed, sent, wrapped, crashed, rest>>

\* close(a.stop)
CloseStop(g) ==
  /\ pc[g] = "closeStop"
  /\ "stop" \notin closed
  /\ closed' = closed \cup {"stop"}
  /\ Goto(g, "closeHandler")
  /\ UNCHANGED <<arg, worker, queue, sent, wrapped, crashed, rest>>

\* return a.handler.Close()
CloseHandler(g) ==
  /\ pc[g] = "closeHandler"
  /\ handlerClosed' = TRUE
  /\ Goto(g, "idle")
  /\ UNCHANGED <<arg, worker, queue, closed, sent, handled, durable, crashed, rest>>

----------------------------------------------------------------------------
(* run *)

\* case e = <-a.queue
Receive ==
  /\ run = "select"
  /\ queue # <<>>
  /\ cur' = Head(queue)
  /\ queue' = Tail(queue)
  /\ run' = "log"
  /\ UNCHANGED <<callers, flush, stop, closed, sent, wrapped, crashed, rest>>

\* case <-a.stop once a Close has closed the channel
ReceiveStopClosed ==
  /\ run = "select"
  /\ "stop" \in closed
  /\ stop' = TRUE
  /\ run' = "check"
  /\ UNCHANGED <<callers, cur, flush, queue, closed, sent, wrapped, crashed, rest>>

\* Slip: a worker that was told to stop discards what it still receives.
LogEntryUnlessStopped ==
  /\ run = "log"
  /\ handled' = IF stop THEN handled ELSE Append(handled, cur)
  /\ run' = "check"
  /\ UNCHANGED <<callers, cur, flush, stop, queue, closed, sent, durable,
                 handlerClosed, crashed, rest>>

\* a.handler.Log(e), its error dropped
LogEntry ==
  /\ run = "log"
  /\ handled' = Append(handled, cur)
  /\ run' = "check"
  /\ UNCHANGED <<callers, cur, flush, stop, queue, closed, sent, durable,
                 handlerClosed, crashed, rest>>

\* Slip: flush and stop are obeyed without draining the queue.
AfterCheckNoDrain ==
  IF flush THEN "flush" ELSE IF stop THEN "close" ELSE "select"

AfterCheck ==
  IF flush THEN IF queue = <<>> THEN "flush" ELSE "select"
  ELSE IF stop /\ queue = <<>> THEN "close" ELSE "select"

\* if flush { ... } else if stop && len(a.queue) == 0 { ... }
Check ==
  /\ run = "check"
  /\ run' = AfterCheck
  /\ UNCHANGED <<callers, cur, flush, stop, queue, closed, sent, wrapped, crashed, rest>>

\* Slip: the flush is not acknowledged.
FlushHandlerNoAck ==
  /\ run = "flush"
  /\ durable' = IF handlerClosed THEN durable ELSE Len(handled)
  /\ flush' = FALSE
  /\ run' = "select"
  /\ UNCHANGED <<callers, cur, stop, queue, closed, sent, handled, handlerClosed,
                 crashed, rest>>

\* a.handler.Flush(), which a closed handler refuses; its error is dropped
FlushHandler ==
  /\ run = "flush"
  /\ durable' = IF handlerClosed THEN durable ELSE Len(handled)
  /\ flush' = FALSE
  /\ run' = "ack"
  /\ UNCHANGED <<callers, cur, stop, queue, closed, sent, handled, handlerClosed,
                 crashed, rest>>

\* close(a.flush), then close(a.flushWait), then close(a.queue)
CloseOrder == <<"flush", "flushWait", "queue">>

CloseChannel(i) ==
  /\ run = "close"
  /\ \A j \in 1..3 : CloseOrder[j] \in closed <=> j < i
  /\ closed' = closed \cup {CloseOrder[i]}
  /\ run' = IF i = 3 THEN "stopSend" ELSE "close"
  /\ UNCHANGED <<callers, cur, flush, stop, queue, sent, wrapped, crashed, rest>>

----------------------------------------------------------------------------
(* Panics *)

\* The channel operations that panic on a closed channel, and the channel.
Panics(l) ==
  CASE l = "logSend"   -> "queue" \in closed
    [] l = "flushSend" -> "flush" \in closed
    [] l \in {"stopSend", "closeStop"} -> "stop" \in closed
    [] OTHER -> FALSE

Panic(l) ==
  /\ Panics(l)
  /\ crashed' = TRUE
  /\ UNCHANGED <<callers, worker, queue, closed, sent, wrapped, rest>>

----------------------------------------------------------------------------

Caller(g) ==
  \/ SendEntry(g) \/ HandOffEntry(g)
  \/ RequestFlush(g) \/ AckFlush(g) \/ ReleaseFlush(g)
  \/ RequestStop(g) \/ AckStop(g) \/ ReleaseStop(g)
  \/ CloseStop(g) \/ CloseHandler(g)
  \/ \E h \in Goroutines : CrossStop(g, h)
  \/ Panic(pc[g])

Worker ==
  \/ Receive \/ ReceiveStopClosed \/ LogEntry \/ Check \/ FlushHandler
  \/ \E i \in 1..3 : CloseChannel(i)
  \/ Panic(run)

Next ==
  /\ ~crashed
  /\ \/ \E g \in Goroutines : LogCall(g) \/ FlushCall(g) \/ CloseCall(g) \/ Caller(g)
     \/ Worker

Spec == Init /\ [][Next]_vars

\* The scheduler runs every goroutine that can run, and select chooses among
\* its ready cases at random, so a case that is ready again and again is
\* chosen.  Whether the application makes another call is its own business.
Fairness ==
  /\ WF_vars(~crashed /\ Worker)
  /\ \A g \in Goroutines : SF_vars(~crashed /\ Caller(g))

FairSpec == Spec /\ Fairness
----------------------------------------------------------------------------
(* Properties *)

Entries == 1..MaxEntries

Labels == {"idle", "logSend", "flushSend", "flushWait",
           "stopSend", "stopRecv", "closeStop", "closeHandler"}

TypeOK ==
  /\ pc \in [Goroutines -> Labels]
  /\ arg \in [Goroutines -> Nat]
  /\ run \in {"select", "log", "check", "flush", "ack", "close", "stopSend", "done"}
  /\ cur \in Nat
  /\ flush \in BOOLEAN
  /\ stop \in BOOLEAN
  /\ bufsize \in Nat
  /\ queue \in Seq(Nat) /\ Len(queue) <= bufsize
  /\ closed \subseteq {"queue", "flush", "flushWait", "stop"}
  /\ sent \in Seq(Nat)
  /\ handled \in Seq(Nat)
  /\ durable \in Nat
  /\ handlerClosed \in BOOLEAN
  /\ crashed \in BOOLEAN
  /\ issued \in Nat
  /\ flushes \in Nat
  /\ closes \in Nat

\* The entry the worker has taken off the channel and not yet logged.
InHand == IF run = "log" THEN <<cur>> ELSE <<>>

\* Between the goroutines and the wrapped handler no entry is lost, repeated
\* or overtaken, however many Flush and Close calls run meanwhile.
ChannelFIFO == sent = handled \o InHand \o queue

\* The calls in progress, and the worker after it has left the loop for good.
Flushing(g) == pc[g] \in {"flushSend", "flushWait"}
Closing(g)  == pc[g] \in {"stopSend", "stopRecv", "closeStop", "closeHandler"}
Finishing   == run \in {"close", "stopSend", "done"}

Snapshots ==
  /\ durable <= Len(handled)
  /\ issued <= MaxEntries
  /\ \A g \in Goroutines : pc[g] = "logSend" => arg[g] \in Entries
  /\ \A g \in Goroutines : Flushing(g) \/ Closing(g) => arg[g] <= Len(sent)

OneClose ==
  /\ \A g, h \in Goroutines : Closing(g) /\ Closing(h) => g = h
  /\ closes = 0 => /\ \A g \in Goroutines : ~ Closing(g)
                  /\ ~stop /\ ~Finishing /\ ~handlerClosed /\ closed = {}
  /\ closes = 1 => handlerClosed \/ \E g \in Goroutines : Closing(g)

ClosePhases ==
  /\ Finishing => stop /\ ~flush
  /\ "flushWait" \in closed => Finishing
  /\ "queue" \in closed <=> run \in {"stopSend", "done"}
  /\ "stop" \in closed \/ handlerClosed => run = "done"
  /\ handlerClosed => \A g \in Goroutines : ~ Closing(g)
  /\ \A g \in Goroutines :
       /\ pc[g] = "stopSend" => ~stop
       /\ pc[g] = "stopRecv" => stop /\ run # "done"
       /\ pc[g] \in {"closeStop", "closeHandler"} => run = "done"
       /\ pc[g] = "closeStop" => "stop" \notin closed
       /\ Closing(g) /\ Finishing => arg[g] <= Len(handled)

FlushPhases ==
  /\ run = "ack" => ~flush
  /\ run = "flush" => flush
  /\ \A g \in Goroutines : pc[g] = "flushWait" =>
       /\ flush \/ arg[g] <= durable
       /\ run = "flush" => arg[g] <= Len(handled)

\* How far a single Close has got and how far the worker has got always agree,
\* and each of them only gets on when the entries accepted before the call it
\* serves have been dealt with: the invariant behind the properties below, which
\* all suppose that Close is called once at most.
Coordination == closes <= 1 => Snapshots /\ OneClose /\ ClosePhases /\ FlushPhases

\* A Flush that returns has made durable every entry accepted before it was
\* called, the entries of other goroutines included, even when its request was
\* merged with another one (one flag serves all of them) or when it is a
\* concurrent Close that releases it.
FlushBarrier ==
  [][closes <= 1 => \A g \in Goroutines :
        pc[g] = "flushWait" /\ pc'[g] = "idle" => arg[g] <= durable']_vars

\* When Close gets to the wrapped handler, every entry accepted before Close
\* was called has been logged, whatever is still being logged or flushed.
CloseDrains ==
  closes <= 1 => \A g \in Goroutines : pc[g] = "closeHandler" => arg[g] <= Len(handled)

\* The worker never logs to, or flushes, a wrapped handler that was closed.
NoUseAfterClose == closes <= 1 /\ handlerClosed => run \notin {"log", "flush"}

\* An application that stops logging before it calls Close loses nothing and
\* never sees a panic.
OrderlyShutdown == Orderly => ~crashed /\ (handlerClosed => handled = sent)

\* When a panic ends the process it is Log or Flush racing Close: with a
\* single Close neither the worker nor the Close itself can panic.
OnlyLogAndFlushPanic ==
  closes <= 1 =>
  /\ ~ Panics(run)
  /\ \A g \in Goroutines : Panics(pc[g]) => pc[g] \in {"logSend", "flushSend"}

\* A single Close is safe, whatever races it: it drains the queue first, ends the use
\* of the wrapped handler, and panics nobody but a Log or Flush that came too late.
CloseSafety == CloseDrains /\ NoUseAfterClose /\ OnlyLogAndFlushPanic

\* Every call of Flush returns, provided logging pauses at some time (it does
\* here: MaxEntries) and only one goroutine flushes.
FlushReturns ==
  \A g \in Goroutines : Flushing(g) ~> pc[g] = "idle" \/ crashed

\* Every call of Close gets the wrapped handler closed.
CloseReturns ==
  \A g \in Goroutines : Closing(g) ~> handlerClosed \/ crashed

\* Every entry a goroutine logs reaches the wrapped handler.
LogDelivered ==
  \A e \in Entries :
    (\E g \in Goroutines : pc[g] = "logSend" /\ arg[g] = e)
       ~> (\E i \in 1..Len(handled) : handled[i] = e) \/ crashed

\* The abstract handler this one implements: an entry is accepted when it enters
\* the channel, and a call is in progress from its first channel operation to its
\* return.
FlushCalls == {<<g, arg[g]>> : g \in {h \in Goroutines : Flushing(h)}}
CloseCalls == {<<g, arg[g]>> : g \in {h \in Goroutines : Closing(h)}}

Sink == INSTANCE LogSink WITH
  Callers   <- Goroutines,
  Entry     <- Entries,
  accepted  <- sent,
  delivered <- handled,
  durable   <- durable,
  flushing  <- FlushCalls,
  closing   <- CloseCalls,
  open      <- ~handlerClosed,
  void      <- closes > 1

SinkSpec == Sink!Spec
=============================================================================

------------------------------- MODULE LogSink -------------------------------
(***************************************************************************)
(* What an asynchronous log handler promises to the goroutines that share  *)
(* it, with no channel, no worker goroutine and no program counter:        *)
(*                                                                         *)
(*   - entries reach the wrapped handler in the order they were accepted,  *)
(*     each at most once;                                                  *)
(*   - a Flush returns only when everything accepted before it was called  *)
(*     has been given to the wrapped handler and flushed by it;            *)
(*   - the wrapped handler is closed only when everything accepted before  *)
(*     the Close was called has been given to it, and is not used again.   *)
(*                                                                         *)
(* The promise is void once Close has been called a second time.           *)
(***************************************************************************)
EXTENDS Naturals, Sequences

CONSTANTS Callers,   \* the goroutines that use the sink
          Entry      \* the log entries

VARIABLES accepted,  \* the entries taken over from the callers, in order
          delivered, \* the entries given to the wrapped handler, in order
          durable,   \* how many of them the wrapped handler has flushed
          flushing,  \* <<c, n>>: c is in Flush, called after n acceptances
          closing,   \* <<c, n>>: c is in Close, called after n acceptances
          open,      \* the wrapped handler has not been closed
          void       \* Close has been called twice: nothing is promised

vars == <<accepted, delivered, durable, flushing, closing, open, void>>

Init ==
  /\ accepted = <<>>
  /\ delivered = <<>>
  /\ durable = 0
  /\ flushing = {}
  /\ closing = {}
  /\ open = TRUE
  /\ void = FALSE

Accept(e) ==
  /\ open
  /\ accepted' = Append(accepted, e)
  /\ UNCHANGED <<delivered, durable, flushing, closing, open, void>>

Deliver ==
  /\ open
  /\ Len(delivered) < Len(accepted)
  /\ delivered' = Append(delivered, accepted[Len(delivered) + 1])
  /\ UNCHANGED <<accepted, durable, flushing, closing, open, void>>

Sync ==
  /\ open
  /\ durable' = Len(delivered)
  /\ UNCHANGED <<accepted, delivered, flushing, closing, open, void>>

FlushBegin(c) ==
  /\ flushing' = flushing \cup {<<c, Len(accepted)>>}
  /\ UNCHANGED <<accepted, delivered, durable, closing, open, void>>

FlushEnd(c, n) ==
  /\ <<c, n>> \in flushing
  /\ n <= durable
  /\ flushing' = flushing \ {<<c, n>>}
  /\ UNCHANGED <<accepted, delivered, durable, closing, open, void>>

CloseBegin(c) ==
  /\ closing = {} /\ open
  /\ closing' = closing \cup {<<c, Len(accepted)>>}
  /\ UNCHANGED <<accepted, delivered, durable, flushing, open, void>>

CloseEnd(c, n) ==
  /\ open
  /\ <<c, n>> \in closing
  /\ n <= Len(delivered)
  /\ closing' = closing \ {<<c, n>>}
  /\ open' = FALSE
  /\ UNCHANGED <<accepted, delivered, durable, flushing, void>>

CloseAgain(c) ==
  /\ closing # {} \/ ~open
  /\ closing' = closing \cup {<<c, Len(accepted)>>}
  /\ void' = TRUE
  /\ UNCHANGED <<accepted, delivered, durable, flushing, open>>

\* Whatever happens after that.
Anything == void /\ void'

Next ==
  \/ \E e \in Entry : Accept(e)
  \/ Deliver
  \/ Sync
  \/ \E c \in Callers : FlushBegin(c) \/ CloseBegin(c) \/ CloseAgain(c)
  \/ \E p \in flushing : FlushEnd(p[1], p[2])
  \/ \E p \in closing : CloseEnd(p[1], p[2])
  \/ Anything

Spec == Init /\ [][Next]_vars
=============================================================================

----------------------------- MODULE LoggerProofs -----------------------------
(***************************************************************************)
(* Machine-checked proofs about Logger, for any loggers, handlers,         *)
(* goroutines and number of calls: the entry pool never lets one call see  *)
(* or change the entry of another, and a call reaches every handler on the *)
(* path from its logger to the root and no other.                          *)
(***************************************************************************)
EXTENDS Logger, TLAPS

USE DEF config, locals, past

\* The numbers of the calls, and the entries of the calls in progress.
Bookkeeping ==
  /\ \A g \in Goroutines : Active(g) => entry[g] \in Entries /\ call[g] <= calls
  /\ \A g \in Goroutines : pc[g] = "trace" =>
       content[entry[g]].message = call[g] /\ call[g] \in traced
  /\ \A r \in owed : r.receipt.call <= calls
  /\ \A s \in got : s.receipt.call <= calls
  /\ \A n \in traced : n <= calls

IInv == TypeOK /\ Bookkeeping /\ PoolExclusive /\ EntryIntact /\ HandlersSeeCall

\* The steps of calls, each with its goroutine and its entry.
Starts(g, e) ==
  \E l \in Loggers, b \in BOOLEAN : Log(g, l, e, b) \/ LogEntry(g, l, e, b)

LEMMA NextCases ==
  ASSUME Next
  PROVE  \/ Configure
         \/ \E g \in Goroutines, e \in Entries : Starts(g, e)
         \/ \E g \in Goroutines : Trace(g) \/ Handle(g) \/ Put(g)
         \/ \E r \in owed : Deliver(r)
         \/ \E e \in Entries : Collect(e)
  BY DEF Next, Calling, Starts

\* Configuring a logger leaves every call and every entry alone.
LEMMA ConfigureCalls ==
  ASSUME Configure
  PROVE  UNCHANGED <<pool, content, locals, owed, got, past>>
  BY DEF Configure, New, SetHandler, StopPropagation

----------------------------------------------------------------------------
(* The type invariant *)

LEMMA TypeStep == TypeOK /\ Bookkeeping /\ [Next]_vars => TypeOK'
<1> SUFFICES ASSUME TypeOK, Bookkeeping, [Next]_vars PROVE TypeOK'
  OBVIOUS
<1> USE LoggerAssumption DEF TypeOK, Content
<1>1. CASE UNCHANGED vars
  BY <1>1 DEF vars
<1>2. CASE Configure
  <2>1. ASSUME NEW p \in Loggers, NEW l \in Loggers, New(p, l) PROVE TypeOK'
    BY <2>1 DEF New
  <2>2. ASSUME NEW l \in Loggers, NEW h \in Handlers \cup {None}, SetHandler(l, h) PROVE TypeOK'
    BY <2>2 DEF SetHandler
  <2>3. ASSUME NEW l \in Loggers, StopPropagation(l) PROVE TypeOK'
    BY <2>3 DEF StopPropagation
  <2> QED
    BY <1>2, <2>1, <2>2, <2>3 DEF Configure
<1>3. ASSUME NEW g \in Goroutines, NEW e \in Entries, Starts(g, e) PROVE TypeOK'
  <2>1. ASSUME NEW l \in Loggers, NEW next \in {"trace", "handle"}, Begin(g, l, e, next)
        PROVE  /\ pc' \in [Goroutines -> {"idle", "trace", "handle", "put"}]
               /\ entry' \in [Goroutines -> Entries \cup {None}]
               /\ at' \in [Goroutines -> Loggers]
               /\ async' \in [Goroutines -> BOOLEAN]
               /\ call' \in [Goroutines -> Nat]
               /\ due' \in [1..MaxCalls -> SUBSET Loggers]
               /\ calls' \in Nat
               /\ UNCHANGED <<config, owed, got>>
    <3>1. Due(l) \in SUBSET Loggers
      BY DEF Due, Path
    <3>2. due' = [due EXCEPT ![calls + 1] = Due(l)]
      BY <2>1 DEF Begin
    <3>3. due' \in [1..MaxCalls -> SUBSET Loggers]
      BY <3>1, <3>2
    <3> QED
      BY <2>1, <3>3 DEF Begin
  <2>2. ASSUME NEW l \in Loggers, NEW b \in BOOLEAN, Log(g, l, e, b) PROVE TypeOK'
    <3>1. pool' \in [Entries -> Nat]
      <4>1. pool[e] > 0 => pool[e] - 1 \in Nat
        OBVIOUS
      <4>2. pool' = pool \/ (pool[e] > 0 /\ pool' = [pool EXCEPT ![e] = @ - 1])
        BY <2>2 DEF Log
      <4> QED
        BY <4>1, <4>2
    <3>2. content' \in [Entries -> Content] /\ traced' \subseteq Nat
      BY <2>2 DEF Log, Filled
    <3> QED
      BY <2>1, <2>2, <3>1, <3>2 DEF Log
  <2>3. ASSUME NEW l \in Loggers, NEW b \in BOOLEAN, LogEntry(g, l, e, b) PROVE TypeOK'
    <3>1. content' \in [Entries -> Content] /\ traced' \subseteq Nat
      BY <2>3 DEF LogEntry
    <3> QED
      BY <2>1, <2>3, <3>1 DEF LogEntry
  <2> QED
    BY <1>3, <2>2, <2>3 DEF Starts
<1>4. ASSUME NEW g \in Goroutines, Trace(g) PROVE TypeOK'
  BY <1>4 DEF Trace
<1>5. ASSUME NEW g \in Goroutines, Handle(g) PROVE TypeOK'
  <2>1. entry[g] \in Entries
    BY <1>5 DEF Bookkeeping, Active, Handle
  <2>2. handler[at[g]] \in Handlers => Receipt(g) \in Receipts
    BY DEF Receipt, Receipts
  <2>3. owed' \subseteq [receipt : Receipts, entry : Entries]
    BY <1>5, <2>1, <2>2 DEF Handle, Owe
  <2>4. got' \subseteq [receipt : Receipts, seen : Content]
    BY <1>5, <2>1, <2>2 DEF Handle, Seen
  <2>5. at' \in [Goroutines -> Loggers] /\ pc' \in [Goroutines -> {"idle", "trace", "handle", "put"}]
    BY <1>5 DEF Handle, LastLogger
  <2>6. async' \in [Goroutines -> BOOLEAN]
    BY <1>5 DEF Handle, SeesAsync
  <2> QED
    BY <1>5, <2>3, <2>4, <2>5, <2>6 DEF Handle
<1>6. ASSUME NEW g \in Goroutines, Put(g) PROVE TypeOK'
  <2>1. pool' \in [Entries -> Nat]
    <3>1. entry[g] \in Entries
      BY <1>6 DEF Put, Bookkeeping, Active
    <3>2. pool' = pool \/ pool' = [pool EXCEPT ![entry[g]] = @ + 1]
      BY <1>6 DEF Put
    <3>3. pool[entry[g]] + 1 \in Nat
      BY <3>1
    <3> QED
      BY <3>2, <3>3
  <2> QED
    BY <1>6, <2>1 DEF Put
<1>7. ASSUME NEW r \in owed, Deliver(r) PROVE TypeOK'
  <2>1. Seen(r.receipt, r.entry) \in [receipt : Receipts, seen : Content]
    BY DEF Seen
  <2> QED
    BY <1>7, <2>1 DEF Deliver
<1>8. ASSUME NEW e \in Entries, Collect(e) PROVE TypeOK'
  BY <1>8 DEF Collect
<1> QED
  BY <1>1, <1>2, <1>3, <1>4, <1>5, <1>6, <1>7, <1>8, NextCases

LEMMA BookkeepingStep == TypeOK /\ Bookkeeping /\ PoolExclusive /\ [Next]_vars => Bookkeeping'
<1> SUFFICES ASSUME TypeOK, Bookkeeping, PoolExclusive, [Next]_vars PROVE Bookkeeping'
  OBVIOUS
<1> USE DEF TypeOK, Bookkeeping, Active
<1>1. CASE UNCHANGED vars
  BY <1>1 DEF vars
<1>2. CASE Configure
  BY <1>2, ConfigureCalls
<1>3. ASSUME NEW g \in Goroutines, NEW e \in Entries, Starts(g, e) PROVE Bookkeeping'
  <2>1. \A f \in Goroutines : Active(f) => entry[f] # e
    BY <1>3 DEF Starts, Log, LogEntry, Garbage, PoolExclusive
  <2>2. /\ calls' = calls + 1 /\ owed' = owed /\ got' = got
        /\ entry'[g] = e /\ call'[g] = calls + 1 /\ pc'[g] \in {"trace", "handle"}
        /\ \A f \in Goroutines \ {g} :
             pc'[f] = pc[f] /\ entry'[f] = entry[f] /\ call'[f] = call[f]
    BY <1>3 DEF Starts, Log, LogEntry, Begin
  <2>3. /\ content'[e].message = calls + 1
        /\ \A d \in Entries \ {e} : content'[d] = content[d]
        /\ traced' = traced \/ traced' = traced \cup {calls + 1}
        /\ pc'[g] = "trace" => traced' = traced \cup {calls + 1}
    BY <1>3 DEF Starts, Log, LogEntry, Begin, Filled
  <2>4. ASSUME NEW f \in Goroutines
        PROVE  /\ pc'[f] # "idle" => entry'[f] \in Entries /\ call'[f] <= calls'
               /\ pc'[f] = "trace" =>
                    content'[entry'[f]].message = call'[f] /\ call'[f] \in traced'
    <3>1. CASE f = g
      BY <2>2, <2>3, <3>1
    <3>2. CASE f # g
      BY <2>1, <2>2, <2>3, <3>2
    <3> QED
      BY <3>1, <3>2
  <2>5. /\ \A r \in owed : r.receipt.call \in Nat
        /\ \A s \in got : s.receipt.call \in Nat
    BY DEF Receipts
  <2>6. /\ \A r \in owed' : r.receipt.call <= calls'
        /\ \A s \in got' : s.receipt.call <= calls'
    BY <2>2, <2>5
  <2>7. ASSUME NEW n \in traced' PROVE n <= calls'
    <3>1. n = calls + 1 \/ n \in traced
      BY <2>3
    <3>2. calls \in Nat /\ (n \in traced => n \in Nat /\ n <= calls)
      OBVIOUS
    <3> QED
      BY <2>2, <3>1, <3>2
  <2> QED
    BY <2>4, <2>6, <2>7
<1>4. ASSUME NEW g \in Goroutines, Trace(g) PROVE Bookkeeping'
  BY <1>4 DEF Trace, PoolExclusive, Content
<1>5. ASSUME NEW g \in Goroutines, Handle(g) PROVE Bookkeeping'
  BY <1>5 DEF Handle, Owe, Seen, Receipt
<1>6. ASSUME NEW g \in Goroutines, Put(g) PROVE Bookkeeping'
  BY <1>6 DEF Put
<1>7. ASSUME NEW r \in owed, Deliver(r) PROVE Bookkeeping'
  BY <1>7 DEF Deliver, Seen
<1>8. ASSUME NEW e \in Entries, Collect(e) PROVE Bookkeeping'
  BY <1>8 DEF Collect
<1> QED
  BY <1>1, <1>2, <1>3, <1>4, <1>5, <1>6, <1>7, <1>8, NextCases

\* Initially nothing is logged.
LEMMA InitIInv == Init => IInv
<1> SUFFICES ASSUME Init PROVE IInv
  OBVIOUS
<1>1. TypeOK
  BY LoggerAssumption DEF Init, TypeOK, Content, Zero
<1> QED
  BY <1>1 DEF Init, IInv, Bookkeeping, PoolExclusive, EntryIntact, HandlersSeeCall, Active

----------------------------------------------------------------------------
(* Who has an entry *)

LEMMA ExclusiveStep == IInv /\ [Next]_vars => PoolExclusive'
<1> SUFFICES ASSUME IInv, [Next]_vars PROVE PoolExclusive'
  OBVIOUS
<1> USE DEF PoolExclusive, Active
<1>0. /\ PoolExclusive
      /\ pool \in [Entries -> Nat]
      /\ pc \in [Goroutines -> {"idle", "trace", "handle", "put"}]
      /\ entry \in [Goroutines -> Entries \cup {None}]
      /\ async \in [Goroutines -> BOOLEAN]
      /\ call \in [Goroutines -> Nat]
      /\ \A g \in Goroutines : Active(g) => entry[g] \in Entries
  BY DEF IInv, TypeOK, Bookkeeping
<1>1. CASE UNCHANGED vars
  BY <1>0, <1>1 DEF vars
<1>2. CASE Configure
  BY <1>0, <1>2, ConfigureCalls
<1>3. ASSUME NEW g \in Goroutines, NEW e \in Entries, Starts(g, e) PROVE PoolExclusive'
  <2>1. /\ \A f \in Goroutines : Active(f) => entry[f] # e
        /\ \A r \in owed : r.entry # e
        /\ pool'[e] = 0
        /\ \A d \in Entries \ {e} : pool'[d] = pool[d]
    <3>1. CASE pool[e] > 0 /\ pool' = [pool EXCEPT ![e] = @ - 1]
      BY <1>0, <3>1
    <3>2. CASE Garbage(e) /\ UNCHANGED pool
      BY <3>2 DEF Garbage
    <3> QED
      BY <1>3, <3>1, <3>2 DEF Starts, Log, LogEntry
  <2>2. /\ owed' = owed
        /\ entry'[g] = e /\ pc'[g] # "idle"
        /\ \A f \in Goroutines \ {g} : pc'[f] = pc[f] /\ entry'[f] = entry[f]
        /\ \A f \in Goroutines \ {g} : async'[f] = async[f] /\ call'[f] = call[f]
    BY <1>0, <1>3 DEF Starts, Log, LogEntry, Begin
  <2>3. ASSUME NEW d \in Entries, pool'[d] > 0
        PROVE  /\ pool'[d] = 1
               /\ \A f \in Goroutines : pc'[f] # "idle" => entry'[f] # d
               /\ \A r \in owed' : r.entry # d
    <3>1. d # e /\ pool[d] > 0
      BY <2>1, <2>3
    <3> QED
      BY <1>0, <2>1, <2>2, <3>1
  <2>4. ASSUME NEW f \in Goroutines, NEW h \in Goroutines,
               pc'[f] # "idle", pc'[h] # "idle", entry'[f] = entry'[h]
        PROVE  f = h
    BY <1>0, <2>1, <2>2, <2>4
  <2>5. ASSUME NEW f \in Goroutines, NEW r \in owed', pc'[f] # "idle", r.entry = entry'[f]
        PROVE  async'[f] /\ r.receipt.call = call'[f]
    BY <1>0, <2>1, <2>2, <2>5
  <2> QED
    BY <2>3, <2>4, <2>5
<1>4. ASSUME NEW g \in Goroutines, Trace(g) PROVE PoolExclusive'
  BY <1>0, <1>4 DEF Trace
<1>5. ASSUME NEW g \in Goroutines, Handle(g) PROVE PoolExclusive'
  <2>1. /\ \A f \in Goroutines : pc'[f] # "idle" <=> pc[f] # "idle"
        /\ pc[g] = "handle" /\ UNCHANGED <<pool, entry, call>>
        /\ \A f \in Goroutines \ {g} : async'[f] = async[f]
        /\ async[g] => async'[g]
    BY <1>0, <1>5 DEF Handle, SeesAsync
  <2>2. CASE handler[at[g]] \in Async
    <3>1. owed' = owed \cup {Owe(g)} /\ async'[g]
      BY <1>0, <1>5, <2>2 DEF Handle, SeesAsync
    <3>2. Owe(g).entry = entry[g] /\ Owe(g).receipt.call = call[g]
      BY DEF Owe, Receipt
    <3> QED
      BY <1>0, <2>1, <3>1, <3>2
  <2>3. CASE handler[at[g]] \notin Async
    <3>1. owed' = owed
      BY <1>5, <2>3 DEF Handle
    <3> QED
      BY <1>0, <2>1, <3>1
  <2> QED
    BY <2>2, <2>3
<1>6. ASSUME NEW g \in Goroutines, Put(g) PROVE PoolExclusive'
  <2>1. /\ pc[g] = "put" /\ pc'[g] = "idle" /\ UNCHANGED <<entry, call, async, owed>>
        /\ \A f \in Goroutines \ {g} : pc'[f] = pc[f]
        /\ entry[g] \in Entries
    BY <1>0, <1>6 DEF Put
  <2>2. CASE async[g]
    BY <1>0, <1>6, <2>1, <2>2 DEF Put
  <2>3. CASE ~ async[g]
    <3>1. pool[entry[g]] = 0
      BY <1>0, <2>1
    <3>2. pool'[entry[g]] = 1 /\ \A d \in Entries \ {entry[g]} : pool'[d] = pool[d]
      BY <1>0, <1>6, <2>1, <2>3, <3>1 DEF Put
    <3>3. \A r \in owed : r.entry # entry[g]
      BY <1>0, <2>1, <2>3
    <3> QED
      BY <1>0, <2>1, <3>2, <3>3
  <2> QED
    BY <2>2, <2>3
<1>7. ASSUME NEW r \in owed, Deliver(r) PROVE PoolExclusive'
  BY <1>0, <1>7 DEF Deliver
<1>8. ASSUME NEW e \in Entries, Collect(e) PROVE PoolExclusive'
  BY <1>0, <1>8 DEF Collect
<1> QED
  BY <1>1, <1>2, <1>3, <1>4, <1>5, <1>6, <1>7, <1>8, NextCases

----------------------------------------------------------------------------
(* What is in an entry *)

LEMMA IntactStep == IInv /\ [Next]_vars => EntryIntact' /\ HandlersSeeCall'
<1> SUFFICES ASSUME IInv, [Next]_vars PROVE EntryIntact' /\ HandlersSeeCall'
  OBVIOUS
<1> USE DEF TypeOK, EntryIntact, HandlersSeeCall, Active
<1>0. TypeOK /\ Bookkeeping /\ PoolExclusive /\ EntryIntact /\ HandlersSeeCall
  BY DEF IInv
<1>1. CASE UNCHANGED vars
  BY <1>0, <1>1 DEF vars, Written
<1>2. CASE Configure
  BY <1>0, <1>2, ConfigureCalls DEF Written
<1>3. ASSUME NEW g \in Goroutines, NEW e \in Entries, Starts(g, e)
      PROVE  EntryIntact' /\ HandlersSeeCall'
  <2>1. /\ \A f \in Goroutines : Active(f) => entry[f] # e
        /\ \A r \in owed : r.entry # e
    BY <1>0, <1>3 DEF Starts, Log, LogEntry, Garbage, PoolExclusive
  <2>2. /\ owed' = owed /\ got' = got
        /\ entry'[g] = e /\ call'[g] = calls + 1
        /\ \A f \in Goroutines \ {g} :
             pc'[f] = pc[f] /\ entry'[f] = entry[f] /\ call'[f] = call[f]
    BY <1>0, <1>3 DEF Starts, Log, LogEntry, Begin
  <2>3. /\ \A d \in Entries \ {e} : content'[d] = content[d]
        /\ traced' = traced \/ traced' = traced \cup {calls + 1}
    BY <1>0, <1>3 DEF Starts, Log, LogEntry, Begin
  <2> DEFINE Later(n) == [message |-> n, trace |-> IF n \in traced' THEN n ELSE 0]
  <2>4. \A n \in Nat : n <= calls => Later(n) = Written(n)
    BY <1>0, <2>3 DEF Written
  <2>5. pc'[g] = "handle" => content'[e] = Later(calls + 1)
    <3>1. calls + 1 \notin traced
      BY <1>0 DEF Bookkeeping
    <3>2. PICK l \in Loggers, b \in BOOLEAN : Log(g, l, e, b) \/ LogEntry(g, l, e, b)
      BY <1>3 DEF Starts
    <3>3. CASE Log(g, l, e, b)
      <4>1. content'[e] = [message |-> calls + 1, trace |-> 0]
        BY <1>0, <3>3 DEF Log, Filled
      <4>2. pc'[g] = "handle" => ~b /\ traced' = traced
        BY <1>0, <3>3 DEF Log, Begin
      <4> QED
        BY <3>1, <4>1, <4>2
    <3>4. CASE LogEntry(g, l, e, b)
      <4>1. content'[e] = [message |-> calls + 1, trace |-> IF b THEN calls + 1 ELSE 0]
        BY <1>0, <3>4 DEF LogEntry
      <4>2. traced' = IF b THEN traced \cup {calls + 1} ELSE traced
        BY <3>4 DEF LogEntry
      <4> QED
        BY <3>1, <4>1, <4>2
    <3> QED
      BY <3>2, <3>3, <3>4
  <2>6. /\ \A r \in owed : r.receipt.call \in Nat /\ r.receipt.call <= calls /\ r.entry \in Entries
        /\ \A s \in got : s.receipt.call \in Nat /\ s.receipt.call <= calls
        /\ \A f \in Goroutines : Active(f) => call[f] \in Nat /\ call[f] <= calls /\ entry[f] \in Entries
    BY <1>0 DEF Bookkeeping, Receipts
  <2>7. \A r \in owed : content'[r.entry] = Later(r.receipt.call)
    BY <1>0, <2>1, <2>3, <2>4, <2>6
  <2>8. \A s \in got : s.seen = Later(s.receipt.call)
    BY <1>0, <2>4, <2>6
  <2>9. ASSUME NEW f \in Goroutines, pc'[f] = "handle"
        PROVE  content'[entry'[f]] = Later(call'[f])
    <3>1. CASE f = g
      BY <2>2, <2>5, <2>9, <3>1
    <3>2. CASE f # g
      <4>1. pc[f] = "handle" /\ entry'[f] = entry[f] /\ call'[f] = call[f]
        BY <2>2, <2>9, <3>2
      <4>2. entry[f] \in Entries \ {e}
        BY <2>1, <2>6, <4>1
      <4>3. Later(call[f]) = Written(call[f])
        BY <2>4, <2>6, <4>1
      <4> QED
        BY <1>0, <2>3, <4>1, <4>2, <4>3
    <3> QED
      BY <3>1, <3>2
  <2> QED
    BY <2>2, <2>7, <2>8, <2>9 DEF Written
<1>4. ASSUME NEW g \in Goroutines, Trace(g) PROVE EntryIntact' /\ HandlersSeeCall'
  <2>1. /\ pc[g] = "trace" /\ pc'[g] = "handle" /\ entry[g] \in Entries
        /\ \A f \in Goroutines \ {g} : pc'[f] = pc[f]
        /\ UNCHANGED <<entry, call, owed, got, traced>>
    BY <1>0, <1>4 DEF Trace, Bookkeeping
  <2>2. content'[entry[g]] = Written(call[g])
    BY <1>0, <1>4, <2>1 DEF Trace, Bookkeeping, Written, Content
  <2>3. \A d \in Entries \ {entry[g]} : content'[d] = content[d]
    BY <1>0, <1>4 DEF Trace
  <2>4. \A n : Written(n)' = Written(n)
    BY <2>1 DEF Written
  <2>5. \A r \in owed : r.entry \in Entries /\ (r.entry = entry[g] => r.receipt.call = call[g])
    BY <1>0, <2>1 DEF PoolExclusive
  <2>6. \A f \in Goroutines \ {g} : pc[f] = "handle" => entry[f] \in Entries \ {entry[g]}
    BY <1>0, <2>1 DEF PoolExclusive, Bookkeeping
  <2>7. \A r \in owed : content'[r.entry] = Written(r.receipt.call)
    BY <1>0, <2>2, <2>3, <2>5
  <2>8. \A f \in Goroutines : pc'[f] = "handle" => content'[entry[f]] = Written(call[f])
    BY <1>0, <2>1, <2>2, <2>3, <2>6
  <2> QED
    BY <1>0, <2>1, <2>4, <2>7, <2>8
<1>5. ASSUME NEW g \in Goroutines, Handle(g) PROVE EntryIntact' /\ HandlersSeeCall'
  <2>1. /\ pc[g] = "handle" /\ UNCHANGED <<content, entry, call, traced>>
        /\ \A f \in Goroutines : pc'[f] = "handle" => pc[f] = "handle"
        /\ owed' \subseteq owed \cup {Owe(g)}
        /\ got' \subseteq got \cup {Seen(Receipt(g), entry[g])}
    BY <1>0, <1>5 DEF Handle
  <2>2. \A n : Written(n)' = Written(n)
    BY <2>1 DEF Written
  <2>3. /\ Owe(g).entry = entry[g] /\ Owe(g).receipt.call = call[g]
        /\ Seen(Receipt(g), entry[g]).seen = content[entry[g]]
        /\ Seen(Receipt(g), entry[g]).receipt.call = call[g]
    BY DEF Owe, Seen, Receipt
  <2> QED
    BY <1>0, <2>1, <2>2, <2>3
<1>6. ASSUME NEW g \in Goroutines, Put(g) PROVE EntryIntact' /\ HandlersSeeCall'
  BY <1>0, <1>6 DEF Put, Written
<1>7. ASSUME NEW r \in owed, Deliver(r) PROVE EntryIntact' /\ HandlersSeeCall'
  <2>1. Seen(r.receipt, r.entry).seen = Written(r.receipt.call)
        /\ Seen(r.receipt, r.entry).receipt = r.receipt
    BY <1>0 DEF Seen
  <2>2. \A n : Written(n)' = Written(n)
    BY <1>7 DEF Deliver, Written
  <2> QED
    BY <1>0, <1>7, <2>1, <2>2 DEF Deliver
<1>8. ASSUME NEW e \in Entries, Collect(e) PROVE EntryIntact' /\ HandlersSeeCall'
  BY <1>0, <1>8 DEF Collect, Written
<1> QED
  BY <1>1, <1>2, <1>3, <1>4, <1>5, <1>6, <1>7, <1>8, NextCases

----------------------------------------------------------------------------
(* The theorems *)

LEMMA Invariant == Spec => []IInv
<1>1. IInv /\ [Next]_vars => IInv'
  BY TypeStep, BookkeepingStep, ExclusiveStep, IntactStep DEF IInv
<1> QED
  BY <1>1, InitIInv, PTL DEF Spec

\* Loggers, entries and calls are always well typed: in particular the loop of
\* logEntry never goes on to a parent that is nil.
THEOREM TypeCorrect == Spec => []TypeOK
<1>1. IInv => TypeOK
  BY DEF IInv
<1> QED
  BY <1>1, Invariant, PTL

\* An entry is in the pool at most once, and only when no call and no asynchronous
\* handler has it.
THEOREM PoolOwnership == Spec => []PoolExclusive
<1>1. IInv => PoolExclusive
  BY DEF IInv
<1> QED
  BY <1>1, Invariant, PTL

\* Every handler, asynchronous or not, reads exactly what the caller logged.
THEOREM NoGarbling == Spec => [](EntryIntact /\ HandlersSeeCall)
<1>1. IInv => EntryIntact /\ HandlersSeeCall
  BY DEF IInv
<1> QED
  BY <1>1, Invariant, PTL
----------------------------------------------------------------------------
(* Propagation *)

\* The parents of the loggers form a tree: from the parent of a logger one never
\* comes back to it.
Tree ==
  \A l \in loggers : parent[l] # None =>
    \E V \in SUBSET loggers :
      /\ parent[l] \in V /\ l \notin V
      /\ \A k \in V : parent[k] = None \/ parent[k] \in V

\* Calls are numbered in the order they begin, and a number is one call's only.
Numbered ==
  /\ calls <= MaxCalls
  /\ \A g \in Goroutines : Active(g) =>
       call[g] \in 1..calls /\ at[g] \in loggers
  /\ \A f, g \in Goroutines : Active(f) /\ Active(g) /\ call[f] = call[g] => f = g

\* A call has been to the handlers it is for, but for those from the logger it is at on.
Walk ==
  \A g \in Goroutines : Active(g) =>
    /\ pc[g] = "put" => Took(call[g]) = due[call[g]]
    /\ pc[g] # "put" => /\ Due(at[g]) \subseteq due[call[g]]
                       /\ Took(call[g]) = due[call[g]] \ Due(at[g])

Returned ==
  \A n \in 1..calls :
    (\A g \in Goroutines : Active(g) => call[g] # n) => Took(n) = due[n]

PInv == Tree /\ Numbered /\ Walk /\ Returned

\* The path of a logger: the logger itself, then the path of its parent.
LEMMA PathUpward ==
  ASSUME Tree, NEW l \in loggers
  PROVE  Path(l) \in SUBSET loggers /\ l \in Path(l) /\ Upward(Path(l))
<1>1. ASSUME NEW k \in Path(l), ~ LastLogger(k) PROVE parent[k] \in Path(l)
  <2>1. parent[k] \in loggers
    BY <1>1 DEF Tree, Path, LastLogger
  <2>2. ASSUME NEW V \in SUBSET loggers, l \in V, Upward(V) PROVE parent[k] \in V
    BY <1>1, <2>2 DEF Path, Upward, LastLogger
  <2> QED
    BY <2>1, <2>2 DEF Path
<1> QED
  BY <1>1 DEF Path, Upward, LastLogger

LEMMA PathLast ==
  ASSUME NEW l \in loggers, LastLogger(l)
  PROVE  Path(l) = {l}
<1>1. {l} \in SUBSET loggers /\ Upward({l})
  BY DEF Upward, LastLogger
<1> QED
  BY <1>1 DEF Path

LEMMA PathParent ==
  ASSUME Tree, NEW l \in loggers, ~ LastLogger(l)
  PROVE  /\ parent[l] \in loggers
         /\ l \notin Path(parent[l])
         /\ Path(l) = {l} \cup Path(parent[l])
<1>1. PICK W \in SUBSET loggers : /\ parent[l] \in W /\ l \notin W
                                  /\ \A k \in W : parent[k] = None \/ parent[k] \in W
  BY DEF Tree, LastLogger
<1>2. parent[l] \in loggers /\ Upward(W)
  BY <1>1 DEF Upward
<1>3. l \notin Path(parent[l])
  BY <1>1, <1>2 DEF Path
<1> DEFINE U == {l} \cup Path(parent[l])
<1>4. U \in SUBSET loggers /\ l \in U /\ Upward(U)
  <2>1. /\ Path(parent[l]) \in SUBSET loggers /\ parent[l] \in Path(parent[l])
        /\ Upward(Path(parent[l]))
    BY <1>2, PathUpward
  <2> QED
    BY <2>1 DEF Upward
<1>5. Path(l) \subseteq U
  BY <1>4 DEF Path
<1>6. ASSUME NEW k \in Path(parent[l]) PROVE k \in Path(l)
  <2>1. ASSUME NEW V \in SUBSET loggers, l \in V, Upward(V) PROVE k \in V
    <3>1. parent[l] \in V
      BY <2>1 DEF Upward, LastLogger
    <3> QED
      BY <1>6, <2>1, <3>1 DEF Path
  <2> QED
    BY <1>6, <2>1 DEF Path
<1>7. l \in Path(l)
  BY DEF Path
<1> QED
  BY <1>2, <1>3, <1>5, <1>6, <1>7

\* A logger that is created has no part in the paths of the others.
LEMMA PathStable ==
  ASSUME TypeOK, Tree, NEW p \in Loggers, NEW l \in Loggers, New(p, l), NEW k \in loggers
  PROVE  Path(k)' = Path(k)
<1>0. /\ loggers' = loggers \cup {l} /\ l \notin loggers /\ stop' = stop
      /\ \A j \in loggers : parent'[j] = parent[j]
  BY DEF New, TypeOK
<1> DEFINE UpAfter(V) == \A j \in V : parent'[j] = None \/ stop'[j] \/ parent'[j] \in V
<1>1. Path(k)' = {j \in loggers' : \A V \in SUBSET loggers' : k \in V /\ UpAfter(V) => j \in V}
  BY DEF Path, Upward
<1>2. ASSUME NEW V \in SUBSET loggers PROVE V \in SUBSET loggers' /\ (UpAfter(V) <=> Upward(V))
  BY <1>0 DEF Upward
<1>3. Upward(loggers)
  BY DEF Tree, Upward
<1>4. ASSUME NEW j \in loggers', \A V \in SUBSET loggers' : k \in V /\ UpAfter(V) => j \in V
      PROVE  j \in Path(k)
  <2>1. \A V \in SUBSET loggers : k \in V /\ Upward(V) => j \in V
    BY <1>2, <1>4
  <2>2. j \in loggers
    BY <2>1, <1>3
  <2> QED
    BY <2>1, <2>2 DEF Path
<1>5. ASSUME NEW j \in Path(k), NEW V \in SUBSET loggers', k \in V, UpAfter(V)
      PROVE  j \in V
  <2> DEFINE U == V \cap loggers
  <2>1. U \in SUBSET loggers /\ k \in U
    BY <1>5
  <2>2. Upward(U)
    <3>1. ASSUME NEW i \in U PROVE parent[i] = None \/ stop[i] \/ parent[i] \in U
      <4>1. parent[i] = None \/ parent[i] \in loggers
        BY DEF Tree
      <4> QED
        BY <1>0, <1>5, <4>1
    <3> QED
      BY <3>1 DEF Upward
  <2>3. j \in U
    BY <1>5, <2>1, <2>2 DEF Path
  <2> QED
    BY <2>3
<1>6. Path(k) \subseteq loggers'
  BY <1>0 DEF Path
<1> QED
  BY <1>1, <1>4, <1>5, <1>6

\* Only configuration changes a logger.
LEMMA CallsConfigure ==
  ASSUME [Next]_vars, ~ Configure
  PROVE  UNCHANGED config
<1>1. ASSUME NEW g \in Goroutines, NEW e \in Entries, Starts(g, e) PROVE UNCHANGED config
  BY <1>1 DEF Starts, Log, LogEntry, Begin
<1>2. ASSUME NEW g \in Goroutines, Trace(g) \/ Handle(g) \/ Put(g) PROVE UNCHANGED config
  BY <1>2 DEF Trace, Handle, Put
<1>3. ASSUME NEW r \in owed, Deliver(r) PROVE UNCHANGED config
  BY <1>3 DEF Deliver
<1>4. ASSUME NEW e \in Entries, Collect(e) PROVE UNCHANGED config
  BY <1>4 DEF Collect
<1>5. UNCHANGED vars => UNCHANGED config
  BY DEF vars
<1> QED
  BY <1>1, <1>2, <1>3, <1>4, <1>5, NextCases

LEMMA TreeStep == TypeOK /\ Tree /\ [Next]_vars => Tree'
<1> SUFFICES ASSUME TypeOK, Tree, [Next]_vars PROVE Tree'
  OBVIOUS
<1>1. CASE UNCHANGED <<loggers, parent>>
  BY <1>1 DEF Tree
<1>2. ASSUME NEW p \in Loggers, NEW l \in Loggers, New(p, l) PROVE Tree'
  <2>1. /\ loggers' = loggers \cup {l} /\ l \notin loggers /\ p \in loggers
        /\ \A j \in loggers : parent'[j] = parent[j]
        /\ parent'[l] = p
    BY <1>2 DEF New, TypeOK
  <2>2. SUFFICES ASSUME NEW k \in loggers', parent'[k] # None
                 PROVE  \E V \in SUBSET loggers' :
                          /\ parent'[k] \in V /\ k \notin V
                          /\ \A j \in V : parent'[j] = None \/ parent'[j] \in V
    BY DEF Tree
  <2>3. CASE k = l
    <3>1. \A j \in loggers : parent'[j] = None \/ parent'[j] \in loggers
      BY <2>1 DEF Tree
    <3> QED
      BY <2>1, <2>3, <3>1
  <2>4. CASE k \in loggers
    <3>1. PICK V \in SUBSET loggers : /\ parent[k] \in V /\ k \notin V
                                      /\ \A j \in V : parent[j] = None \/ parent[j] \in V
      BY <2>1, <2>2, <2>4 DEF Tree
    <3>2. V \in SUBSET loggers' /\ \A j \in V : parent'[j] = parent[j]
      BY <2>1
    <3> QED
      BY <2>1, <2>4, <3>1, <3>2
  <2> QED
    BY <2>1, <2>3, <2>4
<1>3. Configure => \/ UNCHANGED <<loggers, parent>>
                   \/ \E p \in Loggers, l \in Loggers : New(p, l)
  BY DEF Configure, SetHandler, StopPropagation
<1>4. ~ Configure => UNCHANGED <<loggers, parent>>
  BY CallsConfigure
<1> QED
  BY <1>1, <1>2, <1>3, <1>4

LEMMA NumberedStep == TypeOK /\ Bookkeeping /\ Tree /\ Numbered /\ [Next]_vars => Numbered'
<1> SUFFICES ASSUME TypeOK, Bookkeeping, Tree, Numbered, [Next]_vars PROVE Numbered'
  OBVIOUS
<1> USE DEF Numbered, Active
<1>0. /\ pc \in [Goroutines -> {"idle", "trace", "handle", "put"}]
      /\ at \in [Goroutines -> Loggers] /\ call \in [Goroutines -> Nat]
      /\ calls \in Nat /\ MaxCalls \in Nat
  BY LoggerAssumption DEF TypeOK
<1>1. CASE UNCHANGED vars
  BY <1>1 DEF vars
<1>2. CASE Configure
  <2>1. loggers \subseteq loggers'
    BY <1>2 DEF Configure, New, SetHandler, StopPropagation
  <2> QED
    BY <1>2, <2>1, ConfigureCalls
<1>3. ASSUME NEW g \in Goroutines, NEW e \in Entries, Starts(g, e) PROVE Numbered'
  <2>1. PICK l \in loggers : /\ calls < MaxCalls /\ calls' = calls + 1 /\ loggers' = loggers
                             /\ at' = [at EXCEPT ![g] = l]
                             /\ call' = [call EXCEPT ![g] = calls + 1]
                             /\ \A f \in Goroutines \ {g} : pc'[f] = pc[f]
    BY <1>0, <1>3 DEF Starts, Log, LogEntry, Begin
  <2>2. calls' <= MaxCalls /\ 1..calls' = (1..calls) \cup {calls + 1}
    BY <1>0, <2>1
  <2>4. \A f \in Goroutines \ {g} : at'[f] = at[f] /\ call'[f] = call[f]
    BY <1>0, <2>1
  <2>5. at'[g] = l /\ call'[g] = calls + 1
    BY <1>0, <2>1
  <2>6. \A f \in Goroutines \ {g} : pc'[f] # "idle" => call'[f] # calls + 1
    BY <1>0, <2>1, <2>4
  <2>7. \A f \in Goroutines : pc'[f] # "idle" => call'[f] \in 1..calls' /\ at'[f] \in loggers'
    BY <2>1, <2>2, <2>4, <2>5
  <2>8. ASSUME NEW f \in Goroutines, NEW h \in Goroutines,
               pc'[f] # "idle", pc'[h] # "idle", call'[f] = call'[h]
        PROVE  f = h
    BY <2>1, <2>4, <2>5, <2>6, <2>8
  <2> QED
    BY <2>2, <2>7, <2>8
<1>4. ASSUME NEW g \in Goroutines, Trace(g) PROVE Numbered'
  BY <1>0, <1>4 DEF Trace
<1>5. ASSUME NEW g \in Goroutines, Handle(g) PROVE Numbered'
  <2>1. /\ \A f \in Goroutines : pc'[f] # "idle" => pc[f] # "idle"
        /\ \A f \in Goroutines \ {g} : at'[f] = at[f]
        /\ at'[g] \in {at[g], parent[at[g]]}
        /\ ~ LastLogger(at[g]) \/ at'[g] = at[g]
        /\ UNCHANGED <<loggers, call, calls>>
    BY <1>0, <1>5 DEF Handle
  <2>2. at[g] \in loggers
    BY <1>5 DEF Handle
  <2>3. at'[g] \in loggers
    BY <2>1, <2>2, PathParent
  <2> QED
    BY <2>1, <2>3
<1>6. ASSUME NEW g \in Goroutines, Put(g) PROVE Numbered'
  BY <1>0, <1>6 DEF Put
<1>7. ASSUME NEW r \in owed, Deliver(r) PROVE Numbered'
  BY <1>7 DEF Deliver
<1>8. ASSUME NEW e \in Entries, Collect(e) PROVE Numbered'
  BY <1>8 DEF Collect
<1> QED
  BY <1>1, <1>2, <1>3, <1>4, <1>5, <1>6, <1>7, <1>8, NextCases

\* With the loggers as they are, their paths and the handlers on them stay.
LEMMA Undisturbed ==
  ASSUME UNCHANGED <<loggers, parent, handler, stop>>
  PROVE  \A k : Path(k)' = Path(k) /\ Due(k)' = Due(k)
  BY DEF Path, Upward, Due

LEMMA TookUnchanged ==
  ASSUME UNCHANGED <<owed, got>>
  PROVE  \A n : Took(n)' = Took(n)
  BY DEF Took

\* A call that has not begun has been nowhere.
LEMMA TookNothing ==
  ASSUME TypeOK, Bookkeeping
  PROVE  Took(calls + 1) = {}
<1>1. ASSUME NEW s \in owed \cup got PROVE s.receipt.call # calls + 1
  BY DEF TypeOK, Bookkeeping, Receipts
<1> QED
  BY <1>1 DEF Took

LEMMA DeliverTook ==
  ASSUME NEW r \in owed, Deliver(r)
  PROVE  \A n : Took(n)' = Took(n)
<1>1. Seen(r.receipt, r.entry).receipt = r.receipt
  BY DEF Seen
<1>2. {s.receipt : s \in owed' \cup got'} = {s.receipt : s \in owed \cup got}
  BY <1>1 DEF Deliver
<1>3. \A n : Took(n) = {q.logger : q \in {p \in {s.receipt : s \in owed \cup got} : p.call = n}}
  BY DEF Took
<1>4. \A n : Took(n)' = {q.logger : q \in {p \in {s.receipt : s \in owed' \cup got'} : p.call = n}}
  BY DEF Took
<1> QED
  BY <1>2, <1>3, <1>4

\* Handle gives the entry to the handler of the logger the call is at, if it has one.
LEMMA HandleTook ==
  ASSUME TypeOK, NEW g \in Goroutines, Handle(g), NEW n
  PROVE  Took(n)' = Took(n) \cup {k \in {at[g]} : call[g] = n /\ handler[k] # None}
<1>1. Owe(g).receipt = Receipt(g) /\ Seen(Receipt(g), entry[g]).receipt = Receipt(g)
  BY DEF Owe, Seen
<1>2. Receipt(g).logger = at[g] /\ Receipt(g).call = call[g]
  BY DEF Receipt
<1>3. CASE handler[at[g]] = None
  <2>1. owed' = owed /\ got' = got
    BY <1>3, LoggerAssumption DEF Handle
  <2>2. Took(n)' = Took(n)
    BY <2>1, TookUnchanged
  <2> QED
    BY <1>3, <2>2
<1>4. CASE handler[at[g]] # None
  <2>1. handler[at[g]] \in Handlers
    BY <1>4 DEF TypeOK
  <2>2. PICK s : owed' \cup got' = owed \cup got \cup {s} /\ s.receipt = Receipt(g)
    BY <1>1, <2>1 DEF Handle
  <2>3. Took(n)' = {r.receipt.logger : r \in {t \in owed \cup got \cup {s} : t.receipt.call = n}}
    BY <2>2 DEF Took
  <2>4. CASE call[g] = n
    <3>1. {t \in owed \cup got \cup {s} : t.receipt.call = n}
            = {t \in owed \cup got : t.receipt.call = n} \cup {s}
      BY <1>2, <2>2, <2>4
    <3>2. Took(n)' = Took(n) \cup {at[g]}
      BY <1>2, <2>2, <2>3, <3>1 DEF Took
    <3> QED
      BY <1>4, <2>4, <3>2
  <2>5. CASE call[g] # n
    <3>1. {t \in owed \cup got \cup {s} : t.receipt.call = n}
            = {t \in owed \cup got : t.receipt.call = n}
      BY <1>2, <2>2, <2>5
    <3> QED
      BY <2>3, <2>5, <3>1 DEF Took
  <2> QED
    BY <2>4, <2>5
<1> QED
  BY <1>3, <1>4

\* Steps that neither move a call nor give anything to a handler, and that leave
\* what is due from the loggers there are as it was.
LEMMA WalkKept ==
  ASSUME Numbered, Walk, Returned,
         UNCHANGED <<at, call, due, calls>>,
         \A g \in Goroutines : (pc'[g] = "idle" <=> pc[g] = "idle")
                            /\ (pc'[g] = "put" <=> pc[g] = "put"),
         \A k \in loggers : Due(k)' = Due(k),
         \A n : Took(n)' = Took(n)
  PROVE  Walk' /\ Returned'
<1>1. ASSUME NEW g \in Goroutines, pc'[g] # "idle"
      PROVE  /\ pc'[g] = "put" => Took(call[g])' = due'[call'[g]]
             /\ pc'[g] # "put" => /\ Due(at[g])' \subseteq due'[call'[g]]
                                 /\ Took(call[g])' = due'[call'[g]] \ Due(at[g])'
  <2>1. Active(g) /\ at[g] \in loggers
    BY <1>1 DEF Numbered, Active
  <2>2. Due(at[g])' = Due(at[g]) /\ Took(call[g])' = Took(call[g])
    BY <2>1
  <2> QED
    BY <2>1, <2>2 DEF Walk
<1>2. ASSUME NEW n \in 1..calls, \A g \in Goroutines : pc'[g] # "idle" => call[g] # n
      PROVE  Took(n)' = due'[n]
  BY <1>2 DEF Returned, Active
<1> QED
  BY <1>1, <1>2 DEF Walk, Returned, Active

LEMMA WalkConfigure ==
  ASSUME TypeOK, Tree, Numbered, Walk, Returned, Configure
  PROVE  Walk' /\ Returned'
<1>0. /\ UNCHANGED <<pc, at, call, due, calls>>
      /\ \A n : Took(n)' = Took(n)
  BY ConfigureCalls, TookUnchanged
<1>1. ASSUME NEW p \in Loggers, NEW l \in Loggers, New(p, l) PROVE Walk' /\ Returned'
  <2>1. ASSUME NEW k \in loggers PROVE Due(k)' = Due(k)
    <3>1. Path(k)' = Path(k) /\ handler' = handler
      BY <1>1, PathStable DEF New
    <3>2. Due(k)' = {j \in Path(k)' : handler'[j] # None}
      BY DEF Due
    <3> QED
      BY <3>1, <3>2 DEF Due
  <2> QED
    BY <1>0, <2>1, WalkKept
<1>2. CASE Quiet
  <2>1. \A g \in Goroutines : pc'[g] = "idle" /\ pc[g] = "idle"
    BY <1>0, <1>2 DEF Quiet, Active
  <2> QED
    BY <1>0, <2>1 DEF Walk, Returned, Active
<1> QED
  BY <1>1, <1>2 DEF Configure, SetHandler, StopPropagation

LEMMA WalkStarts ==
  ASSUME IInv, PInv, NEW g \in Goroutines, NEW e \in Entries, Starts(g, e)
  PROVE  Walk' /\ Returned'
<1> USE DEF PInv, Active
<1>0. TypeOK /\ Bookkeeping
  BY DEF IInv
<1>1. PICK l \in loggers : /\ calls < MaxCalls /\ calls' = calls + 1
                           /\ due' = [due EXCEPT ![calls + 1] = Due(l)]
                           /\ at' = [at EXCEPT ![g] = l]
                           /\ call' = [call EXCEPT ![g] = calls + 1]
                           /\ pc[g] = "idle" /\ pc'[g] \in {"trace", "handle"}
                           /\ \A f \in Goroutines \ {g} : pc'[f] = pc[f]
                           /\ UNCHANGED <<config, owed, got>>
  BY <1>0 DEF Starts, Log, LogEntry, Begin, TypeOK
<1>2. /\ at'[g] = l /\ call'[g] = calls + 1 /\ due'[calls + 1] = Due(l)
      /\ \A f \in Goroutines \ {g} : at'[f] = at[f] /\ call'[f] = call[f]
      /\ \A n \in 1..calls : due'[n] = due[n]
      /\ 1..calls' = (1..calls) \cup {calls + 1} /\ calls + 1 \notin 1..calls
  BY <1>0, <1>1, LoggerAssumption DEF TypeOK
<1>3. /\ \A k : Due(k)' = Due(k)
      /\ \A n : Took(n)' = Took(n)
  BY <1>1, Undisturbed, TookUnchanged
<1>4. ASSUME NEW f \in Goroutines, pc'[f] # "idle", NEW m, m = call'[f], NEW b, b = at'[f]
      PROVE  /\ pc'[f] = "put" => Took(m) = due'[m]
             /\ pc'[f] # "put" => Due(b) \subseteq due'[m] /\ Took(m) = due'[m] \ Due(b)
  <2>1. CASE f = g
    <3>1. Took(m) = {}
      BY <1>0, <1>2, <1>4, <2>1, TookNothing
    <3>2. pc'[f] # "put" /\ due'[m] = Due(b)
      BY <1>1, <1>2, <1>4, <2>1
    <3> QED
      BY <3>1, <3>2
  <2>2. CASE f # g
    <3>1. pc[f] # "idle" /\ m \in 1..calls
      BY <1>1, <1>2, <1>4, <2>2 DEF Numbered
    <3>2. due'[m] = due[m] /\ b = at[f] /\ m = call[f] /\ pc'[f] = pc[f]
      BY <1>1, <1>2, <1>4, <2>2, <3>1
    <3> QED
      BY <3>1, <3>2 DEF Walk
  <2> QED
    BY <2>1, <2>2
<1>5. Walk'
  <2>1. ASSUME NEW f \in Goroutines, pc'[f] # "idle"
        PROVE  /\ pc'[f] = "put" => Took(call[f])' = due'[call'[f]]
               /\ pc'[f] # "put" => /\ Due(at[f])' \subseteq due'[call'[f]]
                                   /\ Took(call[f])' = due'[call'[f]] \ Due(at[f])'
    <3>1. PICK m, b : m = call'[f] /\ b = at'[f]
      OBVIOUS
    <3>2. Took(call[f])' = Took(m)' /\ Due(at[f])' = Due(b)'
      BY <3>1 DEF Took, Due, Path, Upward
    <3>3. Took(call[f])' = Took(m) /\ Due(at[f])' = Due(b)
      BY <1>3, <3>2
    <3> QED
      BY <1>4, <2>1, <3>1, <3>3
  <2> QED
    BY <2>1 DEF Walk
<1>6. Returned'
  <2>1. ASSUME NEW n \in 1..calls', \A f \in Goroutines : pc'[f] # "idle" => call'[f] # n
        PROVE  n \in 1..calls /\ Took(n) = due[n]
    <3>1. n # calls + 1
      BY <1>1, <1>2, <2>1
    <3>2. n \in 1..calls
      BY <1>2, <3>1
    <3>3. ASSUME NEW f \in Goroutines, pc[f] # "idle" PROVE call[f] # n
      BY <1>1, <1>2, <2>1, <3>3
    <3> QED
      BY <3>2, <3>3 DEF Returned
  <2> QED
    BY <1>2, <1>3, <2>1 DEF Returned
<1> QED
  BY <1>5, <1>6

LEMMA WalkHandle ==
  ASSUME IInv, PInv, NEW g \in Goroutines, Handle(g)
  PROVE  Walk' /\ Returned'
<1> USE DEF PInv, Active
<1>0. TypeOK
  BY DEF IInv
<1>1. PICK a, n : a = at[g] /\ n = call[g]
  OBVIOUS
<1> DEFINE here == {k \in {a} : handler[k] # None}
<1>2. /\ pc[g] = "handle" /\ pc'[g] \in {"put", "handle"}
      /\ \A f \in Goroutines \ {g} : pc'[f] = pc[f] /\ at'[f] = at[f]
      /\ UNCHANGED <<config, call, past>>
  BY <1>0 DEF Handle, TypeOK
<1>3. a \in loggers /\ n \in 1..calls
  BY <1>1, <1>2 DEF Numbered
<1>4. Due(a) \subseteq due[n] /\ Took(n) = due[n] \ Due(a)
  BY <1>1, <1>2 DEF Walk
<1>5. \A m : Took(m)' = IF m = n THEN Took(n) \cup here ELSE Took(m)
  BY <1>0, <1>1, HandleTook
<1>6. \A k : Due(k)' = Due(k)
  BY <1>2, Undisturbed
<1>7. /\ pc'[g] = "put" => Took(n) \cup here = due[n]
      /\ pc'[g] # "put" => /\ Due(at'[g]) \subseteq due[n]
                          /\ Took(n) \cup here = due[n] \ Due(at'[g])
  <2>1. CASE LastLogger(a)
    <3>1. Path(a) = {a} /\ pc'[g] = "put"
      BY <1>0, <1>1, <1>3, <2>1, PathLast DEF Handle, TypeOK
    <3>2. Due(a) = here
      BY <3>1 DEF Due
    <3> QED
      BY <1>4, <3>1, <3>2
  <2>2. CASE ~ LastLogger(a)
    <3>1. pc'[g] = "handle" /\ at'[g] = parent[a]
      BY <1>0, <1>1, <2>2 DEF Handle, TypeOK
    <3>2. a \notin Path(parent[a]) /\ Path(a) = {a} \cup Path(parent[a])
      BY <1>3, <2>2, PathParent
    <3>3. Due(a) = here \cup Due(parent[a]) /\ here \cap Due(parent[a]) = {}
      BY <3>2 DEF Due
    <3> QED
      BY <1>4, <3>1, <3>3
  <2> QED
    BY <2>1, <2>2
<1>8. \A f \in Goroutines \ {g} : Active(f) => call[f] # n
  BY <1>1, <1>2 DEF Numbered
<1>9. ASSUME NEW f \in Goroutines, pc'[f] # "idle", NEW m, m = call[f], NEW b, b = at'[f]
      PROVE  /\ pc'[f] = "put" => Took(m)' = due[m]
             /\ pc'[f] # "put" => Due(b) \subseteq due[m] /\ Took(m)' = due[m] \ Due(b)
  <2>1. CASE f = g
    BY <1>1, <1>5, <1>7, <1>9, <2>1
  <2>2. CASE f # g
    <3>1. pc[f] = pc'[f] /\ at[f] = b /\ m # n
      BY <1>2, <1>8, <1>9, <2>2
    <3>2. Took(m)' = Took(m)
      BY <1>5, <3>1
    <3> QED
      BY <1>9, <3>1, <3>2 DEF Walk
  <2> QED
    BY <2>1, <2>2
<1>10. Walk'
  <2>1. ASSUME NEW f \in Goroutines, pc'[f] # "idle"
        PROVE  /\ pc'[f] = "put" => Took(call[f])' = due'[call'[f]]
               /\ pc'[f] # "put" => /\ Due(at[f])' \subseteq due'[call'[f]]
                                   /\ Took(call[f])' = due'[call'[f]] \ Due(at[f])'
    <3>1. PICK m, b : m = call[f] /\ b = at'[f]
      OBVIOUS
    <3>2. Took(call[f])' = Took(m)' /\ Due(at[f])' = Due(b)' /\ due'[call'[f]] = due[m]
      BY <1>2, <3>1 DEF Took, Due, Path, Upward
    <3>3. Due(at[f])' = Due(b)
      BY <1>6, <3>2
    <3> QED
      BY <1>9, <2>1, <3>1, <3>2, <3>3
  <2> QED
    BY <2>1 DEF Walk
<1>11. Returned'
  <2>1. ASSUME NEW m \in 1..calls, \A f \in Goroutines : pc'[f] # "idle" => call'[f] # m
        PROVE  Took(m)' = due[m]
    <3>1. m # n /\ \A f \in Goroutines : pc[f] # "idle" => call[f] # m
      BY <1>1, <1>2, <2>1
    <3> QED
      BY <1>5, <3>1 DEF Returned
  <2> QED
    BY <1>2, <2>1 DEF Returned
<1> QED
  BY <1>10, <1>11

LEMMA WalkPut ==
  ASSUME IInv, PInv, NEW g \in Goroutines, Put(g)
  PROVE  Walk' /\ Returned'
<1> USE DEF PInv, Active
<1>1. /\ pc[g] = "put" /\ pc'[g] = "idle"
      /\ \A f \in Goroutines \ {g} : pc'[f] = pc[f]
      /\ UNCHANGED <<config, at, call, past, owed, got>>
  BY DEF Put, IInv, TypeOK
<1>2. Walk'
  <2>1. \A f \in Goroutines : pc'[f] # "idle" => pc[f] = pc'[f]
    BY <1>1
  <2>2. \A f \in Goroutines : Due(at[f])' = Due(at[f]) /\ Took(call[f])' = Took(call[f])
    BY <1>1 DEF Path, Upward, Took, Due
  <2> QED
    BY <1>1, <2>1, <2>2 DEF Walk
<1>3. ASSUME NEW m \in 1..calls, \A f \in Goroutines : pc'[f] # "idle" => call'[f] # m
      PROVE  Took(m)' = due[m]
  <2>1. Took(m)' = Took(m)
    BY <1>1, TookUnchanged
  <2>2. CASE call[g] = m
    BY <1>1, <2>1, <2>2 DEF Walk
  <2>3. CASE call[g] # m
    BY <1>1, <1>3, <2>1, <2>3 DEF Returned
  <2> QED
    BY <2>2, <2>3
<1> QED
  BY <1>1, <1>2, <1>3 DEF Returned

LEMMA WalkStep == IInv /\ PInv /\ [Next]_vars => Walk' /\ Returned'
<1> SUFFICES ASSUME IInv, PInv, [Next]_vars PROVE Walk' /\ Returned'
  OBVIOUS
<1>0. TypeOK /\ Tree /\ Numbered /\ Walk /\ Returned
  BY DEF IInv, PInv
<1>1. CASE UNCHANGED vars
  <2>1. UNCHANGED <<loggers, parent, handler, stop, pc, at, call, due, calls, owed, got>>
    BY <1>1 DEF vars
  <2> QED
    BY <1>0, <2>1, WalkKept, Undisturbed, TookUnchanged
<1>2. CASE Configure
  BY <1>0, <1>2, WalkConfigure
<1>3. ASSUME NEW g \in Goroutines, NEW e \in Entries, Starts(g, e) PROVE Walk' /\ Returned'
  BY <1>3, WalkStarts
<1>4. ASSUME NEW g \in Goroutines, Trace(g) PROVE Walk' /\ Returned'
  <2>1. /\ UNCHANGED <<loggers, parent, handler, stop, at, call, due, calls, owed, got>>
        /\ \A f \in Goroutines : (pc'[f] = "idle" <=> pc[f] = "idle")
                              /\ (pc'[f] = "put" <=> pc[f] = "put")
    BY <1>0, <1>4 DEF Trace, TypeOK
  <2> QED
    BY <1>0, <2>1, WalkKept, Undisturbed, TookUnchanged
<1>5. ASSUME NEW g \in Goroutines, Handle(g) PROVE Walk' /\ Returned'
  BY <1>5, WalkHandle
<1>6. ASSUME NEW g \in Goroutines, Put(g) PROVE Walk' /\ Returned'
  BY <1>6, WalkPut
<1>7. ASSUME NEW r \in owed, Deliver(r) PROVE Walk' /\ Returned'
  <2>1. UNCHANGED <<loggers, parent, handler, stop, pc, at, call, due, calls>>
    BY <1>7 DEF Deliver
  <2>2. \A n : Took(n)' = Took(n)
    BY <1>7, DeliverTook
  <2> QED
    BY <1>0, <2>1, <2>2, WalkKept, Undisturbed
<1>8. ASSUME NEW e \in Entries, Collect(e) PROVE Walk' /\ Returned'
  <2>1. UNCHANGED <<loggers, parent, handler, stop, pc, at, call, due, calls, owed, got>>
    BY <1>8 DEF Collect
  <2> QED
    BY <1>0, <2>1, WalkKept, Undisturbed, TookUnchanged
<1> QED
  BY <1>1, <1>2, <1>3, <1>4, <1>5, <1>6, <1>7, <1>8, NextCases

\* A call in progress has been to a part of its path, and one that has returned to
\* all of it.
LEMMA WalkPropagates ==
  ASSUME PInv
  PROVE  Propagation
<1>1. ASSUME NEW n \in 1..calls PROVE Took(n) \subseteq due[n]
  <2>1. ASSUME NEW g \in Goroutines, Active(g), call[g] = n PROVE Took(n) \subseteq due[n]
    BY <2>1 DEF PInv, Walk
  <2> QED
    BY <2>1 DEF PInv, Returned
<1> QED
  BY <1>1 DEF PInv, Returned, Propagation

\* Every handler that was on the path of a call when it began gets its entry, and no other
\* handler does, however loggers are set between calls.
THEOREM Propagates == Spec => []Propagation
<1>1. Init => PInv
  BY LoggerAssumption DEF Init, PInv, Tree, Numbered, Walk, Returned, Active
<1>2. IInv /\ PInv /\ [Next]_vars => PInv'
  BY TreeStep, NumberedStep, WalkStep DEF IInv, PInv
<1>3. Spec => []PInv
  BY <1>1, <1>2, Invariant, PTL DEF Spec
<1> QED
  BY <1>3, WalkPropagates, PTL
=============================================================================

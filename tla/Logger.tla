-------------------------------- MODULE Logger --------------------------------
(***************************************************************************)
(* log/logger.go: loggers, and the pool their entries come from and go     *)
(* back to.  A call fills an entry, gives it to the handler of its logger, *)
(* of that logger's parent, and so on up to the root or to a logger that   *)
(* stops propagation.  If one of these handlers is asynchronous the entry  *)
(* may still be read after the call returns, and is not put in the pool.   *)
(*                                                                         *)
(* A step is one use of the pool or one turn of the loop in logEntry.      *)
(* Handlers appear through the Handler interface only: Log of one whose    *)
(* Async is false reads the entry before it returns; an asynchronous one   *)
(* reads it at any later time.  What they do with it is HandlerTree's and  *)
(* AsyncHandler's subject.                                                 *)
(*                                                                         *)
(* Left out: the contexts (New drops its argument, so every logger has the *)
(* root's, which is empty), and slicePool (a call copies its buffer's      *)
(* contents before anyone else can get the buffer).                        *)
(***************************************************************************)
EXTENDS Naturals

CONSTANTS
  Goroutines,
  Loggers,   \* the loggers there may be
  Root,      \* the package variable root
  Handlers,
  Async,     \* those of them whose Async method returns true
  Entries,   \* the memory an Entry may be allocated in
  None,      \* nil
  MaxCalls,  \* bound on the calls
  SetAfter   \* bounds when loggers are set: how many calls have been made then

ASSUME LoggerAssumption ==
  /\ Root \in Loggers /\ None \notin Loggers
  /\ Async \subseteq Handlers /\ None \notin Handlers
  /\ MaxCalls \in Nat

VARIABLES
  loggers,                \* the loggers that were created
  parent, handler, stop,  \* their fields
  pool,                   \* entryPool: how many times it contains each entry
  content,                \* the fields of each entry
  pc, entry, at, async,   \* logEntry in each goroutine: e, l and async
  call,                   \* the number of the call g makes
  owed,                   \* what asynchronous handlers have still to read
  got,                    \* history: what handlers have read
  due, traced, calls      \* history: of each call the loggers whose handlers it is
                          \* for, as they were set when it began; those whose entry
                          \* has a stack trace; the number of calls

config == <<loggers, parent, handler, stop>>
locals == <<pc, entry, at, async, call>>
past   == <<due, traced, calls>>
vars   == <<config, pool, content, locals, owed, got, past>>

\* The fields a call writes (Message, Data, Error, Timestamp), and those only some
\* calls write (File, Line, Stacktrace), each named by the call that wrote them.
Content == [message : Nat, trace : Nat]

Zero == [message |-> 0, trace |-> 0]

Init ==
  /\ loggers = {Root}
  /\ parent = [l \in Loggers |-> None]
  /\ handler = [l \in Loggers |-> None]
  /\ stop = [l \in Loggers |-> FALSE]
  /\ pool = [e \in Entries |-> 0]
  /\ content = [e \in Entries |-> Zero]
  /\ pc = [g \in Goroutines |-> "idle"]
  /\ entry = [g \in Goroutines |-> None]
  /\ at = [g \in Goroutines |-> Root]
  /\ async = [g \in Goroutines |-> FALSE]
  /\ call = [g \in Goroutines |-> 0]
  /\ owed = {}
  /\ got = {}
  /\ due = [n \in 1..MaxCalls |-> {}]
  /\ traced = {}
  /\ calls = 0

Active(g) == pc[g] # "idle"

----------------------------------------------------------------------------
(* Configuration *)

\* p.New
New(p, l) ==
  /\ p \in loggers
  /\ l \in Loggers \ loggers
  /\ loggers' = loggers \cup {l}
  /\ parent' = [parent EXCEPT ![l] = p]
  /\ UNCHANGED <<handler, stop, pool, content, locals, owed, got, past>>

\* Both write a field that every call reads without a lock, and their comment asks for
\* them to be called "before using the logger from multiple goroutines": they come
\* between calls, not during one.
Quiet == \A g \in Goroutines : ~ Active(g)

SetHandler(l, h) ==
  /\ Quiet /\ calls \in SetAfter
  /\ l \in loggers
  /\ handler' = [handler EXCEPT ![l] = h]
  /\ UNCHANGED <<loggers, parent, stop, pool, content, locals, owed, got, past>>

StopPropagation(l) ==
  /\ Quiet /\ calls \in SetAfter
  /\ l \in loggers
  /\ stop' = [stop EXCEPT ![l] = TRUE]
  /\ UNCHANGED <<loggers, parent, handler, pool, content, locals, owed, got, past>>

----------------------------------------------------------------------------
(* Calls *)

\* No one can reach e any more: it may be allocated again.
Garbage(e) ==
  /\ pool[e] = 0
  /\ \A g \in Goroutines : Active(g) => entry[g] # e
  /\ \A r \in owed : r.entry # e

\* The loggers a call on l goes through: the least set with l and the parent of each
\* logger in it that does not stop propagation.
Upward(V) == \A k \in V : parent[k] = None \/ stop[k] \/ parent[k] \in V
Path(l) == {k \in loggers : \A V \in SUBSET loggers : l \in V /\ Upward(V) => k \in V}

Due(l)  == {k \in Path(l) : handler[k] # None}

\* g calls a method of l, which is about to do step next with entry e.
Begin(g, l, e, next) ==
  /\ ~ Active(g)
  /\ l \in loggers
  /\ calls < MaxCalls
  /\ calls' = calls + 1
  /\ pc' = [pc EXCEPT ![g] = next]
  /\ entry' = [entry EXCEPT ![g] = e]
  /\ at' = [at EXCEPT ![g] = l]
  /\ async' = [async EXCEPT ![g] = FALSE]
  /\ call' = [call EXCEPT ![g] = calls + 1]
  /\ due' = [due EXCEPT ![calls + 1] = Due(l)]
  /\ UNCHANGED <<config, owed, got>>

\* Slip: File, Line and Stacktrace are not reset.
FilledNoReset(e) == [content[e] EXCEPT !.message = calls + 1]

\* What log writes into an entry, of a pool or new.
Filled(e) == [message |-> calls + 1, trace |-> 0]

\* Debug, Info and Error in their variants: an entry out of the pool, if Get
\* returns one, and a new one otherwise
Log(g, l, e, debug) ==
  /\ \/ pool[e] > 0 /\ pool' = [pool EXCEPT ![e] = @ - 1]
     \/ Garbage(e) /\ UNCHANGED pool
  /\ Begin(g, l, e, IF debug THEN "trace" ELSE "handle")
  /\ content' = [content EXCEPT ![e] = Filled(e)]
  /\ traced' = IF debug THEN traced \cup {calls + 1} ELSE traced

\* LogEntry with an entry the program has made with NewEntry, or without it, and
\* does not use again
LogEntry(g, l, e, prefilled) ==
  /\ Garbage(e)
  /\ Begin(g, l, e, "handle")
  /\ content' = [content EXCEPT ![e] =
       [message |-> calls + 1, trace |-> IF prefilled THEN calls + 1 ELSE 0]]
  /\ traced' = IF prefilled THEN traced \cup {calls + 1} ELSE traced
  /\ UNCHANGED pool

\* if debug && !debugSet { ... }
Trace(g) ==
  /\ pc[g] = "trace"
  /\ content' = [content EXCEPT ![entry[g]].trace = call[g]]
  /\ pc' = [pc EXCEPT ![g] = "handle"]
  /\ UNCHANGED <<config, pool, entry, at, async, call, owed, got, past>>

\* if l.handler != nil { l.handler.Log(e) ... }
Receipt(g) == [handler |-> handler[at[g]], logger |-> at[g], call |-> call[g]]

Owe(g)  == [receipt |-> Receipt(g), entry |-> entry[g]]
Seen(r, e) == [receipt |-> r, seen |-> content[e]]

\* Slip: only the last handler of the chain decides.
SeesAsyncLast(g) == handler[at[g]] \in Async

SeesAsync(g) == async[g] \/ handler[at[g]] \in Async

\* Slip: stop is forgotten.
LastLoggerIfRoot(l) == parent[l] = None

\* l.parent == nil || l.stop
LastLogger(l) == parent[l] = None \/ stop[l]

Handle(g) ==
  /\ pc[g] = "handle"
  /\ owed' = IF handler[at[g]] \in Async THEN owed \cup {Owe(g)} ELSE owed
  /\ got' = IF handler[at[g]] \in Handlers \ Async
            THEN got \cup {Seen(Receipt(g), entry[g])} ELSE got
  /\ async' = [async EXCEPT ![g] = SeesAsync(g)]
  /\ IF LastLogger(at[g])
     THEN pc' = [pc EXCEPT ![g] = "put"] /\ UNCHANGED at
     ELSE at' = [at EXCEPT ![g] = parent[at[g]]] /\ UNCHANGED pc
  /\ UNCHANGED <<config, pool, content, entry, call, past>>

\* if !async { entryPool.Put(e) ... }
Put(g) ==
  /\ pc[g] = "put"
  /\ pool' = IF async[g] THEN pool ELSE [pool EXCEPT ![entry[g]] = @ + 1]
  /\ pc' = [pc EXCEPT ![g] = "idle"]
  /\ UNCHANGED <<config, content, entry, at, async, call, owed, got, past>>

----------------------------------------------------------------------------
(* Handlers and the garbage collector *)

\* An asynchronous handler reads an entry it was given.
Deliver(r) ==
  /\ r \in owed
  /\ owed' = owed \ {r}
  /\ got' = got \cup {Seen(r.receipt, r.entry)}
  /\ UNCHANGED <<config, pool, content, locals, past>>

\* A sync.Pool loses entries in a garbage collection.
Collect(e) ==
  /\ pool[e] > 0
  /\ pool' = [pool EXCEPT ![e] = @ - 1]
  /\ UNCHANGED <<config, content, locals, owed, got, past>>

----------------------------------------------------------------------------

Configure ==
  \E l \in Loggers :
    \/ \E p \in Loggers : New(p, l)
    \/ \E h \in Handlers \cup {None} : SetHandler(l, h)
    \/ StopPropagation(l)

Calling(g) ==
  \/ \E l \in Loggers, e \in Entries, b \in BOOLEAN : Log(g, l, e, b) \/ LogEntry(g, l, e, b)
  \/ Trace(g) \/ Handle(g) \/ Put(g)

Next ==
  \/ Configure
  \/ \E g \in Goroutines : Calling(g)
  \/ \E r \in owed : Deliver(r)
  \/ \E e \in Entries : Collect(e)

Spec == Init /\ [][Next]_vars
----------------------------------------------------------------------------
(* Properties *)

Receipts == [handler : Handlers, logger : Loggers, call : Nat]

TypeOK ==
  /\ Root \in loggers /\ loggers \subseteq Loggers
  /\ parent \in [Loggers -> Loggers \cup {None}]
  /\ handler \in [Loggers -> Handlers \cup {None}]
  /\ stop \in [Loggers -> BOOLEAN]
  /\ pool \in [Entries -> Nat]
  /\ content \in [Entries -> Content]
  /\ pc \in [Goroutines -> {"idle", "trace", "handle", "put"}]
  /\ entry \in [Goroutines -> Entries \cup {None}]
  /\ at \in [Goroutines -> Loggers]
  /\ async \in [Goroutines -> BOOLEAN]
  /\ call \in [Goroutines -> Nat]
  /\ owed \subseteq [receipt : Receipts, entry : Entries]
  /\ got \subseteq [receipt : Receipts, seen : Content]
  /\ due \in [1..MaxCalls -> SUBSET Loggers]
  /\ traced \subseteq Nat
  /\ calls \in Nat

\* What call n wrote into its entry.
Written(n) == [message |-> n, trace |-> IF n \in traced THEN n ELSE 0]

\* An entry in the pool is there once, and neither a call in progress nor an
\* asynchronous handler still has it; two calls never have the same entry; and
\* while an asynchronous handler has a call's entry the call knows it.
PoolExclusive ==
  /\ \A e \in Entries : pool[e] > 0 =>
       /\ pool[e] = 1
       /\ \A g \in Goroutines : Active(g) => entry[g] # e
       /\ \A r \in owed : r.entry # e
  /\ \A f, g \in Goroutines : Active(f) /\ Active(g) /\ entry[f] = entry[g] => f = g
  /\ \A g \in Goroutines, r \in owed :
       Active(g) /\ r.entry = entry[g] => async[g] /\ r.receipt.call = call[g]

\* No later call changes what an asynchronous handler has still to read, or what a
\* call in progress passes on.
EntryIntact ==
  /\ \A r \in owed : content[r.entry] = Written(r.receipt.call)
  /\ \A g \in Goroutines : pc[g] = "handle" => content[entry[g]] = Written(call[g])

\* Every handler sees exactly what the caller logged: the message of that call, its
\* stack trace if it is a debug call, and nothing of an earlier user of the entry.
HandlersSeeCall == \A s \in got : s.seen = Written(s.receipt.call)

Took(n) == {r.receipt.logger : r \in {s \in owed \cup got : s.receipt.call = n}}

\* A call passes its entry to the handlers that were on its path when it began and to no
\* others, and when it returns it has left out none of them, whatever loggers are created
\* meanwhile, and however loggers are set between calls.
Propagation ==
  \A n \in 1..calls :
    /\ Took(n) \subseteq due[n]
    /\ (\A g \in Goroutines : Active(g) => call[g] # n) => Took(n) = due[n]
=============================================================================

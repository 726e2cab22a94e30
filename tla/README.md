# Golly: models and proofs

This directory holds TLA+ models of the Go packages of golly, their TLC
configurations, and proofs about them for the TLA+ proof system. Every module is
written from the source; line numbers below refer to it, and `PROJECT.json`
("map") gives the lines each definition stands for.

1. [The system](#1-the-system): components, state, interactions, hard behaviour
2. [The models](#2-the-models): modules, state and actions against the code
3. [The runs](#3-the-runs): what is checked, bounds, fairness
4. [The proofs](#4-the-proofs)
5. [What the checks found](#5-what-the-checks-found)
6. [What is not modelled](#6-what-is-not-modelled)
7. [What is left](#7-what-is-left)

## 1. The system

golly is a collection of packages. Two of them are concurrent and keep state
that outlives a call, and a program that uses golly has both: `log` and
`process`. The rest are data structures and codecs.

| Component | State | Operations | What makes it correct |
|---|---|---|---|
| `log`: asynchronous handler (`handler.go` 17-113) | queue channel, the channels `flush`, `flushWait`, `stop`, a worker goroutine with local flags | `Log`, `Flush`, `Close`, `run` | order kept; Flush covers what came before it; Close drains, then closes; calls return |
| `log`: loggers and entry pool (`logger.go`) | tree of loggers, `entryPool`, entries | `New`, `SetHandler`, `StopPropagation`, logging calls, `LogEntry` | a pooled entry has one owner; every handler on the path sees what was logged |
| `log`: failover and multi handlers (`handler.go` 115-213), streams (`stream.go`) | `closed` per stream, a flush goroutine | `Log`, `Flush`, `Close` | an entry goes to the right streams once; Flush and Close reach all of them whatever fails |
| `log`: formatters (`formatter.go`) | none | `Write` | wording and layout |
| `process` (`process.go`) | `SignalHandlers`, the lock files, the PID file | `Init`, `Lock`, `Release`, `CreatePidFile`, `Exit`, signals | one process per name; exits release the lock and flush the logs; the PID file names the holder |
| `refmap` | two maps and a counter | `Create`, `Incr`, `Decr`, `Delete`, `Lookup` | the maps are inverse; references are not reused |
| `structure`: `Dict`, `PrefixTree` | bucket chains; a tree of labels | `Set`, `Get`, `Delete`; `Insert`, `Lookup`, `Delete`, `MatchPrefix` | they implement a map |
| `hash`: `Ring` | sorted buckets under an RWMutex | `Add`, `Remove`, `Find`, `FindMultiple` | sorted; a key moves only to or from the node that changed; distinct nodes |
| `lzf` | none | `Compress`, `Decompress` | round trip; bounds |
| `optparse` | option table | `Parse`, completion, `Commands` | an argument list reads one way; required options; completion reads as `Parse` does |
| `httputil` (with `structure/slice.go`) | a header's options | `Parse`, `Accepts`, `FindPreferred` | what is preferred follows weight and specificity; both answers agree |
| `url` | none | `Quote`..., `Unquote`... | round trip; buffers as long as what is written |
| `crypto` | package settings | PBKDF2, passwords, iron strings | the standard's key; validation survives new settings; expiry |
| `bitset` | words | `Set`, `Clear`, `Reset`, `String` | a set of indices |
| `prime` (`prime.go`) | a table | `Between`, `Select` | a prime of the range, any of them |
| `decimal`, `fsutil`, `tlsconf`, `prime/numbers.go` | none | `math/big`, file system, TLS, a generated table | |

**Interactions.** A `Logger` hands each entry to the `Handler`s on its path to the
root. A `Handler` is a tree: `AsyncHandler` wraps a handler in a goroutine, failover
and multi handlers have children, streams write. `log.init` registers `Flush` as a
`process` exit handler; `process.Lock` prepends `Release` to it. So the exit path
of a program (`Exit`, or a signal) runs `Release`, then `Flush` through the whole
logging stack, then exits: a Flush that does not return keeps the process alive, and
a Release that runs twice affects other processes. `optparse` ends the process
through `process.Exit`.

**Hard behaviour.** Goroutines that share a handler while it is closed; two requests
that share one channel or one flag; a pool that recycles an entry somebody still
reads; two goroutines that run the exit handlers at once; processes that crash,
restart and reuse a process ID between two system calls of another; children of a
handler that fail. `PROJECT.json` ("hazards") lists each with its line and the
properties that cover it.

## 2. The models

### LogSink, AsyncHandler

`LogSink` is the promise of an asynchronous handler with no channel and no
goroutine: entries are accepted, delivered in that order, and flushed; a Flush ends
only when everything accepted before it is durable; a Close ends, and closes the
wrapped handler, only when everything accepted before it was delivered.

`AsyncHandler` is `handler.go` 17-113. A step is one channel operation or one call of
the wrapped handler. `pc[g]` is where goroutine g is in `Log`, `Flush` or `Close`;
`run` is where the worker is; `queue` is the channel's buffer and `closed` the
channels that are closed. An operation on an unbuffered channel is one step of the
two goroutines that meet (`RequestFlush`, `AckFlush`, `RequestStop`, `AckStop`, and
`CrossStop`, where one Close takes the request of another for its answer). The
methods have value receivers, so their mutex and `closed` flag are those of a copy
and have no effect; the model has neither. A send on a closed channel panics and ends
the process (`Panic`). `SinkSpec` is the refinement mapping to `LogSink`: an entry is
accepted when it enters the channel.

### ProcessLock

`process.go`: processes of one name that share a run directory. A process has two
goroutines, "main" (`Init`, later `Exit` or `Release`) and "signal"
(`handleSignals`); a step is one system call (`CreateFile`, `LinkFile`, `RemoveFile`,
`RemoveLink`, `WritePid`, `OsExit`) or one write of the `SignalHandlers` map
(`SetTermHandler`, `SetIntHandler`). `link` is what `<name>.lock` is linked to,
`files` the `<name>-<pid>.lock` files. `Die` is a crash at any step, `Start` may reuse
the process ID. `program` says how the application releases its lock (by a signal, by
`Exit`, by calling `Release`, or several of these) and whether it sets
`DisableDefaultExit`.

### Logger

`logger.go`. `pool[e]` counts how often entry e is in the pool, so that a double Put
would show. A call takes or allocates an entry and fills it (`Log`, or `LogEntry` with
the caller's own), adds the stack trace of a debug call (`Trace`), walks up the
loggers (`Handle`, one turn of the loop each), and puts the entry back unless an
asynchronous handler has seen it (`Put`). Handlers appear through the interface: a
synchronous one reads the entry before `Log` returns, an asynchronous one at some
later step (`Deliver`). `Collect` is the garbage collector emptying the pool; memory
nobody refers to may be allocated again. The fields of an entry are represented by
the number of the call that wrote them. `due` is a history variable: the loggers whose handlers
a call is for, as they were set when it began. `SetHandler` and `StopPropagation` come at any
time when no call is under way (`Quiet`); `SetAfter` bounds how often. During a call they are a
data race with it, and their comment (153-154) asks for them to be called "before using the
logger from multiple goroutines".

### HandlerTree

`handler.go` 115-213 and `stream.go`. Each call is a stack of loops over children
(`Descend`, `Leave`, `Combine`), with a stream at the bottom whose mutex makes its
answer one step (`Stream`). Streams may fail. `FlushTick` is a stream's flush
goroutine. `Outcome` and `Offered` define, by recursion over the tree and without any
stack, what a Log should have returned and to which streams it should have gone; `visits` is a
history variable that counts how often each call was made of each stream.

### Ring

`hash/ring.go`. Every method runs under the RWMutex, so each is one step. `buckets` is
the sorted list; digests are a constant (`Digests`), keys are their CRCs. The loops of
`add` (`Made`, over the digests), `NewRing` (`Added`), the binary search (`Search`) and
the walk of `FindMultiple` are recursive functions, turn by turn as in the code. `remove`
(`WithoutNode`) and `sort.Sort` (`Sort`) list the buckets they leave by their places (`Listed`).
The sort is not stable, so buckets of different nodes with one id come out in any
order (`Ties`).

`asked` is a history variable: how many buckets each node should have. `Changes(node)` is
a step that adds or removes that node, about which `MinimalMovement` speaks.

### RefMap

`refmap.go`. `refs` and `strings` are the two Go maps, `lastRef` the counter, which wraps
after `MaxRef`. Maps hold values: `Incr` and `Decr` count in a copy, so a string's count
stays what it was at first, and `Decr` deletes it when its argument reaches that. Past the wrap a
new string may take over a reference in use: what is left of `Inverses` is that a reference stands
for a string that gives it back, and not that every string keeps its reference.

### KeyedMap, Dict

`KeyedMap` is what `structure.Dict` promises, put as weakly as the code makes it: a map
whose `Remove` may take other keys with it, a count of the keys that the size goes on
counting (`leaked`), and a call that may not return (`Hang`). `Dict` is `dict.go`: a bucket
is the sequence of its nodes, `Hash` any function from keys to buckets. `DeleteKey` has
the code's three outcomes: the key is first in its bucket and the whole bucket goes
(line 58), it is second and is unlinked, or it is neither and the loop, which does not
advance (line 72), never ends (`hung`). `ImplementsMap` maps a table to the map of what `Get`
returns.

### PrefixTree

`prefixtree.go`, a radix tree. Nodes are numbered as they are made, and stay in the heap when
the tree has lost them. The four methods go down in the same way: `Seek` is the loop over a
node's children, `Judged` what is decided at a child, `Onto` a turn, and `Way` the turns one
after the other. A method is a step, except that an `Insert` that goes astray in the root's
children takes one for each child it enters (`GoAstray`), with no other call in between. `map` is
what the calls should have stored, `mishaps` records where the code leaves the way of a radix
tree, see section 5. A label that is empty makes later calls index it and panic (`panicked`).
A value is never nil: the code takes nil for no value.

### LZF, URL, Acceptable, OptParse, BitSet, Prime, Password, Iron

Algorithms that work on their arguments. A turn of a loop of the code is a step, so that
what the properties compare with is written without loops and without the code's
intermediate state.

* `LZF`: `Compress`, and `Decompress` of its output, of which the end may be lost (`Cut`). The
  field widths of a control byte and the size of the hash table are constants. Every access
  to an array is checked (`Emit`, "panic").
* `OptParse`: the loop of `Parse` (`TakeWord`, `SetBool`, `SetValue`, ...), and `Scan`,
  the other loop with which completion reads the same words.
* `URL`: quoting counts (`CountByte`), then writes (`WriteByte`); unquoting checks
  (`CheckByte`), then reads (`ReadByte`). A cell nobody wrote is `Unset`, and a write beyond
  the buffer a panic (`Put`).
* `Acceptable`: the options of an Accept header are parsed and sorted, by an order under which
  some are neither way less; `Accepts` and `FindPreferred` ask them. `Best` is the code's rule,
  `RfcAccepts` that of RFC 2616, which differs from it in three cases (`ZeroOverridden`,
  `Latin1Taken`, `IdentityUnlisted`). A weight is a number, not negative, or one too large for
  a float (`Huge`), or does not parse.
* `BitSet`: a word is the set of its bits, of `WordBytes` bytes of `ByteBits` bits; a uint
  overflows at `UintMax`.
* `Prime`: the two scans of `Between`, and `Select`, over any ascending table.
* `Password`: PBKDF2 block by block and round by round; an HMAC is a term, the XOR of
  terms a set of them. The settings of the package change between making a password and
  validating it.
* `Iron`: an iron string is made at a time and read, under any name and key, at a
  later one. A number that is printed is one element of a string, and characters lie
  above all numbers.

### MC modules and slips

The modules named MC give values to constants and define symmetry sets. `MCStores` and
`MCAlgorithms` join modules that do not interact: `store` or `algorithm` says which one a
behaviour is about and never changes, so that one run explores each of them in full.
Definitions commented
"Slip:" are mutated forms of
the definition that follows them, each a plausible mistake in the code; every property
below fails when one of them takes the place of the original, and nothing else uses
them.

## 3. The runs

| Run | Shows | Bounds |
|---|---|---|
| `async_orderly` | An application that closes last: every call returns (`FlushReturns`, `CloseReturns`), every entry arrives (`LogDelivered`), nothing is lost, nothing panics (`OrderlyShutdown`) | 2 goroutines, 1 flusher, 3 entries, 2 flushes, queue of 0 or 1 |
| `async_racy` | `ChannelFIFO` in every interleaving; with one Close, `CloseSafety`, `FlushBarrier` and the refinement `SinkSpec` | 3 goroutines, 3 entries, 2 flushes, 2 closes, queue of 0 or 2 |
| `async_close_hangs` | violation of `CloseReturns` (section 5) | 2 goroutines, 1 entry, 1 flush, 1 close |
| `process_lock` | `MutualExclusion` and `LockKept` for programs with one way to release the lock; `CleanExit`, `PidFileExact`, `TermEnds` | 2 process IDs, 3 starts, 2 signals, notifier of 1; the six programs of `AnyProgram` |
| `process_race` | violation of `OneProcess` (section 5) | 3 processes, 1 signal |
| `process_pid` | violation of `PidFileNamesHolder` (section 5) | 2 processes |
| `logger` | `PoolExclusive`, `HandlersSeeCall`, `Propagation` | 2 goroutines, 2 loggers, 2 handlers (one asynchronous), 3 entries, 3 calls, loggers set before the first call and between it and the second (`SetAfter`) |
| `handler_tree` | `LogOutcome`, `FlushCovers`, `CloseComplete`, `SilentAfterClose` | 2 goroutines, 3 calls; 3 trees of up to 3 streams: the default handlers, a failover over a multi handler, and the reverse |
| `stores` | `RefMap`: `Inverses`, `NeverReissued`; `Dict`: the refinement `ImplementsMap`; `PrefixTree`: `Agrees`, `MatchesAgree`; `Ring`: `RingShape`, `FindNearest`, `Successors`, `MinimalMovement`, `Takeover` | `RefMap`: 3 strings, one of them empty, references 0 to 3, counter from 0 and 2, past its wrap. `Dict`: 4 keys, 3 of them in one bucket, 2 values, size up to 6. `PrefixTree`: 6 keys of up to 3 of 2 characters, 2 values, 5 calls. `Ring`: 3 nodes of 0 to 5 buckets, one id all share, all keys |
| `algorithms` | `LZF`: `RoundTrip`; `OptParse`: `ParsedRight`, `CompletionAgrees`; `URL`: `Unquoted`; `Acceptable`: `PreferenceRight`; `BitSet`: `BitsRight`; `Prime`: `PicksRight`; `Password`: `KeyStandard`, `Validates`; `Iron`: `IronKept` | the inputs listed in `MCAlgorithms`, see below |
| `optparse_required` | violation of `RequiredRaised` (section 5) | 2 options, up to 3 arguments |
| `accept_rfc` | violation of `AcceptsByRfc` (section 5) | 5 keys, headers of up to 2 parts, 5 names, 3 weights |

**Why the bounds are enough.** Three goroutines let a Log, a Flush and a Close be in
progress at once, and two Closes or Flushes meet; a queue of 2 with 3 entries fills,
drains and reorders if it can; a queue of 0 is the unbuffered channel. Three starts of
two process IDs give a holder, a competitor and a process with the ID of one that is
gone; two signals overflow a notifier of 1. One entry reused by a second call while an
asynchronous handler still has it takes two calls; three allow the pool to be wrong
twice. Two concurrent tree calls with a third before or after cover a Log or Flush
overtaken by a Close, and two Closes at once. In `handler_tree` one of the streams of
the larger trees never fails (`reliable`), to keep the failures few.

A bucket number of 5 takes two words of one digest and one each of three more; that the two
loops of `add` make as many buckets as asked for is proved for every number (`MadeIs`). Four references let the counter wrap onto references in use.
Three keys in one bucket are what a `Delete` needs to hang, and a fourth in another shows
that it is left alone. The six keys of `PrefixTree` hold every relation of two labels:
equal, prefix, common prefix, nothing in common.

In `algorithms`, `LZF` has control bytes of 4 and bytes of 3 values in the place of 32 and 256, so
that inputs of 10 to 24 bytes reach the largest offset (12), the extended length (from 2 on)
and the longest reference (6); its inputs are all bit strings of 4, 5 and 10, periodic
ones, which overlap themselves, and ones that repeat a prefix at every distance around the
largest; those of 28 bytes are as long as `MaxSize`, and refused. `OptParse` has four tables, with an option without a value, one for a number that
is required, one hidden, one that shadows another, two that share one of their flags, and
up to 4 arguments. `URL` has every
single byte and all short texts over the bytes that are special. `Acceptable` has headers of up to
3 parts with weights missing, zero, half, too large, unparsable and repeated, the rules of all
four keys, and a key without rules; one value is asked for twice. A negative weight and one that is no number, which
`ParseFloat` reads, are outside the model. `BitSet` has words of two bytes of two bits, sizes of 0, a part of a word, one word, more than
one, and one that overflows. `Prime` has all bounds around a table of 6. `Password` has key
lengths of nothing, less than a digest, twice a digest and more. `Iron` has values with
colons at every place and a clock of 5.

**Fairness.** `AsyncHandler`: weak fairness of the worker, because the Go scheduler
runs every runnable goroutine; strong fairness of each call, because `select` chooses
among its ready cases at random, so a case that is ready again and again is taken. No
application goroutine has to make a call. `ProcessLock`: weak fairness of the signal
goroutine only. The other modules state no liveness.

**Deadlock** checking is off: a behaviour ends when the bounded calls are
used up, and the liveness properties say which calls must have returned.

## 4. The proofs

All proofs are for any constants that satisfy the modules' assumptions (types of the
constants, an ascending table of primes, as many digests of a node as its buckets
take, and a call of `HaltFlagParsing` that names a word or a number): any number of
goroutines, processes, loggers, handlers, entries and calls, any queue size, any input.

Where a module's `TypeOK` is in no run, it is because its theorem `TypeCorrect` says more.

* `AsyncHandlerProofs`. `TypeCorrect`. `FIFO`: `sent = handled \o InHand \o queue` is
  inductive as it stands and needs no bound on Close calls. `Coordinated`: the
  properties about one Close are not inductive; `Coordination` adds how far the Close
  and the worker have got (`ClosePhases`), that there is only one (`OneClose`), that a
  flush that is waited for is pending or done (`FlushPhases`) and that the snapshots
  calls have taken lie within what was sent (`Snapshots`). `CloseSafe` (`CloseSafety`, which is
  `CloseDrains`, `NoUseAfterClose` and `OnlyLogAndFlushPanic`) and `FlushIsBarrier`
  follow from it. `ShutdownOrderly` (`OrderlyShutdown`) adds that nothing is accepted any
  more once an orderly application has called Close (`Quiet`). `ImplementsLogSink`: the initial state maps to LogSink's, and every
  step to one of LogSink's or a stutter, again from the invariant.
* `ProcessLockProofs`. `TypeCorrect`. `LockInvariant`: mutual exclusion needs that a
  holder's link is its own (`OwnLink`), that whoever is about to remove a link removes
  its own (`Releasing`), that handlers run only in the goroutine of the program's one
  route (`OnRoute`) and that a process that has still to release holds
  (`StillHeld`). `LockExclusive` and `LockNotStolen` follow. The hypothesis `OneRoute`
  cannot be dropped: `process_race` shows what happens without it. `ExitsClean`
  (`CleanExit`) needs no such hypothesis: after `Init` both handler lists contain Release
  (`Ready`), and a goroutine that has got to a handler has the effects of those before it
  (`Progress`), whatever the other one does. `PidFileRight` (`PidFileExact`): the PID
  file is empty or as long as a process ID, so that writing one overwrites it all
  (`PidWhole`), and by the lock invariant only the holder writes it.
* `LoggerProofs`. `TypeCorrect`, `PoolOwnership` (`PoolExclusive`) and `NoGarbling`
  (`EntryIntact`, `HandlersSeeCall`). The invariant adds `Bookkeeping` (entries of
  calls in progress are entries, and no record is of a future call) to the three.
  `Propagates` (`Propagation`): loggers are made below others and never moved (`Tree`), a
  call that is at a logger has passed its entry to the handlers on the path below it and to
  no others (`Walk`), and one that has returned, to all (`Returned`); new loggers change no
  path that was there, and while a call is under way nothing is set.
* `HandlerTreeProofs`. `TypeCorrect`; `ClosedIsFinal`, from the fact that a stream answers
  nothing but an error once it is closed; `ClosesAll` (`CloseComplete`), `FlushesAll`
  (`FlushCovers`) and `Silent` (`SilentAfterClose`), for any trees. Close and Flush walk
  the tree alike, so one invariant, `WalkInv`, serves both: `Done(c)` are the streams for
  which call `c` has done what it is for, and `Claims` the answers by which it says
  so (a Close always, a Flush by nil). The frames of a stack are a path from the root
  (`Paths`), a frame that claims so has reached all below the children its loop has passed
  (`Passing`), and a call that returned, all below the root (`Arrived`). What is below a
  handler is defined without recursion (`Below`: what every set has that has the handler
  and comes with its kids), so that no induction over the tree is needed: a handler is
  reached when its kids are (`ReachedByKids`).

  `LogsRight` (`LogOutcome`) compares with recursive functions over the tree, `Outcome` and
  `Offered`. That these are what their definitions say (`JudgedIs`, `OfferedByIs`) is shown
  by induction on the numbers of the handlers (`NumberLemmas`): a set of handlers for which
  something fails has a least and a greatest. The
  invariant `LogInv` says where a call has been (`Been`, a closure): a handler on the stack
  has called the kids its loop has passed, any other those it stands for; the streams that
  have answered are those (`Asked`), and a loop's `err` is what its kids are worth
  (`Heard`). A call starts no handler it has been at (`DeeperBeen`), and when a method
  returns it has been where it would be without it (`PopBeen`). So a stream that is being
  called has not been visited by that call before, and the count of its visits is 1 once it has
  answered and 0 before (`Counted`). Two hypotheses: there
  are finitely many handlers (`Bounded`), and none is given to two others (`Unshared`). The
  second is needed, because a stream that two handlers share is called twice; the trees of the run satisfy it (`NoneShared`), and so does every tree a program
  builds without using a handler twice.
* `StructureProofs`. `RefMap`: `MapsInverse` (`Inverses`) and `FreshReferences`, from `Counting`:
  what was made lies between 0 and `lastRef` as long as the counter has not wrapped. Every method is a `Make` or a `Drop`
  (`NextCases`).

  `Dict`: `ImplementsKeyedMap` (`ImplementsMap`), for any hash function: the table is
  a relation between keys and values (`Holds`), a call is described by what it adds to
  it (`Sets`) or takes from it (`Loses`), and `Chains` makes it a function. That the
  keys are finitely many is part of the invariant, because sizes are compared.

  `Ring`, for any nodes, any digests and numbers of buckets, and whatever the sort makes of
  ids that two nodes share. The operators are not taken as they stand: what each returns is a
  lemma. `Sort` and `WithoutNode` list by places, which are a bijection because the order is
  total (`PlacesBijection`, `ListedIs`), so the result is sorted (`SortIs`, `WithoutSorted`) and has the
  same buckets (`SortHas`, `WithoutHas`), as many of each node (`CountSorted`,
  `CountWithout`). What the recursive functions compute is by induction over the turns of the
  loop (`MakingIs`, `FindingIs`) or the length of the range that is searched (`SearchingIs`).
  - `Shape` (`RingShape`): it is inductive with the type of `asked`.
  - `FindsNearest` (`FindNearest`): the search ends at the first bucket that is not below the
    key, or at the first of all (`SearchIs`), because a range always has all lower ids before it
    and none behind it.
  - `FindsSuccessors` (`Successors`): after k buckets the walk has found each node among
    them once, in the order in which they come, or as many as it is to (`FoundNodes`); after all of
    them it has been everywhere (`OnwardIs`), so the number is that of the nodes
    (`FindsNodes`). The walks for `count` and `count + 1` find the same until the
    first has enough (`Begins`).
  - `MovesLittle` (`MinimalMovement`): a step that changes one node leaves exactly the buckets of
    the others (`OthersStay`). If the nodes a key had and has are both others, each had
    its nearest bucket before and after, so their ids are the same: they share the nearest id
    (`KeysMove`).
  - `NextTakesOver` (`Takeover`): the second node is the first other one of the walk
    (`SecondIs`), so its bucket is the first that is left at or behind the key when the
    first node's are gone (`TakesOver`).
* `TreeProofs`, about `PrefixTree`, for any keys, values and number of calls.
  - `TreeIsWellFormed`: `TreeInv`, the inductive invariant. In every tree, odd ones too, nodes are
    labels, values and children that are nodes (`HeapTyped`). A tree without mishaps also
    stands for the map (`Standing`): some of its nodes, the root among them, have a string
    each, a child's is its parent's followed by its label, no two have the same, a node's
    children differ in their first characters (`Radix`); and a node has the value the map gives
    its string, and every key of the map is the string of one (`Held`). Which string a
    node has is not part of the state, so each step names the new ones: those of the new nodes are
    the key, or what a cut leaves of a label (`ValueSet`, `Grown`, `Split`, `Pruned`).
  - `TreeIsMap` (`Agrees`). On the way down a tree that stands for a map, what has been taken of the
    key is the string of the node that was reached (`At`, `WayAt`), so `Lookup` finds the
    key's node, or there is none (`EndAt`, `NotFound`, `LookupIs`). Without mishaps
    an `Insert` ends at the first way down, with a value replaced, a leaf added or a node cut
    there (`FoundStands`, `StuckStands`, `ApartStands`), and a `Delete` unlinks no node above one
    that has a value (`DeleteStands`).
  - `TreeMatches` (`MatchesAgree`), in any tree. The way of a prefix of the key is that of the key,
    turn by turn, until it has taken the prefix (`WaysTogether`). The turn with which the key
    leaves the prefix behind decides what `Lookup` of the prefix finds (`TurnAnswers`): the value of the
    node, if the turn ends with the prefix, nothing, or a panic if the key's way panics.
    What `MatchPrefix` collects are the values at just these turns, and each leaves less of the
    key than the one before (`Gathered`).
* `AlgorithmProofs`. `Prime`: `PicksFromRange` (`PicksRight`): each scan stops at the first index
  that its bound does not cover, and the table is ascending.

  `Iron`: `IronIsKept` (`IronKept`), from the assumption that characters are no
  numbers (they lie above `MaxTime`): the first colon of a stamped value ends the stamp,
  whatever colons follow. Messages of different names may be equal; the theorem needs
  only those of the name it was made with.

  `Password`: `KeyIsStandard` (`KeyStandard`): the XOR of a block, so far, is the set of its
  terms up to the round (`InBlock`), and the blocks before it are complete
  (`BetweenBlocks`); a byte of the key is in one block only. `SecretValidates` (`Validates`): the
  password has the key of its own iterations and length (`Kept`), whatever the settings
  have become, and two keys of one secret and one hash function are equal.

  `OptParse`: `ArgumentsRead` (`ParsedRight`), for any table of options, any halting word and
  any arguments. There is always a reading of the arguments that were passed (`Reads`), which each
  turn of the loop extends by one (`WordTaken`) or two (`FlagTaken`), and what it says of
  them does not change when it goes on (`LongerFits`). `CompletionIsParsing`
  (`CompletionAgrees`): what the scan of the words has seen follows that reading argument by
  argument (`Follows`), until the parsing is halted. That options which share a flag have to
  be excepted from the property came out in this proof (section 5).

  `BitSet`: `BitsAreMembers` (`BitsRight`), for any width of a word and any size: a bit is
  in one word and has one rest, and byte n of the string is a part of word `Holder(n)`.

  `Acceptable`: `ValuesPreferred` (`PreferenceRight`), for any header, under any key, whose weights
  are numbers and not negative, and any values. The options are those of the header's parts (`AllListed`), sorted so that an
  option never stands before one of more weight, or of the same weight that says more
  (`OrderIs`); so the best that is said of a value is said by the first option that matches it
  (`BestIs`), and what one option adds comes after what the options before it have added
  (`Gathered`). Nothing is lost where `FindPreferred` stops: behind a zero all weights are zero,
  and a wildcard has taken every value (`NoMore`). That this is the RFC's answer but for the three
  cases follows from which parts cover a value and which of these have a weight (`WeighedIs`,
  `RfcIs`). `Accepts` takes no other values, and the same ones if no coding `identity` with
  a weight is listed (`AcceptsIs`).

  `LZF`: `CompressedComesBack` (`RoundTrip`), for any input, hash table and field
  widths. What is written is a chain of units (`Unit`: literals, or a reference), each of
  which stands for the next bytes of the input; a reference stands for them because
  the bytes it points back to are equal one by one (`MatchLength`). `Coded` says that such a chain
  leads from the first cell to the reserved one, and the literals behind it are the last bytes
  read; it survives every step of `Compress` because a unit depends on its own cells only.
  The hash table only proposes places, so nothing is asked of it but that it holds
  earlier ones. `Decompress` is at some point of the chain all the time and has
  written what came before it; where the end was cut off it runs out of cells
  inside a unit, and refuses. That a byte of a reference that overlaps itself is the
  one it should be is arithmetic about remainders (`ModAgain`).

  `URL`: `QuotedComesBack` (`Unquoted`), for any bytes and safe characters. Both halves know where
  the turns of their second loop begin: in the text that is written (`Steps`), whose
  length the counter of the first loop gives, and in the text that is read (`Way`), by the same
  argument. A text that was quoted is laid out in codes (`Coding`: the byte itself, "+", or
  "%" and two digits), and because none of them begins inside another, the second loop
  meets each code at its first byte and writes the byte it stands for (`Unquoting`).
* `NumberLemmas` is what the others share: division, and induction over numbers. The library's
  induction theorems take an operator as a parameter, which the provers cannot instantiate;
  here induction speaks of a set of numbers (`Least`, `Greatest`, `Induct`, `InductTo`),
  and the existence of a recursive function of a step that descends (`Recursed`), or goes
  on from its last value (`Iterated`).

Every safety property of the passing runs is a theorem. Only model-checked: liveness (the
provers do not handle fairness), and that the states the theorems speak of are met at all, of
which the runs are witness.

## 5. What the checks found

* `async_close_hangs` — `Close` may wait for ever. The worker looks at `stop` only when
  no flush is pending and only after a channel operation (`handler.go` 95-112). If
  Close's request arrives while a Flush waits for the queue to drain, the worker
  answers the Flush, goes back to `select`, and nothing wakes it again.
* `process_race` — the lock does not exclude when a program has two ways to release
  it. A signal while `Exit` runs the handlers releases the lock twice; in between
  another process has taken it, and a third may now take it too.
* `process_pid` — the PID file is opened without `O_TRUNC`, so a PID with fewer digits
  leaves digits of the one before.
* `optparse_required` — without any arguments `Parse` returns (`optparse.go` 460) before
  it checks the required options (575), although `Required` promises an error (268).
* `accept_rfc` — `Acceptable` says that it follows RFC 2616, section 14 (`httputil.go` 56-57), and
  departs from it in three ways. Options are sorted by weight first, so a part with a weight
  overrides the zero of a more specific one (`fr;q=0, *;q=0.5` accepts `fr`; 14.1 lets the
  most specific decide, and a `*` covers only what is not listed). `iso-8859-1` is added with weight 1
  although a `*;q=0` covers it (14.2). And `identity` is refused by an Accept-Encoding that lists other
  codings only, where 14.3 accepts it unless it is refused. `PreferenceRight` says that there is no
  fourth, for the parts that cover a value in the code; the parameters of a media range, and that
  a language range of two tags covers those below it (14.4), are not read at all, and an
  empty Accept-Encoding is taken for a missing one.

Behaviour worth knowing that contradicts no document: two Flushes of an asynchronous
handler that meet share one acknowledgement, and one of them waits until the handler is
closed (the runs let one goroutine flush where they ask whether Flush returns); an
entry accepted between the worker's last look at the queue and `close(queue)` is lost
(`CloseDrains` speaks of entries accepted before Close); a multi handler reports no
error, so that a failover above it never fails over (`LogOutcome`); a signal handled
before `Init` returns leaves the lock behind (`CleanExit`); a crash does, too, and
nothing ever removes it. The goroutine that flushes a stream ends at the first flush that
succeeds (`stream.go` 153).

In the other packages:

* `refmap`: `Incr` and `Decr` count in a copy (line 84), so a string's references never
  add up, and the string goes when `Decr` is called with its first count.
* `Dict`: see `DeleteKey` above; `Size` counts dropped keys for ever. The table keeps the
  caller's slice as its key (line 103), outside the model, where keys are values.
* `PrefixTree` (`mishaps`): inserting a proper prefix of a label makes a child with an empty
  label, at which later calls panic ("empty"); after its place was found `Insert` goes on
  with the root's next children, and may insert the key a second time ("stray");
  `Delete` climbs past nodes that have values and may remove one above them with all its
  keys ("pruned"). `Agrees` speaks of trees to which none of this has happened,
  `MatchesAgree` of all.
* `optparse`: completion and `Parse` read the words with different loops. Completion does
  not skip the value of a hidden option, halts by number only at exactly that number (384),
  completes a value when the last word looks like a flag, and, because an option with one
  flag only leaves the empty string among the flags seen (440, 448), hides all other
  options of one flag; it also hides an option that shares one of its two flags with one that
  was used. `CompletionAgrees` excepts these. Of two options with one flag
  the later one wins.
* `httputil`: a weight that does not parse is 0; the coding `identity` hides the options behind it
  from `Accepts` but not from `FindPreferred`.
* `bitset`: a size within a word of the largest uint rounds up to nothing.
* `crypto`: a duration that takes the stamp past the largest int64 makes an iron string
  that has expired when it is made.

## 6. What is not modelled

* `log`: contexts (`New` drops its argument), `slicePool` (its buffers are copied before
  they go back), the text of entries and formatters, `Rotate` and `Filter` (without
  effect in the code), the stream buffer (never written to), asynchronous handlers
  inside a handler tree (section 7). A program that uses an entry again after `LogEntry`
  is outside the model.
* `process`: `SetSignalHandler` and handlers for other signals; failures of system
  calls other than `link`; the data race on `SignalHandlers`, beyond the runtime ending
  the process (`Die`); `GetIP`, `GetAddr`, `GetAddrListener`, which are network calls.
* `optparse`: `PrintUsage`, default values, the completers a program supplies, the shell's
  variables, and `Commands`, which calls a function by its name.
* `refmap`, `Dict`, `PrefixTree`, `BitSet` and `Acceptable` have no locks, and are modelled as used
  by one goroutine at a time. `refmap_test.go` (41-60) shares one map between goroutines, which is a
  data race on Go maps (the runtime may end the program at it): what then happens is outside
  the model.
* `httputil`: weights that are negative or no numbers.
* `decimal`: wrappers of `math/big` without state of their own. (`Format`, line 36, trims the
  characters "0." from the right, and so prints 10 as 1: an expression of layout, which a
  unit test would show.)
* `fsutil`, `tlsconf`: file system and TLS calls with no state of their own.
* `prime/numbers.go` and `gen-prime`: generated data. The table is 100009 of the 103955
  lines of the repository's Go code; no model can stand for its lines, and `Prime` is
  about any table.

## 7. What is left

* Asynchronous handlers inside a handler tree, each a `LogSink`: what a failover handler does
  with errors that come too late (`handler.go` 89 drops them) is a property of two layers.
* A program that uses an entry for two `LogEntry` calls, and handlers for other signals,
  registered while signals arrive (`process.go` 33).

----------------------------- MODULE ProcessLock -----------------------------
(***************************************************************************)
(* process/process.go: processes of one name that share a run directory.   *)
(* Init takes the lock by hard-linking <name>-<pid>.lock to <name>.lock,   *)
(* registers an exit handler that releases it and writes the PID file.     *)
(*                                                                         *)
(* A process has two goroutines: "main", which calls Init and later Exit,  *)
(* and "signal", which is handleSignals.  Exit and handleSignals both run  *)
(* the exit handlers: Release, registered by Lock, and before it in time,  *)
(* so after it in the list, the Flush that the log package registers.      *)
(* A step is one system call, or one write of the SignalHandlers map.      *)
(*                                                                         *)
(* The map is read and written without a lock; the Go runtime may end the  *)
(* process when that happens, which is a case of Die.  Lock is called once *)
(* per process.                                                            *)
(***************************************************************************)
EXTENDS Naturals, Sequences

CONSTANTS
  Procs,              \* the processes, by process ID
  Pid,                \* the decimal digits of each process ID
  Programs,           \* the ways the program may be written, see IsProgram
  NotifierCap,        \* the capacity of notifier (100)
  None,               \* no process
  MaxStarts, MaxSignals \* bounds: processes started, signals sent

\* A program may be signalled, call Exit, or call Release itself (its routes to
\* releasing the lock), and may set process.DisableDefaultExit.
Route == {"signal", "exit", "release"}
IsProgram(r) == r \in [routes : SUBSET Route, stays : BOOLEAN]

ASSUME ProcessAssumption ==
  /\ \A p \in Procs : Pid[p] \in Seq(0..9)
  /\ \A r \in Programs : IsProgram(r)
  /\ NotifierCap \in Nat
  /\ None \notin Procs
  /\ MaxStarts \in Nat
  /\ MaxSignals \in Nat

Signals == {"TERM", "INT", "HUP"}
Threads == {"main", "signal"}

VARIABLES
  program,    \* the program that is run
  status,     \* of each process: "new", "alive", "exited" or "dead"
  pc,         \* pc[p][t]: the next step of goroutine t of process p
  pending,    \* the contents of p's notifier channel
  registered, \* the signals whose handler list contains p's Release
  inited,     \* Init has returned nil in p
  held,       \* Lock has succeeded in p and no Release of it has begun
  flushed,    \* p has run the Flush handler
  afterInit,  \* history: no exit handlers began in p before Init returned
  files,      \* the processes whose <name>-<pid>.lock exists
  link,       \* the process whose file <name>.lock is a link to, or None
  pidFile,    \* the contents of <name>.pid
  starts, signals \* processes started and signals sent so far

memory == <<pc, pending, registered, inited, held, flushed, afterInit>>
disk   == <<files, link, pidFile>>
vars   == <<program, status, memory, disk, starts, signals>>

Routes             == program.routes
DisableDefaultExit == program.stays

Init ==
  /\ program \in Programs
  /\ status = [p \in Procs |-> "new"]
  /\ pc = [p \in Procs |-> [t \in Threads |-> "wait"]]
  /\ pending = [p \in Procs |-> <<>>]
  /\ registered = [p \in Procs |-> {}]
  /\ inited = [p \in Procs |-> FALSE]
  /\ held = [p \in Procs |-> FALSE]
  /\ flushed = [p \in Procs |-> FALSE]
  /\ afterInit = [p \in Procs |-> TRUE]
  /\ files = {}
  /\ link = None
  /\ pidFile = <<>>
  /\ starts = 0
  /\ signals = 0

At(p, t, l)   == status[p] = "alive" /\ pc[p][t] = l
Goto(p, t, l) == pc' = [pc EXCEPT ![p][t] = l]

----------------------------------------------------------------------------
(* Init and Lock, in the main goroutine *)

\* A process gets p as its ID; nothing of an earlier one is left in its memory.
Start(p) ==
  /\ status[p] # "alive"
  /\ starts < MaxStarts
  /\ status' = [status EXCEPT ![p] = "alive"]
  /\ pc' = [pc EXCEPT ![p] = [main |-> "create", signal |-> "wait"]]
  /\ pending' = [pending EXCEPT ![p] = <<>>]
  /\ registered' = [registered EXCEPT ![p] = {}]
  /\ inited' = [inited EXCEPT ![p] = FALSE]
  /\ held' = [held EXCEPT ![p] = FALSE]
  /\ flushed' = [flushed EXCEPT ![p] = FALSE]
  /\ afterInit' = [afterInit EXCEPT ![p] = TRUE]
  /\ starts' = starts + 1
  /\ UNCHANGED <<disk, signals>>

\* os.OpenFile(file, O_CREATE|O_WRONLY)
CreateFile(p) ==
  /\ At(p, "main", "create")
  /\ files' = files \cup {p}
  /\ Goto(p, "main", "link")
  /\ UNCHANGED <<status, pending, registered, inited, held, flushed, afterInit, link, pidFile,
                 starts, signals>>

\* Slip: os.Rename instead of os.Link, which replaces an existing lock.
LinkFileOverwrite(p) ==
  /\ At(p, "main", "link")
  /\ link' = p
  /\ held' = [held EXCEPT ![p] = TRUE]
  /\ Goto(p, "main", "setTERM")
  /\ UNCHANGED <<status, pending, registered, inited, flushed, afterInit, files, pidFile,
                 starts, signals>>

\* os.Link(file, link) succeeds
LinkFile(p) ==
  /\ At(p, "main", "link")
  /\ link = None
  /\ link' = p
  /\ held' = [held EXCEPT ![p] = TRUE]
  /\ Goto(p, "main", "setTERM")
  /\ UNCHANGED <<status, pending, registered, inited, flushed, afterInit, files, pidFile,
                 starts, signals>>

\* os.Link fails because the link exists
LinkExists(p) ==
  /\ At(p, "main", "link")
  /\ link # None
  /\ Goto(p, "main", "giveUp")
  /\ UNCHANGED <<status, pending, registered, inited, held, flushed, afterInit, disk, starts, signals>>

\* Slip: a failed Lock cleans up with Release.
GiveUpRelease(p) ==
  /\ At(p, "main", "giveUp")
  /\ files' = files \ {p}
  /\ link' = None
  /\ Goto(p, "main", "failed")
  /\ UNCHANGED <<status, pending, registered, inited, held, flushed, afterInit, pidFile,
                 starts, signals>>

\* os.Remove(file); Lock and Init return the error
GiveUp(p) ==
  /\ At(p, "main", "giveUp")
  /\ files' = files \ {p}
  /\ Goto(p, "main", "failed")
  /\ UNCHANGED <<status, pending, registered, inited, held, flushed, afterInit, link, pidFile,
                 starts, signals>>

\* SetExitHandler prepends Release to the handlers of SIGTERM ...
SetTermHandler(p) ==
  /\ At(p, "main", "setTERM")
  /\ registered' = [registered EXCEPT ![p] = @ \cup {"TERM"}]
  /\ Goto(p, "main", "setINT")
  /\ UNCHANGED <<status, pending, inited, held, flushed, afterInit, disk, starts, signals>>

\* Slip: only the handlers of SIGTERM are set.
SetIntHandlerNot(p) ==
  /\ At(p, "main", "setINT")
  /\ Goto(p, "main", "pid")
  /\ UNCHANGED <<status, pending, registered, inited, held, flushed, afterInit, disk, starts, signals>>

\* ... and then to those of os.Interrupt
SetIntHandler(p) ==
  /\ At(p, "main", "setINT")
  /\ registered' = [registered EXCEPT ![p] = @ \cup {"INT"}]
  /\ Goto(p, "main", "pid")
  /\ UNCHANGED <<status, pending, inited, held, flushed, afterInit, disk, starts, signals>>

\* What is in a file after s is written at its start: O_TRUNC is not set.
Overwrite(old, s) == s \o SubSeq(old, Len(s) + 1, Len(old))

\* CreatePidFile; Init returns
WritePid(p) ==
  /\ At(p, "main", "pid")
  /\ pidFile' = Overwrite(pidFile, Pid[p])
  /\ inited' = [inited EXCEPT ![p] = TRUE]
  /\ Goto(p, "main", "running")
  /\ UNCHANGED <<status, pending, registered, held, flushed, afterInit, files, link, starts, signals>>

----------------------------------------------------------------------------
(* Exit handlers, in either goroutine *)

\* The first step of the handlers of s: Release if it is there, then Flush.
Handlers(p, s) == IF s \in registered[p] THEN "rmFile" ELSE "flush"

\* Goroutine t starts to run them.
Begin(p, t, l) ==
  /\ Goto(p, t, l)
  /\ afterInit' = [afterInit EXCEPT ![p] = @ /\ inited[p]]

\* Exit runs the handlers of os.Interrupt.
Exit(p) ==
  /\ "exit" \in Routes
  /\ \E l \in {"running", "failed", "released"} : At(p, "main", l)
  /\ Begin(p, "main", Handlers(p, "INT"))
  /\ UNCHANGED <<status, pending, registered, inited, held, flushed, disk, starts, signals>>

\* The program calls Release on its lock.
Release(p) ==
  /\ "release" \in Routes
  /\ At(p, "main", "running")
  /\ Goto(p, "main", "releaseFile")
  /\ UNCHANGED <<status, pending, registered, inited, held, flushed, afterInit, disk, starts, signals>>

\* os.Remove(lock.file), its error dropped
RemoveFile(p, t) ==
  /\ \/ At(p, t, "rmFile") /\ Goto(p, t, "rmLink")
     \/ At(p, t, "releaseFile") /\ Goto(p, t, "releaseLink")
  /\ files' = files \ {p}
  /\ held' = [held EXCEPT ![p] = FALSE]
  /\ UNCHANGED <<status, pending, registered, inited, flushed, afterInit, link, pidFile, starts, signals>>

\* os.Remove(lock.link), whosever link it is by now
RemoveLink(p, t) ==
  /\ \/ At(p, t, "rmLink") /\ Goto(p, t, "flush")
     \/ At(p, t, "releaseLink") /\ Goto(p, t, "released")
  /\ link' = None
  /\ UNCHANGED <<status, pending, registered, inited, held, flushed, afterInit, files, pidFile,
                 starts, signals>>

\* log.Flush; after the last handler Exit exits, and so does handleSignals
\* unless DisableDefaultExit is set
AfterHandlers(t) == IF t = "signal" /\ DisableDefaultExit THEN "wait" ELSE "exit"

Flush(p, t) ==
  /\ At(p, t, "flush")
  /\ flushed' = [flushed EXCEPT ![p] = TRUE]
  /\ Goto(p, t, AfterHandlers(t))
  /\ UNCHANGED <<status, pending, registered, inited, held, afterInit, disk, starts, signals>>

\* os.Exit
OsExit(p, t) ==
  /\ At(p, t, "exit")
  /\ status' = [status EXCEPT ![p] = "exited"]
  /\ UNCHANGED <<memory, disk, starts, signals>>

----------------------------------------------------------------------------
(* Signals and death *)

\* signal.Notify: a signal that finds notifier full is dropped.
Notify(p, s) ==
  /\ "signal" \in Routes
  /\ status[p] = "alive"
  /\ signals < MaxSignals
  /\ signals' = signals + 1
  /\ pending' = IF Len(pending[p]) < NotifierCap
                THEN [pending EXCEPT ![p] = Append(@, s)] ELSE pending
  /\ UNCHANGED <<status, pc, registered, inited, held, flushed, afterInit, disk, starts>>

\* Slip: the loop goes on without running the handlers.
HandleSignalNoHandlers(p) ==
  /\ At(p, "signal", "wait")
  /\ pending[p] # <<>>
  /\ pending' = [pending EXCEPT ![p] = Tail(@)]
  /\ IF Head(pending[p]) \in {"TERM", "INT"} THEN Begin(p, "signal", "exit")
     ELSE UNCHANGED <<pc, afterInit>>
  /\ UNCHANGED <<status, registered, inited, held, flushed, disk, starts, signals>>

\* Slip: the handlers are run for SIGTERM only, and so is the default exit.
HandleSignalTermOnly(p) ==
  /\ At(p, "signal", "wait")
  /\ pending[p] # <<>>
  /\ pending' = [pending EXCEPT ![p] = Tail(@)]
  /\ IF Head(pending[p]) = "TERM" THEN Begin(p, "signal", Handlers(p, "TERM"))
     ELSE UNCHANGED <<pc, afterInit>>
  /\ UNCHANGED <<status, registered, inited, held, flushed, disk, starts, signals>>

\* sig = <-notifier: the handlers of SIGTERM and os.Interrupt run, if any
HandleSignal(p) ==
  /\ At(p, "signal", "wait")
  /\ pending[p] # <<>>
  /\ pending' = [pending EXCEPT ![p] = Tail(@)]
  /\ LET s == Head(pending[p])
     IN  IF s \in {"TERM", "INT"} THEN Begin(p, "signal", Handlers(p, s))
         ELSE UNCHANGED <<pc, afterInit>>
  /\ UNCHANGED <<status, registered, inited, held, flushed, disk, starts, signals>>

\* The process ends without its handlers: SIGKILL, a panic, a fatal error of the
\* runtime, or main returning.
Die(p) ==
  /\ status[p] = "alive"
  /\ status' = [status EXCEPT ![p] = "dead"]
  /\ UNCHANGED <<memory, disk, starts, signals>>

----------------------------------------------------------------------------

InitSteps(p) ==
  \/ CreateFile(p) \/ LinkFile(p) \/ LinkExists(p) \/ GiveUp(p)
  \/ SetTermHandler(p) \/ SetIntHandler(p) \/ WritePid(p)

HandlerSteps(p, t) == RemoveFile(p, t) \/ RemoveLink(p, t) \/ Flush(p, t) \/ OsExit(p, t)

Step(p) ==
  \/ Start(p) \/ InitSteps(p) \/ Exit(p) \/ Release(p)
  \/ \E t \in Threads : HandlerSteps(p, t)
  \/ \E s \in Signals : Notify(p, s)
  \/ HandleSignal(p) \/ Die(p)

Next == \E p \in Procs : Step(p) /\ UNCHANGED program

Spec == Init /\ [][Next]_vars

\* The Go scheduler runs the signal goroutine whenever it can run.
Fairness ==
  \A p \in Procs : WF_vars((HandleSignal(p) \/ HandlerSteps(p, "signal")) /\ UNCHANGED program)

FairSpec == Spec /\ Fairness

----------------------------------------------------------------------------
(* Properties *)

Labels ==
  {"wait", "create", "link", "giveUp", "failed", "setTERM", "setINT", "pid", "running",
   "releaseFile", "releaseLink", "released", "rmFile", "rmLink", "flush", "exit"}

TypeOK ==
  /\ IsProgram(program)
  /\ status \in [Procs -> {"new", "alive", "exited", "dead"}]
  /\ pc \in [Procs -> [Threads -> Labels]]
  /\ pending \in [Procs -> Seq(Signals)]
  /\ \A p \in Procs : Len(pending[p]) <= NotifierCap
  /\ registered \in [Procs -> SUBSET Signals]
  /\ inited \in [Procs -> BOOLEAN]
  /\ held \in [Procs -> BOOLEAN]
  /\ flushed \in [Procs -> BOOLEAN]
  /\ afterInit \in [Procs -> BOOLEAN]
  /\ files \subseteq Procs
  /\ link \in Procs \cup {None}
  /\ pidFile \in Seq(0..9)
  /\ starts \in Nat
  /\ signals \in Nat

Holds(p) == status[p] = "alive" /\ held[p]

\* "we only have one process of any given name running": two live processes
\* never both have acquired and not released the lock.
OneProcess == \A p, q \in Procs : Holds(p) /\ Holds(q) => p = q

\* The lock does exclude, whatever processes exit, crash or reuse a process ID in
\* between, in a program with one way to release it, which it uses once.
OneRoute ==
  /\ \A r, s \in Routes : r = s
  /\ "signal" \in Routes => ~ DisableDefaultExit

MutualExclusion == OneRoute => OneProcess

\* The invariant behind it: the holder's link is its own, whoever is about to
\* remove a link removes its own, handlers run only on the program's route, and a
\* process that may still come to release its lock holds it.
OwnLink == \A p \in Procs : Holds(p) => link = p

Releasing ==
  \A p \in Procs, t \in Threads :
    /\ At(p, t, "rmFile") \/ At(p, t, "releaseFile") => held[p]
    /\ At(p, t, "rmLink") \/ At(p, t, "releaseLink") => link = p /\ ~ held[p]

OnRoute ==
  \A p \in Procs : status[p] = "alive" =>
    /\ pending[p] # <<>> \/ pc[p]["signal"] # "wait" => "signal" \in Routes
    /\ pc[p]["signal"] \in {"wait", "rmFile", "rmLink", "flush", "exit"}
    /\ pc[p]["main"] \in {"rmFile", "rmLink", "flush", "exit"} => "exit" \in Routes
    /\ pc[p]["main"] \in {"releaseFile", "releaseLink", "released"} => "release" \in Routes

StillHeld ==
  \A p \in Procs : status[p] = "alive" =>
    /\ pc[p]["main"] \in {"create", "link", "giveUp", "failed", "setTERM"} => registered[p] = {}
    /\ pc[p]["main"] # "wait"
    /\ pc[p]["signal"] = "wait" /\ pc[p]["main"] \in {"setTERM", "setINT", "pid", "running"}
         => held[p]

LockDiscipline == OwnLink /\ Releasing /\ OnRoute /\ StillHeld

LockInv == OneRoute => LockDiscipline

\* A process that gives up, or exits, never takes away the lock another live
\* process holds, in a program with one way to release the lock.
LockKept ==
  [][OneRoute => \A p \in Procs : Holds(p) /\ link = p /\ held'[p] => link' = p]_vars

\* A process that exits through Exit or a signal leaves no lock behind, even when
\* both run its handlers at once, provided the exit began after Init returned.
\* (A signal handled before that looks up a handler list without Release.)
ExitReleases ==
  \A p \in Procs : status[p] = "exited" /\ afterInit[p] => link # p /\ p \notin files

\* "Flush logs on exit": no exit skips the Flush handler, even when both
\* goroutines run handlers and one of them exits first.
ExitFlushes == \A p \in Procs : status[p] = "exited" => flushed[p]

\* Whoever ends a process, the log is flushed and, after Init, the lock is released.
CleanExit == ExitReleases /\ ExitFlushes

\* While a process holds the lock and its Init has returned, the PID file is its
\* process ID and nothing else.
PidFileNamesHolder == \A p \in Procs : Holds(p) /\ inited[p] => pidFile = Pid[p]

\* That is so, whatever crashed or failed to lock before, in a program that is not
\* signalled and with process IDs of one length.
PidFileExact ==
  Routes = {"exit"} /\ (\A p, q \in Procs : Len(Pid[p]) = Len(Pid[q])) => PidFileNamesHolder

\* A SIGTERM or SIGINT that was not dropped ends the process, unless it disabled
\* the default exit.
TermEnds ==
  \A p \in Procs :
    status[p] = "alive" /\ (\E i \in 1..Len(pending[p]) : pending[p][i] \in {"TERM", "INT"})
      ~> status[p] # "alive" \/ DisableDefaultExit
=============================================================================

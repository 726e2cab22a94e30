-------------------------- MODULE ProcessLockProofs --------------------------
(***************************************************************************)
(* Machine-checked proofs about ProcessLock, for any number of processes,  *)
(* restarts, crashes and signals.                                          *)
(***************************************************************************)
EXTENDS ProcessLock, SequenceTheorems, TLAPS

USE DEF memory, disk

----------------------------------------------------------------------------
(* The type invariant *)

LEMMA OverwriteType ==
  ASSUME NEW old \in Seq(0..9), NEW s \in Seq(0..9)
  PROVE  Overwrite(old, s) \in Seq(0..9)
<1>1. Len(s) \in Nat /\ Len(old) \in Nat
  BY LenProperties
<1>2. \A i \in Len(s) + 1 .. Len(old) : old[i] \in 0..9
  BY <1>1, ElementOfSeq
<1>3. SubSeq(old, Len(s) + 1, Len(old)) \in Seq(0..9)
  BY <1>1, <1>2, SubSeqProperties
<1> QED
  BY <1>3, ConcatProperties DEF Overwrite

\* Processes come and go; the program they run stays the same.
LEMMA ProgramFixed == [Next]_vars => program' = program
  BY DEF Next, vars

\* A goroutine that goes to a label keeps the program counters well typed.
LEMMA GotoType ==
  ASSUME TypeOK, NEW p \in Procs, NEW t \in Threads, NEW l \in Labels, Goto(p, t, l)
  PROVE  pc' \in [Procs -> [Threads -> Labels]]
<1>1. pc[p] \in [Threads -> Labels]
  BY DEF TypeOK
<1>2. [pc[p] EXCEPT ![t] = l] \in [Threads -> Labels]
  BY <1>1
<1>3. pc' = [pc EXCEPT ![p] = [pc[p] EXCEPT ![t] = l]]
  BY DEF Goto
<1> QED
  BY <1>2, <1>3 DEF TypeOK

\* Every step of every process keeps the state well typed.
LEMMA TypeStep == TypeOK /\ [Next]_vars => TypeOK'
<1> SUFFICES ASSUME TypeOK, [Next]_vars PROVE TypeOK'
  OBVIOUS
<1> USE ProcessAssumption DEF TypeOK
<1> IsProgram(program)'
  BY ProgramFixed DEF IsProgram
<1> DEFINE Typed(x) == x \in [Procs -> [Threads -> Labels]]
<1>0. /\ "main" \in Threads /\ "signal" \in Threads
      /\ \A p \in Procs, t \in Threads, l \in Labels : Goto(p, t, l) => Typed(pc')
  BY GotoType DEF Threads
<1> HIDE DEF Typed
<1>1. CASE UNCHANGED vars
  BY <1>1 DEF vars
<1>2. ASSUME NEW p \in Procs, Start(p) PROVE TypeOK'
  <2>1. [main |-> "create", signal |-> "wait"] \in [Threads -> Labels]
    BY DEF Threads, Labels
  <2>2. <<>> \in Seq(Signals) /\ Len(<<>>) = 0
    BY EmptySeq
  <2> QED
    BY <1>2, <2>1, <2>2 DEF Start
<1>3. ASSUME NEW p \in Procs, InitSteps(p) PROVE TypeOK'
  <2>0. Typed(pc')
    BY <1>0, <1>3 DEF InitSteps, CreateFile, LinkFile, LinkExists, GiveUp,
                      SetTermHandler, SetIntHandler, WritePid, Labels
  <2>1. CASE CreateFile(p) \/ LinkFile(p) \/ LinkExists(p) \/ GiveUp(p)
    BY <2>0, <2>1 DEF CreateFile, LinkFile, LinkExists, GiveUp, Typed
  <2>2. CASE SetTermHandler(p) \/ SetIntHandler(p)
    <3>1. registered[p] \cup {"TERM"} \in SUBSET Signals /\ registered[p] \cup {"INT"} \in SUBSET Signals
      BY DEF Signals
    <3>2. registered' \in [Procs -> SUBSET Signals]
      BY <2>2, <3>1 DEF SetTermHandler, SetIntHandler
    <3> QED
      BY <2>0, <2>2, <3>2 DEF SetTermHandler, SetIntHandler, Typed
  <2>3. CASE WritePid(p)
    <3>1. pidFile' \in Seq(0..9)
      BY <2>3, OverwriteType DEF WritePid
    <3> QED
      BY <2>0, <2>3, <3>1 DEF WritePid, Typed
  <2> QED
    BY <1>3, <2>1, <2>2, <2>3 DEF InitSteps
<1>4. ASSUME NEW p \in Procs, Exit(p) \/ Release(p) PROVE TypeOK'
  <2>1. Typed(pc')
    BY <1>0, <1>4 DEF Exit, Release, Begin, Handlers, Labels
  <2> QED
    BY <1>4, <2>1 DEF Exit, Release, Begin, Typed
<1>5. ASSUME NEW p \in Procs, NEW t \in Threads, HandlerSteps(p, t) PROVE TypeOK'
  <2>1. CASE OsExit(p, t)
    BY <2>1 DEF OsExit
  <2>2. CASE RemoveFile(p, t) \/ RemoveLink(p, t) \/ Flush(p, t)
    <3>1. Typed(pc')
      BY <1>0, <2>2 DEF RemoveFile, RemoveLink, Flush, AfterHandlers, Labels
    <3> QED
      BY <2>2, <3>1 DEF RemoveFile, RemoveLink, Flush, Typed
  <2> QED
    BY <1>5, <2>1, <2>2 DEF HandlerSteps
<1>6. ASSUME NEW p \in Procs, NEW s \in Signals, Notify(p, s) PROVE TypeOK'
  <2>1. /\ Append(pending[p], s) \in Seq(Signals)
        /\ Len(pending[p]) \in Nat /\ Len(Append(pending[p], s)) = Len(pending[p]) + 1
    BY <1>6, AppendProperties, LenProperties DEF Notify
  <2> QED
    BY <1>6, <2>1 DEF Notify
<1>7. ASSUME NEW p \in Procs, HandleSignal(p) PROVE TypeOK'
  <2>1. /\ Tail(pending[p]) \in Seq(Signals)
        /\ Len(Tail(pending[p])) <= NotifierCap
    BY <1>7, HeadTailProperties, LenProperties DEF HandleSignal
  <2>2. Typed(pc')
    <3>1. pc' = pc => Typed(pc')
      BY DEF Typed
    <3> QED
      BY <1>0, <1>7, <3>1 DEF HandleSignal, Begin, Handlers, Labels
  <2>3. /\ pending' \in [Procs -> Seq(Signals)]
        /\ \A q \in Procs : Len(pending'[q]) <= NotifierCap
    BY <1>7, <2>1 DEF HandleSignal
  <2>4. afterInit' \in [Procs -> BOOLEAN]
    BY <1>7 DEF HandleSignal, Begin
  <2> QED
    BY <1>7, <2>2, <2>3, <2>4 DEF HandleSignal, Typed
<1>8. ASSUME NEW p \in Procs, Die(p) PROVE TypeOK'
  BY <1>8 DEF Die
<1> HIDE DEF TypeOK
<1> QED
  BY <1>1, <1>2, <1>3, <1>4, <1>5, <1>6, <1>7, <1>8 DEF Next, Step

LEMMA TypeInit == Init => TypeOK
<1> SUFFICES ASSUME Init PROVE TypeOK
  OBVIOUS
<1>1. /\ pending \in [Procs -> Seq(Signals)] /\ pidFile \in Seq(0..9)
      /\ \A p \in Procs : Len(pending[p]) = 0
  BY EmptySeq DEF Init
<1> QED
  BY <1>1, ProcessAssumption DEF Init, TypeOK, Threads, Labels

\* The state of the processes and of the run directory is always well typed.
THEOREM TypeCorrect == Spec => []TypeOK
  BY TypeInit, TypeStep, PTL DEF Spec

----------------------------------------------------------------------------
(* Mutual exclusion *)

IInv == TypeOK /\ LockInv

LEMMA LockStep ==
  ASSUME OneRoute, IInv, [Next]_vars
  PROVE  LockDiscipline'
<1> USE ProcessAssumption DEF Goto, At, Threads
<1>0. TypeOK /\ TypeOK'
  BY TypeStep DEF IInv
<1>1. /\ status \in [Procs -> {"new", "alive", "exited", "dead"}]
      /\ \A q \in Procs : DOMAIN pc[q] = Threads
      /\ DOMAIN pc = Procs
      /\ held \in [Procs -> BOOLEAN] /\ registered \in [Procs -> SUBSET Signals]
      /\ Routes' = Routes
  BY <1>0, ProgramFixed DEF TypeOK, Routes
<1>2. LockDiscipline
  BY DEF IInv, LockInv
<1> USE DEF LockDiscipline, OwnLink, Releasing, OnRoute, StillHeld, Holds
<1>3. CASE UNCHANGED vars
  BY <1>1, <1>2, <1>3 DEF vars
<1>4. ASSUME NEW p \in Procs, Start(p) PROVE LockDiscipline'
  BY <1>1, <1>2, <1>4, <1>0 DEF Start, TypeOK
<1>5. ASSUME NEW p \in Procs, InitSteps(p) PROVE LockDiscipline'
  <2>1. CASE CreateFile(p) \/ LinkExists(p) \/ GiveUp(p)
    BY <1>1, <1>2, <2>1 DEF CreateFile, LinkExists, GiveUp
  <2>2. CASE LinkFile(p)
    BY <1>1, <1>2, <2>2 DEF LinkFile
  <2>3. CASE SetTermHandler(p) \/ SetIntHandler(p)
    <3>1. \A q \in Procs : registered'[q] = {} \/ q = p \/ registered'[q] = registered[q]
      BY <1>1, <2>3 DEF SetTermHandler, SetIntHandler
    <3>2. pc'[p]["main"] \in {"setINT", "pid"} /\ pc'[p]["signal"] = pc[p]["signal"]
          /\ \A q \in Procs \ {p} : pc'[q] = pc[q]
      BY <1>1, <2>3 DEF SetTermHandler, SetIntHandler
    <3>3. UNCHANGED <<status, link, held, pending>>
      BY <2>3 DEF SetTermHandler, SetIntHandler
    <3>4. pc[p]["main"] \in {"setTERM", "setINT"} /\ status[p] = "alive"
      BY <2>3 DEF SetTermHandler, SetIntHandler
    <3> QED
      BY <1>1, <1>2, <3>1, <3>2, <3>3, <3>4
  <2>4. CASE WritePid(p)
    BY <1>1, <1>2, <2>4 DEF WritePid
  <2> QED
    BY <1>5, <2>1, <2>2, <2>3, <2>4 DEF InitSteps
<1>6. ASSUME NEW p \in Procs, Exit(p) PROVE LockDiscipline'
  BY <1>1, <1>2, <1>6 DEF Exit, Begin, Handlers, OneRoute
<1>7. ASSUME NEW p \in Procs, Release(p) PROVE LockDiscipline'
  BY <1>1, <1>2, <1>7 DEF Release, OneRoute
<1>8. ASSUME NEW p \in Procs, NEW t \in Threads, HandlerSteps(p, t) PROVE LockDiscipline'
  <2>1. CASE RemoveFile(p, t)
    BY <1>1, <1>2, <2>1 DEF RemoveFile, OneRoute
  <2>2. CASE RemoveLink(p, t)
    BY <1>1, <1>2, <2>2 DEF RemoveLink, OneRoute
  <2>3. CASE Flush(p, t)
    BY <1>1, <1>2, <2>3 DEF Flush, AfterHandlers, OneRoute
  <2>4. CASE OsExit(p, t)
    BY <1>1, <1>2, <2>4 DEF OsExit
  <2> QED
    BY <1>8, <2>1, <2>2, <2>3, <2>4 DEF HandlerSteps
<1>9. ASSUME NEW p \in Procs, NEW s \in Signals, Notify(p, s) PROVE LockDiscipline'
  BY <1>0, <1>1, <1>2, <1>9 DEF Notify, TypeOK
<1>10. ASSUME NEW p \in Procs, HandleSignal(p) PROVE LockDiscipline'
  <2>1. "signal" \in Routes
    BY <1>2, <1>10 DEF HandleSignal
  <2>2. /\ At(p, "signal", "wait") /\ UNCHANGED <<status, registered, link, held>>
        /\ \A q \in Procs \ {p} : pending'[q] = pending[q]
    BY <1>0, <1>10 DEF HandleSignal, TypeOK
  <2>3. CASE UNCHANGED pc
    BY <1>1, <1>2, <2>1, <2>2, <2>3
  <2>4. ASSUME NEW s \in Signals, Goto(p, "signal", Handlers(p, s)) PROVE LockDiscipline'
    <3>1. pc[p]["main"] \in Labels
      BY <1>0 DEF TypeOK
    <3>2. /\ pc'[p]["main"] = pc[p]["main"]
          /\ pc'[p]["signal"] = Handlers(p, s)
          /\ \A q \in Procs \ {p} : pc'[q] = pc[q]
      BY <1>1, <2>4
    <3>3. s \in registered[p] => held[p]
      BY <1>2, <2>1, <2>2, <3>1 DEF OneRoute, Labels
    <3> QED
      BY <1>1, <1>2, <2>1, <2>2, <3>2, <3>3 DEF Handlers, OneRoute
  <2>5. UNCHANGED pc \/ \E s \in Signals : Goto(p, "signal", Handlers(p, s))
    BY <1>10 DEF HandleSignal, Begin, Signals
  <2> QED
    BY <2>3, <2>4, <2>5
<1>11. ASSUME NEW p \in Procs, Die(p) PROVE LockDiscipline'
  BY <1>1, <1>2, <1>11 DEF Die
<1> QED
  BY <1>3, <1>4, <1>5, <1>6, <1>7, <1>8, <1>9, <1>10, <1>11 DEF Next, Step

LEMMA InvariantStep == IInv /\ [Next]_vars => IInv'
<1> SUFFICES ASSUME IInv, [Next]_vars PROVE IInv'
  OBVIOUS
<1>1. TypeOK'
  BY TypeStep DEF IInv
<1>2. OneRoute' = OneRoute
  BY ProgramFixed DEF OneRoute, Routes, DisableDefaultExit
<1> QED
  BY <1>1, <1>2, LockStep DEF IInv, LockInv

LEMMA Invariant == Spec => []IInv
<1>1. Init => LockDiscipline
  BY DEF Init, LockDiscipline, OwnLink, Releasing, OnRoute, StillHeld, Holds, At
<1>2. Init => IInv
  BY <1>1, TypeInit DEF IInv, LockInv
<1> QED
  BY <1>2, InvariantStep, PTL DEF Spec

\* In a program with one way to release its lock (by being signalled, by calling
\* Exit, or by calling Release), the holder's link is always its own and only the
\* holder is ever about to remove it.
THEOREM LockInvariant == Spec => []LockInv
<1>1. IInv => LockInv
  BY DEF IInv
<1> QED
  BY <1>1, Invariant, PTL

\* Such a program never runs twice with the lock held, whatever processes fail to
\* lock, exit, crash or reuse a process ID.
THEOREM LockExclusive == Spec => []MutualExclusion
<1>1. IInv => MutualExclusion
  BY DEF IInv, LockInv, LockDiscipline, OwnLink, MutualExclusion, OneProcess
<1> QED
  BY <1>1, Invariant, PTL

\* In such a program a live holder keeps its lock until it releases it itself,
\* whatever other processes start, give up, exit or crash.
THEOREM LockNotStolen == Spec => LockKept
<1> DEFINE Kept ==
      OneRoute => \A p \in Procs : Holds(p) /\ link = p /\ held'[p] => link' = p
<1>1. ASSUME IInv, [Next]_vars PROVE Kept
  <2> SUFFICES ASSUME OneRoute
               PROVE  \A p \in Procs : Holds(p) /\ link = p /\ held'[p] => link' = p
    OBVIOUS
  <2>1. \/ link' = link
        \/ link = None
        \/ \E q \in Procs, t \in Threads : RemoveLink(q, t)
    BY <1>1 DEF Next, Step, vars, Start, InitSteps, CreateFile, LinkFile, LinkExists, GiveUp,
                SetTermHandler, SetIntHandler, WritePid, Exit, Begin, Release, HandlerSteps,
                RemoveFile, Flush, OsExit, Notify, HandleSignal, Die
  <2>2. ASSUME NEW q \in Procs, NEW t \in Threads, RemoveLink(q, t)
        PROVE  link = q /\ ~ held[q]
    BY <1>1, <2>2 DEF IInv, LockInv, LockDiscipline, Releasing, RemoveLink
  <2> QED
    BY <2>1, <2>2, ProcessAssumption DEF Holds
<1> QED
  BY <1>1, Invariant, PTL DEF Spec, LockKept

----------------------------------------------------------------------------
(* Exits *)

\* Once Init has returned, Release is a handler of both signals, and the main goroutine
\* does not lock again.
Ready ==
  \A p \in Procs : status[p] = "alive" /\ inited[p] =>
    /\ registered[p] = {"TERM", "INT"}
    /\ pc[p]["main"] \in {"running", "releaseFile", "releaseLink", "released", "rmFile", "rmLink",
                          "flush", "exit"}

\* Exits that all began after that have released when they flush, and those that exit
\* have flushed.
Progress ==
  \A p \in Procs, t \in Threads : status[p] = "alive" =>
    /\ pc[p][t] \in {"rmFile", "rmLink", "flush", "exit"} /\ afterInit[p] => inited[p]
    /\ pc[p][t] \in {"rmLink", "flush", "exit"} /\ afterInit[p] => p \notin files
    /\ pc[p][t] \in {"flush", "exit"} /\ afterInit[p] => link # p
    /\ pc[p][t] = "exit" => flushed[p]

\* Before a lock there is no release.
Unlocked ==
  \A p \in Procs : status[p] = "alive" /\ pc[p]["main"] \in {"create", "link", "giveUp", "failed", "setTERM"}
    => registered[p] = {}
Half ==
  \A p \in Procs : status[p] = "alive" /\ pc[p]["main"] = "setINT" => registered[p] = {"TERM"}
Whole ==
  \A p \in Procs : status[p] = "alive" /\ pc[p]["main"] = "pid" => registered[p] = {"TERM", "INT"}

ExitInv == TypeOK /\ Ready /\ Progress /\ Unlocked /\ Half /\ Whole /\ CleanExit

LEMMA ExitStep == ExitInv /\ [Next]_vars => ExitInv'
<1> SUFFICES ASSUME ExitInv, [Next]_vars PROVE ExitInv'
  OBVIOUS
<1> DEFINE Rest == Ready /\ Progress /\ Unlocked /\ Half /\ Whole /\ CleanExit
<1> USE ProcessAssumption DEF Goto, At, Threads
<1>0. TypeOK /\ TypeOK'
  BY TypeStep DEF ExitInv
<1>1. /\ status \in [Procs -> {"new", "alive", "exited", "dead"}]
      /\ \A q \in Procs : DOMAIN pc[q] = Threads
      /\ DOMAIN pc = Procs
      /\ registered \in [Procs -> SUBSET Signals]
      /\ inited \in [Procs -> BOOLEAN] /\ flushed \in [Procs -> BOOLEAN]
      /\ afterInit \in [Procs -> BOOLEAN] /\ held \in [Procs -> BOOLEAN]
  BY <1>0 DEF TypeOK
<1>2. Rest
  BY DEF ExitInv
<1> USE DEF Ready, Progress, Unlocked, Half, Whole, CleanExit, ExitReleases, ExitFlushes
<1>3. CASE UNCHANGED vars
  BY <1>1, <1>2, <1>0, <1>3 DEF vars, ExitInv
<1>4. ASSUME NEW p \in Procs, Start(p) PROVE Rest'
  BY <1>1, <1>2, <1>4 DEF Start
<1>5. ASSUME NEW p \in Procs, InitSteps(p) PROVE Rest'
  <2>1. CASE CreateFile(p)
    BY <1>1, <1>2, <2>1 DEF CreateFile
  <2>2. CASE LinkFile(p)
    BY <1>1, <1>2, <2>2 DEF LinkFile
  <2>3. CASE LinkExists(p)
    BY <1>1, <1>2, <2>3 DEF LinkExists, disk
  <2>7. CASE GiveUp(p)
    BY <1>1, <1>2, <2>7 DEF GiveUp
  <2>4. CASE SetTermHandler(p)
    BY <1>1, <1>2, <2>4 DEF SetTermHandler
  <2>5. CASE SetIntHandler(p)
    BY <1>1, <1>2, <2>5 DEF SetIntHandler
  <2>6. CASE WritePid(p)
    BY <1>1, <1>2, <2>6 DEF WritePid
  <2> QED
    BY <1>5, <2>1, <2>2, <2>3, <2>4, <2>5, <2>6, <2>7 DEF InitSteps
<1>6. ASSUME NEW p \in Procs, Exit(p) PROVE Rest'
  BY <1>1, <1>2, <1>6 DEF Exit, Begin, Handlers
<1>7. ASSUME NEW p \in Procs, Release(p) PROVE Rest'
  BY <1>1, <1>2, <1>7 DEF Release
<1>8. ASSUME NEW p \in Procs, NEW t \in Threads, HandlerSteps(p, t) PROVE Rest'
  <2>1. CASE RemoveFile(p, t)
    <3>1. CASE At(p, t, "rmFile") /\ Goto(p, t, "rmLink")
      BY <1>1, <1>2, <2>1, <3>1 DEF RemoveFile
    <3>2. CASE At(p, t, "releaseFile") /\ Goto(p, t, "releaseLink")
      BY <1>1, <1>2, <2>1, <3>2 DEF RemoveFile
    <3> QED
      BY <2>1, <3>1, <3>2 DEF RemoveFile
  <2>2. CASE RemoveLink(p, t)
    <3>1. CASE At(p, t, "rmLink") /\ Goto(p, t, "flush")
      BY <1>1, <1>2, <2>2, <3>1 DEF RemoveLink
    <3>2. CASE At(p, t, "releaseLink") /\ Goto(p, t, "released")
      BY <1>1, <1>2, <2>2, <3>2 DEF RemoveLink
    <3> QED
      BY <2>2, <3>1, <3>2 DEF RemoveLink
  <2>3. CASE Flush(p, t)
    BY <1>1, <1>2, <2>3 DEF Flush, AfterHandlers
  <2>4. CASE OsExit(p, t)
    BY <1>1, <1>2, <2>4 DEF OsExit
  <2> QED
    BY <1>8, <2>1, <2>2, <2>3, <2>4 DEF HandlerSteps
<1>9. ASSUME NEW p \in Procs, NEW s \in Signals, Notify(p, s) PROVE Rest'
  BY <1>1, <1>2, <1>9 DEF Notify
<1>10. ASSUME NEW p \in Procs, HandleSignal(p) PROVE Rest'
  <2>1. UNCHANGED <<status, registered, inited, held, flushed, files, link>>
    BY <1>10 DEF HandleSignal
  <2>2. CASE UNCHANGED <<pc, afterInit>>
    BY <1>1, <1>2, <2>1, <2>2
  <2>3. ASSUME NEW s \in {"TERM", "INT"}, Begin(p, "signal", Handlers(p, s)) PROVE Rest'
    BY <1>1, <1>2, <2>1, <2>3 DEF Begin, Handlers
  <2> QED
    BY <1>10, <2>2, <2>3 DEF HandleSignal
<1>11. ASSUME NEW p \in Procs, Die(p) PROVE Rest'
  BY <1>1, <1>2, <1>11 DEF Die
<1> HIDE DEF Ready, Progress, Unlocked, Half, Whole, CleanExit
<1>12. Rest'
  BY <1>3, <1>4, <1>5, <1>6, <1>7, <1>8, <1>9, <1>10, <1>11 DEF Next, Step, ExitInv
<1> QED
  BY <1>0, <1>12 DEF ExitInv

\* Whoever ends a process by Exit or a signal, and however its two goroutines run the handlers
\* at once, the log is flushed, and after Init the lock is released.
THEOREM ExitsClean == Spec => []CleanExit
<1>1. Init => Ready /\ Progress /\ Unlocked /\ Half /\ Whole /\ CleanExit
  BY DEF Init, Ready, Progress, Unlocked, Half, Whole, CleanExit, ExitReleases, ExitFlushes
<1>2. Init => ExitInv
  BY <1>1, TypeInit DEF ExitInv
<1>3. ExitInv => CleanExit
  BY DEF ExitInv
<1> QED
  BY <1>2, <1>3, ExitStep, PTL DEF Spec

----------------------------------------------------------------------------
(* The PID file *)

SameLengths == \A p, q \in Procs : Len(Pid[p]) = Len(Pid[q])

\* In a program with these properties the PID file is empty or a process ID.
PidWhole ==
  Routes = {"exit"} /\ SameLengths =>
    /\ PidFileNamesHolder
    /\ pidFile = <<>> \/ \A p \in Procs : Len(pidFile) = Len(Pid[p])

LEMMA OverwriteAll ==
  ASSUME NEW old \in Seq(0..9), NEW s \in Seq(0..9), old = <<>> \/ Len(old) = Len(s)
  PROVE  Overwrite(old, s) = s
<1>1. Len(s) \in Nat /\ Len(old) \in Nat /\ Len(old) <= Len(s)
  BY LenProperties, EmptySeq
<1>2. SubSeq(old, Len(s) + 1, Len(old)) = <<>>
  <2>1. Len(s) + 1 \in Int /\ Len(old) \in Int /\ \A i \in Len(s) + 1 .. Len(old) : old[i] \in 0..9
    BY <1>1
  <2>2. /\ SubSeq(old, Len(s) + 1, Len(old)) \in Seq(0..9)
        /\ Len(SubSeq(old, Len(s) + 1, Len(old))) = 0
    BY <1>1, <2>1, SubSeqProperties
  <2> QED
    BY <2>2, EmptySeq
<1> QED
  BY <1>2, ConcatEmptySeq DEF Overwrite

LEMMA PidStep ==
  ASSUME IInv, ExitInv, PidWhole, [Next]_vars
  PROVE  PidWhole'
<1> SUFFICES ASSUME Routes = {"exit"}, SameLengths
             PROVE  /\ PidFileNamesHolder'
                    /\ pidFile' = <<>> \/ \A p \in Procs : Len(pidFile') = Len(Pid[p])
  BY ProgramFixed DEF PidWhole, Routes
<1> USE DEF Goto, At, Threads
<1>1. /\ TypeOK /\ Ready /\ LockDiscipline
      /\ \A p \in Procs : status[p] = "alive" => pc[p]["signal"] = "wait"
      /\ DOMAIN pc = Procs /\ \A q \in Procs : DOMAIN pc[q] = Threads
      /\ status \in [Procs -> {"new", "alive", "exited", "dead"}]
      /\ inited \in [Procs -> BOOLEAN] /\ held \in [Procs -> BOOLEAN]
  <2>1. OneRoute
    BY DEF OneRoute
  <2>2. TypeOK /\ Ready /\ LockDiscipline
    BY <2>1 DEF IInv, LockInv, ExitInv
  <2> QED
    BY <2>2 DEF LockDiscipline, OnRoute, TypeOK
<1>2. /\ PidFileNamesHolder
      /\ pidFile = <<>> \/ \A p \in Procs : Len(pidFile) = Len(Pid[p])
  BY DEF PidWhole
<1>3. ASSUME NEW p \in Procs, WritePid(p)
      PROVE  /\ PidFileNamesHolder'
             /\ pidFile' = <<>> \/ \A q \in Procs : Len(pidFile') = Len(Pid[q])
  <2>1. Holds(p) /\ pc[p]["main"] = "pid"
    BY <1>1, <1>3 DEF WritePid, LockDiscipline, StillHeld, Holds
  <2>2. pidFile' = Pid[p]
    <3>1. Pid[p] \in Seq(0..9) /\ pidFile \in Seq(0..9)
      BY <1>1, ProcessAssumption DEF TypeOK
    <3> QED
      BY <1>2, <1>3, <3>1, OverwriteAll DEF WritePid
  <2>3. \A q \in Procs : Holds(q)' => q = p
    BY <1>1, <1>3, <2>1 DEF WritePid, Holds, LockDiscipline, OwnLink
  <2> QED
    BY <2>2, <2>3 DEF PidFileNamesHolder, SameLengths
<1>4. ASSUME pidFile' = pidFile, \A p \in Procs : Holds(p)' /\ inited'[p] => Holds(p) /\ inited[p]
      PROVE  /\ PidFileNamesHolder'
             /\ pidFile' = <<>> \/ \A q \in Procs : Len(pidFile') = Len(Pid[q])
  BY <1>2, <1>4 DEF PidFileNamesHolder
<1>5. CASE UNCHANGED vars
  BY <1>4, <1>5 DEF vars, Holds
<1>6. ASSUME NEW p \in Procs, Start(p) \/ OsExit(p, "main") \/ OsExit(p, "signal") \/ Die(p)
      PROVE  pidFile' = pidFile /\ \A q \in Procs : Holds(q)' /\ inited'[q] => Holds(q) /\ inited[q]
  BY <1>1, <1>6 DEF Start, OsExit, Die, Holds
<1>7. ASSUME NEW p \in Procs, LinkFile(p)
      PROVE  pidFile' = pidFile /\ \A q \in Procs : Holds(q)' /\ inited'[q] => Holds(q) /\ inited[q]
  BY <1>1, <1>7 DEF LinkFile, Holds, Ready
<1>8. ASSUME NEW p \in Procs,
             \/ CreateFile(p) \/ LinkExists(p) \/ GiveUp(p) \/ SetTermHandler(p) \/ SetIntHandler(p)
             \/ Exit(p) \/ Release(p) \/ HandleSignal(p)
             \/ \E s \in Signals : Notify(p, s)
             \/ \E t \in Threads : RemoveFile(p, t) \/ RemoveLink(p, t) \/ Flush(p, t)
      PROVE  pidFile' = pidFile /\ \A q \in Procs : Holds(q)' /\ inited'[q] => Holds(q) /\ inited[q]
  BY <1>1, <1>8 DEF CreateFile, LinkExists, GiveUp, SetTermHandler, SetIntHandler, Exit, Begin, Release,
                    HandleSignal, Notify, RemoveFile, RemoveLink, Flush, Holds
<1> QED
  BY <1>3, <1>4, <1>5, <1>6, <1>7, <1>8 DEF Next, Step, InitSteps, HandlerSteps

\* With process IDs of one length, and in a program that is not signalled, the PID file is
\* the ID of the process that holds the lock, whatever crashed or failed to lock before.
THEOREM PidFileRight == Spec => []PidFileExact
<1>1. Init => PidWhole
  BY DEF Init, PidWhole, PidFileNamesHolder, Holds
<1>2. Init => ExitInv
  <2>1. Init => Ready /\ Progress /\ Unlocked /\ Half /\ Whole /\ CleanExit
    BY DEF Init, Ready, Progress, Unlocked, Half, Whole, CleanExit, ExitReleases, ExitFlushes
  <2> QED
    BY <2>1, TypeInit DEF ExitInv
<1>3. IInv /\ ExitInv /\ PidWhole /\ [Next]_vars => PidWhole'
  BY PidStep
<1>4. PidWhole => PidFileExact
  BY DEF PidWhole, PidFileExact, SameLengths
<1> QED
  BY <1>1, <1>2, <1>3, <1>4, ExitStep, Invariant, PTL DEF Spec
=============================================================================

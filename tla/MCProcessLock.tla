---------------------------- MODULE MCProcessLock ----------------------------
(* Process IDs and programs for the TLC runs of ProcessLock.                            *)
EXTENDS ProcessLock, TLC

CONSTANTS p1, p2, p3

\* Process IDs of one length, and of different lengths.
SameLength  == p1 :> <<4, 1>> @@ p2 :> <<4, 2>> @@ p3 :> <<4, 3>>
MixedLength == p1 :> <<9, 9>> @@ p2 :> <<7>> @@ p3 :> <<8>>

\* Programs with one route to releasing the lock; with two goroutines that may
\* run the exit handlers; and that exit after releasing the lock themselves.
Program(r, b) == [routes |-> r, stays |-> b]

AnyProgram ==
  {Program({r}, FALSE) : r \in Route}
    \cup {Program({"signal", "exit"}, b) : b \in BOOLEAN}
    \cup {Program({"exit", "release"}, FALSE)}
SignalOrExit == {Program({"signal", "exit"}, FALSE)}
ExitOnly     == {Program({"exit"}, FALSE)}
=============================================================================

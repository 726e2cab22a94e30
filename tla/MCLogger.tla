------------------------------- MODULE MCLogger -------------------------------
(* Logger for TLC: goroutines, entries and child loggers interchangeable.  *)
EXTENDS Logger, TLC

CONSTANTS g1, g2, e1, e2, e3, root, child1, child2, sync, queued

Interchangeable ==
  Permutations({g1, g2}) \cup Permutations({e1, e2, e3})
=============================================================================

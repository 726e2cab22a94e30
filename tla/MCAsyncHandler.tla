--------------------------- MODULE MCAsyncHandler ---------------------------
(* Model values and symmetry for the TLC runs of AsyncHandler.             *)
EXTENDS AsyncHandler, TLC

CONSTANTS g1, g2, g3

\* When all of the goroutines flush, or none does, they are interchangeable.
Interchangeable == Permutations(Goroutines)
=============================================================================

--------------------------------- MODULE Prime ---------------------------------
(***************************************************************************)
(* prime/prime.go: Between and Select, over a table of primes.  A turn of  *)
(* a loop is a step.                                                       *)
(***************************************************************************)
EXTENDS Integers, Sequences

CONSTANTS
  Numbers,   \* the table, ascending; in the code 100000 entries of numbers.go
  Bounds,    \* the calls of Between, as <<start, end>>
  Randoms    \* what four random bytes come to

ASSUME PrimeAssumption ==
  /\ Numbers \in Seq(Nat) /\ Numbers # <<>>
  /\ \A k, l \in 1..Len(Numbers) : k < l => Numbers[k] < Numbers[l]
  /\ Bounds \subseteq Int \X Int
  /\ Randoms \subseteq Nat

VARIABLES range, stage, i, init, result

primeVars == <<range, stage, i, init, result>>

Count == Len(Numbers)
MaxPrime == Numbers[Count]
Number(k) == Numbers[k + 1]

InBounds(r) == r[1] < r[2] /\ r[1] >= 0 /\ r[2] <= MaxPrime

\* Select picks from the whole table.
Init ==
  /\ \/ range \in Bounds /\ stage = (IF InBounds(range) THEN "first" ELSE "none") /\ i = 0
     \/ range = <<0, MaxPrime>> /\ stage = "pick" /\ i = Count
  /\ init = 0
  /\ result = 0

FirstTurn ==
  /\ stage = "first"
  /\ IF Number(i) < range[1] THEN i' = i + 1 /\ UNCHANGED <<stage, init>>
                             ELSE stage' = "last" /\ init' = i /\ UNCHANGED i
  /\ UNCHANGED <<range, result>>

\* Slip: the upper bound does not belong to the range.
BelowEnd == i < Count /\ Number(i) < range[2]

InRange == i < Count /\ Number(i) <= range[2]

LastTurn ==
  /\ stage = "last"
  /\ IF InRange THEN i' = i + 1 /\ UNCHANGED stage
     ELSE /\ stage' = IF i = init THEN "none" ELSE "pick"
          /\ UNCHANGED i
  /\ UNCHANGED <<range, init, result>>

\* getRandomPrime: the source of random bytes may fail.
Pick ==
  /\ stage = "pick"
  /\ \/ stage' = "error" /\ UNCHANGED result
     \/ \E r \in Randoms : result' = Number(init + (r % (i - init))) /\ stage' = "picked"
  /\ UNCHANGED <<range, i, init>>

Next == FirstTurn \/ LastTurn \/ Pick

Spec == Init /\ [][Next]_primeVars

----------------------------------------------------------------------------
(* Properties *)

Offered == {Number(k) : k \in init..i - 1}
Available == {Number(k) : k \in {l \in 0..Count - 1 : range[1] <= Number(l) /\ Number(l) <= range[2]}}

\* The primes to choose from are all those of the range, its ends included, and none is
\* refused that is there; except in a range of one number, or one that ends beyond the table.
PicksRight ==
  /\ stage \in {"pick", "picked"} => Offered = Available
  /\ stage = "picked" => result \in Offered
  /\ stage = "none" /\ InBounds(range) => Available = {}
=============================================================================

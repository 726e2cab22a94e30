-------------------------------- MODULE RefMap --------------------------------
(***************************************************************************)
(* refmap/refmap.go: strings and the integer references that stand for     *)
(* them.  A map is used by one goroutine at a time; each method is a step. *)
(*                                                                         *)
(* Go maps hold values, not pointers: Incr, IncrRef, Decr and DecrRef      *)
(* change the count of a copy, so that a string's count stays what it was  *)
(* when its reference was made.                                            *)
(***************************************************************************)
EXTENDS Integers

CONSTANTS
  Strings,
  Empty,     \* the empty string
  Amounts,   \* what by may be
  Starts,    \* what lastRef starts from
  MaxRef     \* the largest uint64

ASSUME RefMapAssumption ==
  /\ Amounts \subseteq Int
  /\ MaxRef \in Nat
  /\ Starts \subseteq 0..MaxRef

VARIABLES
  lastRef,
  refs,     \* from references to [count, s]
  strings,  \* from strings to references
  issued,   \* history: the references that were ever made
  wrapped   \* lastRef has gone past MaxRef

vars == <<lastRef, refs, strings, issued, wrapped>>

Refs == 0..MaxRef

\* New and StartingFrom
Init ==
  /\ lastRef \in Starts
  /\ refs = [r \in {} |-> 0]
  /\ strings = [s \in {} |-> 0]
  /\ issued = {}
  /\ wrapped = FALSE

Found(s)    == s \in DOMAIN strings
FoundRef(r) == r \in DOMAIN refs

\* m.refs[ref], which is the zero value when ref is not there
Value(r) == IF FoundRef(r) THEN refs[r] ELSE [count |-> 0, s |-> Empty]

Without(f, x) == [y \in DOMAIN f \ {x} |-> f[y]]
With(f, x, v) == [y \in DOMAIN f \cup {x} |-> IF y = x THEN v ELSE f[y]]

\* Slip: the string of a deleted reference is kept.
DropRefOnly(s, r) ==
  /\ refs' = Without(refs, r)
  /\ UNCHANGED <<strings, lastRef, issued, wrapped>>

\* delete(m.strings, s); delete(m.refs, ref)
Drop(s, r) ==
  /\ strings' = Without(strings, s)
  /\ refs' = Without(refs, r)
  /\ UNCHANGED <<lastRef, issued, wrapped>>

\* Slip: the lowest reference that is free is taken.
MakeLowest(s, count) ==
  \E r \in Refs \ {0} :
    /\ ~ FoundRef(r) /\ \A q \in Refs : 0 < q /\ q < r => FoundRef(q)
    /\ lastRef' = r
    /\ strings' = With(strings, s, r)
    /\ refs' = With(refs, r, [count |-> count, s |-> s])
    /\ issued' = issued \cup {r}
    /\ UNCHANGED wrapped

\* m.lastRef += 1; s gets the new reference.
Make(s, count) ==
  LET r == IF lastRef = MaxRef THEN 0 ELSE lastRef + 1
  IN  /\ lastRef' = r
      /\ strings' = With(strings, s, r)
      /\ refs' = With(refs, r, [count |-> count, s |-> s])
      /\ issued' = issued \cup {r}
      /\ wrapped' = (wrapped \/ lastRef = MaxRef)

----------------------------------------------------------------------------

\* Create returns the reference of a string it finds and changes nothing.
Create(s) == ~ Found(s) /\ Make(s, 0)

\* Incr, too: its new count is lost.
Incr(s, by) == ~ Found(s) /\ Make(s, by)

\* Decr deletes a string whose count it takes to 0, and loses the count otherwise.
Decr(s, by) ==
  /\ Found(s)
  /\ Value(strings[s]).count - by <= 0
  /\ Drop(Value(strings[s]).s, strings[s])

DecrRef(r, by) ==
  /\ FoundRef(r)
  /\ Value(r).count - by <= 0
  /\ Drop(Value(r).s, r)

Delete(s) == Found(s) /\ Drop(s, strings[s])

DeleteRef(r) == FoundRef(r) /\ Drop(Value(r).s, r)

Next ==
  \/ \E s \in Strings : Create(s) \/ Delete(s)
  \/ \E s \in Strings, by \in Amounts : Incr(s, by) \/ Decr(s, by)
  \/ \E r \in Refs : DeleteRef(r)
  \/ \E r \in Refs, by \in Amounts : DecrRef(r, by)

Spec == Init /\ [][Next]_vars

----------------------------------------------------------------------------
(* Properties *)

TypeOK ==
  /\ lastRef \in Refs
  /\ DOMAIN refs \subseteq Refs
  /\ refs \in [DOMAIN refs -> [count : Int, s : Strings]]
  /\ DOMAIN strings \subseteq Strings
  /\ strings \in [DOMAIN strings -> Refs]
  /\ issued \subseteq Refs
  /\ wrapped \in BOOLEAN

\* Until the counter wraps, every string with a reference is the one its reference stands
\* for, whichever of the two an entry was deleted through, and nobody has reference 0, which
\* is Get's answer for a string without one.  A reference is that of the string it stands for
\* even after the wrap, when a new string may have taken over one that another still has; but
\* for the empty string, which Decr then takes for a string whose reference is gone.
Inverses ==
  /\ \A r \in DOMAIN refs : ~ wrapped \/ refs[r].s # Empty
                               => Found(refs[r].s) /\ strings[refs[r].s] = r
  /\ ~ wrapped =>
       /\ \A s \in DOMAIN strings : FoundRef(strings[s]) /\ refs[strings[s]].s = s
       /\ ~ FoundRef(0)

\* Until the counter wraps a reference is never made twice, not even for the string it stood for
\* before: one that somebody still keeps cannot come to mean another string.
NeverReissued ==
  [][~ wrapped' => \A r \in DOMAIN refs' \ DOMAIN refs : r \notin issued]_vars
=============================================================================

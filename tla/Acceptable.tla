------------------------------ MODULE Acceptable ------------------------------
(***************************************************************************)
(* httputil/httputil.go: the options of an Accept header are parsed and    *)
(* sorted, and then asked which values are acceptable.  A turn of the loop *)
(* of Parse is a step.                                                     *)
(***************************************************************************)
EXTENDS Integers, SequencesExt

CONSTANTS
  Headers,   \* [key, parts]: a part is [name, qs], with the values of its q parameters
  Star,      \* the name that is the wildcard of the key: "*/*" or "*"
  Family,    \* for the names that end in "/*", or have no "-" in them: the values below
  ByPrefix,  \* the names of Family by the order of their prefixes
  Values,    \* a sequence of values to ask for
  NoNumber,  \* a q that does not parse
  Huge       \* a q above every float: ParseFloat gives an infinity, and an error

One == 10   \* a weight of 1.0
latin1 == "iso-8859-1"
Wildcards == {"Accept", "Accept-Charset", "Accept-Encoding", "Accept-Language"}

\* A q that parses is a number, and not negative, as the RFC has it.
ASSUME AcceptAssumption ==
  /\ Headers \subseteq [key : STRING, parts : Seq([name : STRING, qs : Seq(Nat)])]
  /\ Values \in Seq(STRING)
  /\ Star \notin DOMAIN Family /\ Star # latin1

VARIABLES header, acceptStage, opts

acceptVars == <<header, acceptStage, opts>>

AcceptInit ==
  /\ header \in Headers
  /\ opts = <<>>
  \* An empty header has no options.
  /\ acceptStage = IF header.parts = <<>> THEN "parsed" ELSE "parts"

\* The first q that parses, or what ParseFloat returned for the last one: 0 or an infinity.
Weight(qs) ==
  LET numbers == {k \in DOMAIN qs : qs[k] \notin {NoNumber, Huge}}
      first == CHOOSE k \in numbers : \A l \in numbers : k <= l
  IN  CASE qs = <<>> -> One
        [] numbers # {} -> qs[first]
        [] qs # <<>> /\ numbers = {} -> IF qs[Len(qs)] = NoNumber THEN 0 ELSE Huge

IsWildcard(name) == name = Star /\ header.key \in Wildcards

Option(name, weight) ==
  [order        |-> Len(opts),
   value        |-> name,
   weight       |-> weight,
   wildcard     |-> IsWildcard(name),
   metaWildcard |-> header.key \in {"Accept", "Accept-Language"} /\ name \in DOMAIN Family,
   identity     |-> header.key = "Accept-Encoding" /\ name = "identity"]

ParsePart ==
  /\ acceptStage = "parts" /\ Len(opts) < Len(header.parts)
  /\ LET part == header.parts[Len(opts) + 1]
     IN  opts' = Append(opts, Option(part.name, Weight(part.qs)))
  /\ UNCHANGED <<header, acceptStage>>

\* Latin 1 is acceptable if the header does not say otherwise.
AddCharset ==
  /\ acceptStage = "parts" /\ Len(opts) = Len(header.parts)
  /\ opts' = IF header.key = "Accept-Charset" /\ \A k \in DOMAIN opts : opts[k].value # latin1
             THEN Append(opts, Option(latin1, One)) ELSE opts
  /\ acceptStage' = "sort"
  /\ UNCHANGED header

Prefix(o) == CHOOSE k \in DOMAIN ByPrefix : ByPrefix[k] = o.value

\* Slip: a wildcard is not put behind the names it covers.
LessByOrder(a, b) == a.weight > b.weight \/ (a.weight = b.weight /\ a.order < b.order)

Less(a, b) ==
  \/ a.weight > b.weight
  \/ a.weight = b.weight /\ ~ a.wildcard
       /\ \/ b.wildcard
          \/ ~ b.wildcard /\ a.metaWildcard /\ b.metaWildcard /\ Prefix(a) < Prefix(b)
          \/ ~ b.wildcard /\ ~ a.metaWildcard /\ b.metaWildcard
          \/ ~ b.wildcard /\ ~ a.metaWildcard /\ ~ b.metaWildcard /\ a.order < b.order

\* sort.Sort leaves options that are neither way less in some order.
Sort ==
  /\ acceptStage = "sort"
  /\ \E p \in Bijection(DOMAIN opts, DOMAIN opts) :
       /\ \A k, l \in DOMAIN opts : k < l => ~ Less(opts[p[l]], opts[p[k]])
       /\ opts' = [k \in DOMAIN opts |-> opts[p[k]]]
  /\ acceptStage' = "parsed"
  /\ UNCHANGED header

AcceptNext == ParsePart \/ AddCharset \/ Sort

AcceptSpec == AcceptInit /\ [][AcceptNext]_acceptVars

----------------------------------------------------------------------------
(* Questions *)

Below(value, o) == o.metaWildcard /\ value \in Family[o.value]
Matches(o, value) == o.wildcard \/ o.value = value \/ Below(value, o)

\* Accepts: the first option that decides; without options everything is acceptable, for
\* codings is only set when there are options.
Accepts(value) ==
  LET answer(o) == CASE o.weight = 0 -> "no"
                     [] o.weight # 0 /\ o.identity -> IF value = "identity" THEN "yes" ELSE "no"
                     [] o.weight # 0 /\ ~ o.identity -> IF Matches(o, value) THEN "yes" ELSE "on"
      decides(k) == /\ answer(opts[k]) # "on"
                    /\ \A l \in 1..k - 1 : answer(opts[l]) = "on"
  IN  opts = <<>> \/ \E k \in DOMAIN opts : decides(k) /\ answer(opts[k]) = "yes"

\* InStringSlice
InStringSlice(xs, s) == \E k \in DOMAIN xs : xs[k] = s

\* The matches, with v behind them if it matches o and is new.
With(ms, o, v) == IF Matches(o, v) /\ ~ InStringSlice(ms, v) THEN Append(ms, v) ELSE ms

\* A turn for each of the values.
Gather(values, o, ms) ==
  LET found[m \in 0..Len(values)] ==
        IF m = 0 THEN ms ELSE With(found[m - 1], o, values[m])
  IN  found

\* FindPreferred: option by option, as far as a wildcard or a zero.
Taken(s, values, o) ==
  IF s.over \/ o.weight = 0 THEN [matches |-> s.matches, over |-> TRUE]
  ELSE [matches |-> Gather(values, o, s.matches)[Len(values)], over |-> o.wildcard]

Prefer(values) ==
  LET after[k \in 0..Len(opts)] ==
        IF k = 0 THEN [matches |-> <<>>, over |-> FALSE]
        ELSE Taken(after[k - 1], values, opts[k])
  IN  after

FindPreferred(values) == IF opts = <<>> THEN values ELSE Prefer(values)[Len(opts)].matches

----------------------------------------------------------------------------
(* Properties *)

\* How a part covers a value: 2 by its name, 1 as one of a family, 0 as any, -1 not at all.
Covers(part, value) ==
  LET isFamily == header.key \in {"Accept", "Accept-Language"} /\ part.name \in DOMAIN Family
  IN  CASE IsWildcard(part.name) -> 0
        [] ~ IsWildcard(part.name) /\ isFamily ->
             IF value \in Family[part.name] \cup {part.name} THEN 1 ELSE -1
        [] ~ IsWildcard(part.name) /\ ~ isFamily -> IF value = part.name THEN 2 ELSE -1

\* Latin 1 is an option without being named.
Implied ==
  /\ header.key = "Accept-Charset"
  /\ \A k \in DOMAIN header.parts : header.parts[k].name # latin1

\* The best the header says of a value, as <<weight, how it is covered>>.
Best(value) ==
  LET implied == IF Implied /\ value = latin1 THEN {<<One, 2>>} ELSE {}
      said == {<<Weight(p.qs), Covers(p, value)>> : p \in ToSet(header.parts)}
      all == implied \cup {s \in said : s[2] >= 0}
      top == {s \in all : \A r \in all : s[1] >= r[1]}
  IN  IF header.parts = <<>> THEN <<One, 0>>
      ELSE IF all = {} THEN <<0, 0>>
      ELSE CHOOSE s \in top : \A r \in top : s[2] >= r[2]

IdentityOnly == header.key = "Accept-Encoding"
                  /\ \E k \in DOMAIN opts : opts[k].identity /\ opts[k].weight > 0

Covering(value) == {p \in ToSet(header.parts) : Covers(p, value) >= 0}
Foremost(value) ==
  {p \in Covering(value) : \A q \in Covering(value) : Covers(p, value) >= Covers(q, value)}
Heavy(parts) == \E p \in parts : Weight(p.qs) > 0

\* RFC 2616, 14.1 to 14.4: the most specific of the parts that cover a value decide.  One that
\* no part covers is acceptable if it is latin 1 (14.2) or identity (14.3).  Everything is
\* without a header.  Which parts cover a value is taken from the code.
RfcAccepts(value) ==
  \/ header.parts = <<>>
  \/ Heavy(Foremost(value))
  \/ /\ Covering(value) = {}
     /\ \/ header.key = "Accept-Charset" /\ value = latin1
        \/ header.key = "Accept-Encoding" /\ value = "identity"

\* Where the code does otherwise: a part with a weight overrides the zero of a more specific
\* one; latin 1 is taken although the "*" that covers it has a zero; and identity is not
\* taken when it is not listed.
ZeroOverridden(value) == Heavy(Covering(value)) /\ ~ Heavy(Foremost(value))
Latin1Taken(value) ==
  Implied /\ value = latin1 /\ Covering(value) # {} /\ ~ Heavy(Covering(value))
IdentityUnlisted(value) ==
  /\ header.key = "Accept-Encoding" /\ value = "identity"
  /\ header.parts # <<>> /\ Covering(value) = {}

\* The values that are preferred are those the code gives a weight, the greatest of the parts
\* that cover them, each once if there is a header; the heavier before the lighter, and with
\* one weight those named before those of a family, and these before those that only the
\* wildcard covers.  They are the values RFC 2616 has acceptable, except in the three cases
\* above, where they never are.  Accepts takes the same values as FindPreferred, except that
\* the encoding identity hides the options behind it from Accepts, and only from Accepts.
PreferenceRight ==
  acceptStage = "parsed" =>
    LET found == FindPreferred(Values)
        before(a, b) == a[1] > b[1] \/ (a[1] = b[1] /\ a[2] >= b[2])
    IN  /\ header.parts # <<>> => IsInjective(found)
        /\ ToSet(found) = {v \in ToSet(Values) : Best(v)[1] > 0}
        /\ \A k, l \in DOMAIN found : k < l => before(Best(found[k]), Best(found[l]))
        /\ \A v \in ToSet(Values) :
             IF IdentityOnly THEN Accepts(v) => InStringSlice(found, v)
                             ELSE Accepts(v) <=> InStringSlice(found, v)
        /\ \A v \in ToSet(Values) :
             (InStringSlice(found, v) <=> RfcAccepts(v))
               <=> ~ (ZeroOverridden(v) \/ Latin1Taken(v) \/ IdentityUnlisted(v))

\* What the comment of Acceptable claims: headers are handled according to RFC 2616, section
\* 14, so the values that are preferred are those the RFC has acceptable.
AcceptsByRfc ==
  acceptStage = "parsed" =>
    \A v \in ToSet(Values) : InStringSlice(FindPreferred(Values), v) <=> RfcAccepts(v)
=============================================================================

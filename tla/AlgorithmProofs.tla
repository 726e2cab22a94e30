--------------------------- MODULE AlgorithmProofs ---------------------------
(***************************************************************************)
(* Machine-checked proofs about Prime, for any ascending table, any ranges *)
(* and any random numbers; Iron, for any names, values, keys, durations and *)
(* times; Password, for any digest and settings; OptParse, for any tables of *)
(* options and any words; BitSet, for any widths, sizes and indices;       *)
(* Acceptable, for any headers and values; LZF, for any input and any      *)
(* sizes of the hash table, of the offsets and of the lengths; and URL, for *)
(* any bytes and any set of safe characters.                               *)
(***************************************************************************)
EXTENDS Prime, Iron, LZF, URL, Password, OptParse, BitSet, Acceptable, NumberLemmas,
        SequenceTheorems, FiniteSetTheorems

----------------------------------------------------------------------------
(* Prime *)

\* The entries before k lie below the range, those from k to l - 1 in it.
NoneYet(k) == \A m \in 0..k - 1 : Number(m) < range[1]
Within(k, l) == \A m \in k..l - 1 : range[1] <= Number(m) /\ Number(m) <= range[2]

\* The first entry that is looked at is never beyond the last one of the table, since the range
\* ends in it; what the loops have passed is below or in the range, and what they stop at is not.
CountedSoFar ==
  CASE stage = "first"            -> /\ InBounds(range) /\ i \in 0..Count - 1 /\ NoneYet(i)
    [] stage = "last"             -> /\ init \in 0..Count - 1 /\ i \in init..Count
                                     /\ InBounds(range) /\ NoneYet(init) /\ Within(init, i)
                                     /\ range[1] <= Number(init)
    [] stage \in {"pick", "picked"} -> /\ init \in 0..Count - 1 /\ i \in init + 1..Count
                                     /\ NoneYet(init) /\ Within(init, i) /\ ~ InRange
    [] stage = "none"             -> InBounds(range) => Available = {}
    [] stage = "error"            -> TRUE

PrimeInv ==
  /\ stage \in {"first", "last", "pick", "picked", "none", "error"}
  /\ range[1] \in Int /\ range[2] \in Int
  /\ CountedSoFar
  /\ stage = "picked" => result \in Offered

\* The table.
LEMMA Table ==
  /\ Count \in Nat \ {0}
  /\ \A k \in 0..Count - 1 : Number(k) \in Nat
  /\ \A k, l \in 0..Count - 1 : k < l => Number(k) < Number(l)
  /\ MaxPrime = Number(Count - 1)
<1>1. Count \in Nat \ {0}
  BY PrimeAssumption DEF Count
<1>2. ASSUME NEW k \in 0..Count - 1 PROVE k + 1 \in 1..Len(Numbers) /\ Number(k) \in Nat
  BY <1>1, <1>2, PrimeAssumption DEF Count, Number
<1>3. ASSUME NEW k \in 0..Count - 1, NEW l \in 0..Count - 1, k < l PROVE Number(k) < Number(l)
  <2>1. k + 1 \in 1..Len(Numbers) /\ l + 1 \in 1..Len(Numbers) /\ k + 1 < l + 1
    BY <1>2, <1>3
  <2> QED
    BY <2>1, PrimeAssumption DEF Number
<1>4. MaxPrime = Number(Count - 1)
  BY <1>1 DEF MaxPrime, Number
<1> QED
  BY <1>1, <1>2, <1>3, <1>4

LEMMA InitPrime == Init => PrimeInv
<1> SUFFICES ASSUME Init PROVE PrimeInv
  OBVIOUS
<1> USE Table
<1>1. CASE range \in Bounds /\ stage = (IF InBounds(range) THEN "first" ELSE "none") /\ i = 0
  <2>1. range[1] \in Int /\ range[2] \in Int
    BY <1>1, PrimeAssumption
  <2>2. CASE InBounds(range)
    BY <1>1, <2>1, <2>2 DEF PrimeInv, CountedSoFar, NoneYet
  <2>3. CASE ~ InBounds(range)
    BY <1>1, <2>1, <2>3 DEF PrimeInv, CountedSoFar
  <2> QED
    BY <2>2, <2>3
<1>2. CASE range = <<0, MaxPrime>> /\ stage = "pick" /\ i = Count
  <2>1. range[1] = 0 /\ range[2] = MaxPrime /\ MaxPrime \in Nat
    BY <1>2
  <2>2. init = 0 /\ ~ InRange
    BY <1>2 DEF Init, InRange
  <2>3. NoneYet(init) /\ Within(init, i)
    <3>1. ASSUME NEW m \in 0..Count - 1 PROVE 0 <= Number(m) /\ Number(m) <= Number(Count - 1)
      <4>1. CASE m = Count - 1
        BY <4>1
      <4>2. CASE m < Count - 1
        BY <4>2
      <4> QED
        BY <4>1, <4>2
    <3> QED
      BY <1>2, <2>1, <2>2, <3>1 DEF NoneYet, Within
  <2> QED
    BY <1>2, <2>1, <2>2, <2>3 DEF PrimeInv, CountedSoFar
<1> QED
  BY <1>1, <1>2 DEF Init

----------------------------------------------------------------------------
LEMMA FirstTurnStep == ASSUME PrimeInv, FirstTurn PROVE PrimeInv'
<1> USE Table
<1>0. /\ range[1] \in Int /\ range[2] \in Int /\ range' = range /\ result' = result
      /\ InBounds(range) /\ i \in 0..Count - 1 /\ NoneYet(i) /\ stage = "first"
  BY DEF PrimeInv, CountedSoFar, FirstTurn
<1>1. CASE Number(i) < range[1]
  <2>1. i' = i + 1 /\ stage' = "first"
    BY <1>0, <1>1 DEF FirstTurn
  <2>2. i # Count - 1
    <3>1. range[1] < range[2] /\ range[2] <= Number(Count - 1)
      BY <1>0 DEF InBounds
    <3>2. Number(i) \in Nat /\ Number(Count - 1) \in Nat
      BY <1>0
    <3>3. Number(i) # Number(Count - 1)
      BY <1>0, <1>1, <3>1, <3>2
    <3> QED
      BY <3>3
  <2>3. NoneYet(i)' /\ i' \in 0..Count - 1 /\ InBounds(range)'
    BY <1>0, <1>1, <2>1, <2>2 DEF NoneYet, InBounds
  <2> QED
    BY <1>0, <2>1, <2>3 DEF PrimeInv, CountedSoFar
<1>2. CASE ~ Number(i) < range[1]
  <2>1. i' = i /\ init' = i /\ stage' = "last"
    BY <1>0, <1>2 DEF FirstTurn
  <2>2. NoneYet(init)' /\ Within(init, i)' /\ InBounds(range)' /\ (range[1] <= Number(init))'
    BY <1>0, <1>2, <2>1 DEF NoneYet, Within, InBounds, Number
  <2>3. init' \in 0..Count - 1 /\ i' \in init'..Count
    BY <1>0, <2>1
  <2> QED
    BY <1>0, <2>1, <2>2, <2>3 DEF PrimeInv, CountedSoFar
<1> QED
  BY <1>1, <1>2

LEMMA LastTurnStep == ASSUME PrimeInv, LastTurn PROVE PrimeInv'
<1> USE Table
<1>0. /\ range[1] \in Int /\ range[2] \in Int /\ range' = range /\ result' = result
      /\ InBounds(range) /\ NoneYet(init) /\ Within(init, i) /\ stage = "last" /\ init' = init
      /\ init \in 0..Count - 1 /\ i \in init..Count /\ range[1] <= Number(init)
  BY DEF PrimeInv, CountedSoFar, LastTurn
<1>i. InBounds(range)' /\ NoneYet(init)' /\ (range[1] <= Number(init))'
  BY <1>0 DEF InBounds, NoneYet, Number
<1>1. CASE InRange
  <2>1. i' = i + 1 /\ stage' = "last"
    BY <1>0, <1>1 DEF LastTurn
  <2>2. range[1] <= Number(i) /\ Number(i) <= range[2] /\ i \in 0..Count - 1
    BY <1>0, <1>1 DEF InRange
  <2>3. Within(init, i)'
    BY <1>0, <2>1, <2>2 DEF Within
  <2> QED
    BY <1>0, <1>i, <2>1, <2>2, <2>3 DEF PrimeInv, CountedSoFar
<1>2. CASE ~ InRange
  <2>1. i' = i /\ (~ InRange)' /\ Within(init, i)'
    BY <1>0, <1>2 DEF LastTurn, InRange, Within, Number
  <2>2. CASE i = init
    <3>1. stage' = "none"
      BY <1>0, <1>2, <2>2 DEF LastTurn
    <3>2. ASSUME NEW l \in 0..Count - 1, range[1] <= Number(l), Number(l) <= range[2] PROVE FALSE
      <4>1. l >= init
        BY <1>0, <3>2 DEF NoneYet
      <4>2. Number(init) <= Number(l) /\ Number(init) > range[2]
        BY <1>0, <1>2, <2>2, <4>1 DEF InRange
      <4> QED
        BY <1>0, <3>2, <4>2
    <3>3. Available' = {}
      BY <1>0, <3>2 DEF Available
    <3> QED
      BY <1>0, <3>1, <3>3 DEF PrimeInv, CountedSoFar
  <2>3. CASE i # init
    <3>1. stage' = "pick" /\ i' \in init' + 1..Count
      BY <1>0, <1>2, <2>1, <2>3 DEF LastTurn
    <3> QED
      BY <1>0, <1>i, <2>1, <3>1 DEF PrimeInv, CountedSoFar
  <2> QED
    BY <2>2, <2>3
<1> QED
  BY <1>1, <1>2

LEMMA PickStep == ASSUME PrimeInv, Pick PROVE PrimeInv'
<1> USE Table
<1>0. range' = range /\ i' = i /\ init' = init /\ stage = "pick" /\ stage' \in {"error", "picked"}
  BY DEF Pick
<1>1. init \in 0..Count - 1 /\ i \in init + 1..Count
  BY <1>0 DEF PrimeInv, CountedSoFar
<1>2. stage' = "picked" => result' \in Offered
  <2> SUFFICES ASSUME stage' = "picked" PROVE result' \in Offered
    OBVIOUS
  <2>1. PICK r \in Randoms : result' = Number(init + (r % (i - init)))
    BY DEF Pick
  <2>2. r \in Nat /\ i - init \in Nat \ {0}
    BY <1>1, PrimeAssumption
  <2>3. r % (i - init) \in 0..i - init - 1
    BY <2>2
  <2> DEFINE k == init + (r % (i - init))
  <2>4. k \in init..i - 1
    BY <1>1, <2>2, <2>3
  <2> QED
    BY <2>1, <2>4 DEF Offered
<1>3. Offered' = Offered
  BY <1>0 DEF Offered, Number
<1>4. CountedSoFar'
  BY <1>0, <1>1 DEF PrimeInv, CountedSoFar, NoneYet, Within, InRange, Number
<1> QED
  BY <1>0, <1>2, <1>3, <1>4 DEF PrimeInv

LEMMA NextPrime == ASSUME PrimeInv, [Next]_primeVars PROVE PrimeInv'
<1>1. CASE UNCHANGED primeVars
  BY <1>1 DEF primeVars, PrimeInv, CountedSoFar, NoneYet, Within, InRange, InBounds, Available, Offered, Number
<1> QED
  BY <1>1, FirstTurnStep, LastTurnStep, PickStep DEF Next

----------------------------------------------------------------------------
LEMMA InvPicks == PrimeInv => PicksRight
<1> SUFFICES ASSUME PrimeInv PROVE PicksRight
  OBVIOUS
<1> USE Table
<1>2. ASSUME stage \in {"pick", "picked"} PROVE Offered = Available
  <2>1. /\ init \in 0..Count - 1 /\ i \in init + 1..Count /\ NoneYet(init) /\ Within(init, i)
        /\ ~ InRange /\ range[1] \in Int /\ range[2] \in Int
    BY <1>2 DEF PrimeInv, CountedSoFar
  <2>r. range[1] \in Int /\ range[2] \in Int
    BY <2>1
  <2>2. ASSUME NEW k \in init..i - 1
        PROVE  k \in 0..Count - 1 /\ range[1] <= Number(k) /\ Number(k) <= range[2]
    BY <2>1 DEF Within
  <2>3. ASSUME NEW l \in 0..Count - 1, range[1] <= Number(l), Number(l) <= range[2]
        PROVE  l \in init..i - 1
    <3>1. l >= init
      BY <2>1, <2>r, <2>3 DEF NoneYet
    <3>2. ASSUME l >= i PROVE FALSE
      <4>1. i \in 0..Count - 1 /\ Number(i) > range[2]
        BY <2>1, <2>r, <3>2 DEF InRange
      <4>2. Number(i) <= Number(l)
        BY <3>2, <4>1
      <4> QED
        BY <2>r, <2>3, <4>1, <4>2
    <3> QED
      BY <2>1, <3>1, <3>2
  <2> QED
    BY <2>2, <2>3 DEF Offered, Available
<1>3. stage = "none" /\ InBounds(range) => Available = {}
  BY DEF PrimeInv, CountedSoFar
<1> QED
  BY <1>2, <1>3 DEF PrimeInv, PicksRight

\* Between and Select pick from exactly the primes they should, for every table.
THEOREM PicksFromRange == Spec => []PicksRight
<1>1. Init => PrimeInv
  BY InitPrime
<1>2. PrimeInv /\ [Next]_primeVars => PrimeInv'
  BY NextPrime
<1>3. PrimeInv => PicksRight
  BY InvPicks
<1> QED
  BY <1>1, <1>2, <1>3, PTL DEF Spec

----------------------------------------------------------------------------
(* Iron *)

\* What IronString puts behind the code.
Stamped(m) == IF m.duration > 0 THEN <<Wrap(m.at + m.duration), Colon>> \o m.value ELSE m.value

Calls == [name : Names, value : Contents, key : Keys, duration : Durations, at : 0..MaxTime]

\* Nothing is answered before there is a string; the string is that of its call; the last
\* answer is right.
IronInv ==
  /\ now \in 0..MaxTime
  /\ made = None => answer = None
  /\ made # None => /\ made \in Calls
                    /\ text = [mac   |-> <<Message(made.name, Stamped(made)), made.key>>,
                               value |-> Stamped(made)]
  /\ IronKept

\* The first colon of a stamped value is the one behind the stamp, whatever the value is.
LEMMA StampRead ==
  ASSUME NEW value \in Seq(Int), NEW stamp \in Int, stamp <= MaxTime,
         NEW s, s = <<stamp, Colon>> \o value
  PROVE  /\ Colons(s) # {}
         /\ SubSeq(s, 1, FirstColon(s) - 1) = <<stamp>>
         /\ SubSeq(s, FirstColon(s) + 1, Len(s)) = value
<1>1. <<stamp, Colon>> \in Seq(Int) /\ Len(<<stamp, Colon>>) = 2
  BY IronAssumption
<1>2. /\ s \in Seq(Int) /\ Len(s) = 2 + Len(value)
      /\ s[1] = stamp /\ s[2] = Colon
      /\ \A j \in 1..Len(value) : s[j + 2] = value[j]
  BY <1>1, ConcatProperties
<1>3. DOMAIN s = 1..Len(s) /\ Len(value) \in Nat
  BY <1>2, LenProperties
<1>4. 2 \in Colons(s) /\ \A k \in Colons(s) : k \in Int /\ k >= 2
  <2>1. 2 \in Colons(s)
    BY <1>2, <1>3 DEF Colons
  <2>2. ASSUME NEW k \in Colons(s) PROVE k \in Int /\ k >= 2
    <3>1. k \in 1..Len(s) /\ s[k] = Colon
      BY <1>3 DEF Colons
    <3>2. s[1] # Colon
      BY <1>2, IronAssumption
    <3> QED
      BY <3>1, <3>2, <1>3, <1>2
  <2> QED
    BY <2>1, <2>2
<1>5. FirstColon(s) = 2
  <2> DEFINE First(k) == k \in Colons(s) /\ \A l \in Colons(s) : l >= k
  <2>1. First(2)
    BY <1>4
  <2>2. ASSUME NEW k, First(k) PROVE k = 2
    <3>1. k \in Int /\ k >= 2 /\ 2 >= k
      BY <1>4, <2>2
    <3> QED
      BY <3>1
  <2>3. FirstColon(s) = CHOOSE k : First(k)
    BY DEF FirstColon
  <2> HIDE DEF First
  <2> QED
    BY <2>1, <2>2, <2>3
<1>6. SubSeq(s, 1, 1) = <<stamp>>
  <2>1. \A j \in 1..1 : s[j] \in Int
    BY <1>2
  <2>2. /\ SubSeq(s, 1, 1) \in Seq(Int) /\ Len(SubSeq(s, 1, 1)) = 1
        /\ SubSeq(s, 1, 1)[1] = s[1]
    BY <2>1, SubSeqProperties
  <2>3. /\ <<stamp>> \in Seq(Int) /\ Len(<<stamp>>) = 1 /\ <<stamp>>[1] = stamp
    OBVIOUS
  <2>4. \A j \in 1..Len(SubSeq(s, 1, 1)) : SubSeq(s, 1, 1)[j] = <<stamp>>[j]
    BY <2>2, <2>3, <1>2
  <2> QED
    BY <2>2, <2>3, <2>4, SeqEqual
<1>7. SubSeq(s, 3, Len(s)) = value
  <2>1. \A j \in 3..Len(s) : s[j] \in Int
    BY <1>2, <1>3, ElementOfSeq
  <2>2. /\ SubSeq(s, 3, Len(s)) \in Seq(Int)
        /\ Len(SubSeq(s, 3, Len(s))) = Len(value)
        /\ \A j \in 1..Len(value) : SubSeq(s, 3, Len(s))[j] = s[j + 2]
    <3>1. /\ SubSeq(s, 3, Len(s)) \in Seq(Int)
          /\ Len(SubSeq(s, 3, Len(s))) = IF 3 <= Len(s) THEN Len(s) - 3 + 1 ELSE 0
          /\ \A j \in 1..Len(s) - 3 + 1 : SubSeq(s, 3, Len(s))[j] = s[3 + j - 1]
      BY <2>1, <1>2, <1>3, SubSeqProperties
    <3>2. Len(s) - 3 + 1 = Len(value) /\ (3 <= Len(s) \/ Len(value) = 0)
      BY <1>2, <1>3
    <3>3. \A j \in 1..Len(value) : 3 + j - 1 = j + 2
      BY <1>3
    <3> HIDE <1>2
    <3> QED
      BY <3>1, <3>2, <3>3
  <2>3. \A j \in 1..Len(SubSeq(s, 3, Len(s))) : SubSeq(s, 3, Len(s))[j] = value[j]
    BY <2>2, <1>2
  <2> QED
    BY <2>2, <2>3, SeqEqual
<1>8. FirstColon(s) - 1 = 1 /\ FirstColon(s) + 1 = 3
  BY <1>5
<1>9. Colons(s) # {}
  BY <1>4
<1> QED
  BY <1>6, <1>7, <1>8, <1>9, Zenon

\* Whatever is asked at whatever time, the answer is right.
LEMMA ReadRight ==
  ASSUME IronInv, made # None, NEW name, NEW key, NEW timestamped \in BOOLEAN,
         name = made.name, key = made.key, timestamped <=> made.duration > 0,
         made.at + made.duration <= MaxTime
  PROVE  LET a == Read(name, key, timestamped)
         IN  /\ a.ok <=> made.duration <= 0 \/ now <= made.at + made.duration
             /\ a.ok => a.val = made.value
<1> DEFINE d == made.duration
           value == text.value
<1>1. /\ made \in Calls /\ value = Stamped(made)
      /\ text.mac = <<Message(name, value), key>>
  BY DEF IronInv
<1>2. d \in Int /\ made.at \in Nat /\ made.value \in Seq(Int) /\ now \in Int
  <2>1. /\ made.duration \in Durations /\ made.value \in Contents /\ made.at \in 0..MaxTime
    BY <1>1 DEF Calls
  <2>2. now \in 0..MaxTime
    BY DEF IronInv
  <2>3. made.value \in Seq(Int) /\ d \in Int
    BY <2>1, IronAssumption, Zenon
  <2>4. made.at \in Nat /\ now \in Int
    BY <2>1, <2>2, IronAssumption
  <2> QED
    BY <2>3, <2>4
<1>3. CASE d > 0
  <2>1. value = <<made.at + d, Colon>> \o made.value /\ timestamped
    BY <1>1, <1>2, <1>3, IronAssumption DEF Stamped, Wrap
  <2>2. /\ Colons(value) # {}
        /\ SubSeq(value, 1, FirstColon(value) - 1) = <<made.at + d>>
        /\ SubSeq(value, FirstColon(value) + 1, Len(value)) = made.value
    <3>1. made.at + d \in Int /\ made.at + d <= MaxTime
      BY <1>2
    <3> QED
      BY <2>1, <1>2, <3>1, StampRead
  <2> DEFINE stamp == SubSeq(value, 1, FirstColon(value) - 1)
             isNumber == Len(stamp) = 1 /\ stamp[1] <= MaxTime
             a == Read(name, key, timestamped)
             ok == /\ text.mac = <<Message(name, value), key>>
                   /\ timestamped => Colons(value) # {} /\ isNumber /\ now <= stamp[1]
             val == IF ~ ok THEN <<>>
                    ELSE IF timestamped THEN SubSeq(value, FirstColon(value) + 1, Len(value))
                    ELSE value
  <2>3. Len(stamp) = 1 /\ stamp[1] = made.at + d
    <3>1. stamp = <<made.at + d>>
      BY <2>2
    <3> HIDE DEF stamp
    <3> QED
      BY <3>1
  <2>4. isNumber
    BY <2>3
  <2>5. a = [name |-> name, key |-> key, timestamped |-> timestamped, at |-> now,
             ok |-> ok, val |-> val]
    BY DEF Read
  <2>6. a.ok = ok /\ a.val = val
    <3> HIDE DEF a, ok, val, value
    <3> QED
      BY <2>5, Zenon
  <2>7. ok <=> now <= made.at + d
    <3> HIDE DEF stamp, value
    <3> QED
      BY <1>1, <2>1, <2>2, <2>3, <2>4
  <2>8. ok => val = made.value
    BY <2>1, <2>2
  <2>9. ~ (d <= 0)
    BY <1>2, <1>3
  <2> HIDE DEF a, ok, val
  <2> QED
    BY <2>6, <2>7, <2>8, <2>9 DEF a
<1>4. CASE ~ (d > 0)
  <2>1. value = made.value /\ ~ timestamped
    BY <1>1, <1>4 DEF Stamped
  <2> QED
    BY <1>1, <1>2, <1>4, <2>1 DEF Read
<1> QED
  BY <1>3, <1>4

LEMMA InitIron == IronInit => IronInv
  BY DEF IronInit, IronInv, IronKept

LEMMA StepIron == IronInv /\ [IronNext]_ironVars => IronInv'
<1> SUFFICES ASSUME IronInv, [IronNext]_ironVars PROVE IronInv'
  OBVIOUS
<1>1. CASE Tick
  BY <1>1, IronAssumption DEF Tick, IronInv, IronKept
<1>2. ASSUME NEW name \in Names, NEW key \in Keys, NEW value \in Contents, NEW duration \in Durations,
             IronString(name, value, key, duration)
      PROVE  IronInv'
  <2>1. answer' = None /\ now' \in 0..MaxTime
    BY <1>2 DEF IronString, IronInv
  <2>2. made' \in Calls
    BY <1>2 DEF IronString, Calls, IronInv
  <2>3. text' = [mac   |-> <<Message(made'.name, Stamped(made')), made'.key>>,
                 value |-> Stamped(made')]
    BY <1>2 DEF IronString, Stamped
  <2> QED
    BY <2>1, <2>2, <2>3 DEF IronInv, IronKept, Stamped, Calls
<1>3. ASSUME NEW name \in Names, NEW key \in Keys, NEW timestamped \in BOOLEAN,
             GetIronValue(name, key, timestamped)
      PROVE  IronInv'
  <2>1. /\ made # None /\ UNCHANGED <<now, made, text>>
        /\ answer' = Read(name, key, timestamped)
    BY <1>3 DEF GetIronValue
  <2>2. /\ answer'.name = name /\ answer'.key = key /\ answer'.timestamped = timestamped
        /\ answer'.at = now
    BY <2>1 DEF Read
  <2>3. IronKept'
    BY <2>1, <2>2, ReadRight DEF IronKept
  <2> QED
    BY <2>1, <2>3 DEF IronInv, Calls, Stamped
<1>4. CASE UNCHANGED ironVars
  BY <1>4 DEF ironVars, IronInv, IronKept, Calls, Stamped
<1> QED
  BY <1>1, <1>2, <1>3, <1>4 DEF IronNext

\* What is read with the name and the key of an iron string is the value it was made of, as long
\* as its duration has not passed, and not after that: for any value, with colons or without.
THEOREM IronIsKept == IronSpec => []IronKept
<1>1. IronInit => IronInv
  BY InitIron
<1>2. IronInv /\ [IronNext]_ironVars => IronInv'
  BY StepIron
<1>3. IronInv => IronKept
  BY DEF IronInv
<1> QED
  BY <1>1, <1>2, <1>3, PTL DEF IronSpec

----------------------------------------------------------------------------
(* Password *)

Keyed(hash, iterations, length) == [j \in 1..length |-> Standard(hash, iterations, j)]

Rounds(iterations) == Max({1, iterations})

\* A call of PBKDF2, for a new password or for the one there is.
Called ==
  /\ job.hash \in DOMAIN Digest /\ job.iterations \in Int /\ job.length \in Nat
  /\ password = Absent => job.hash = origin.hash
  /\ password # Absent => job.iterations = password.iterations /\ job.length = password.length

\* Whole blocks of the key are there; the next one starts at a multiple of the digest's length.
BetweenBlocks ==
  /\ slice \in Nat /\ slice <= job.length /\ block \in Nat
  /\ slice < job.length => slice = Digest[job.hash] * block
  /\ derived = [j \in 1..job.length |->
                  IF j <= slice THEN Standard(job.hash, job.iterations, j) ELSE {}]

\* The block has the first HMACs.
InBlock ==
  /\ slice \in Nat /\ slice < job.length /\ block \in Nat /\ block > 0
  /\ slice = Digest[job.hash] * (block - 1)
  /\ round \in 1..Rounds(job.iterations)
  /\ derived = [j \in 1..job.length |->
                  IF j <= slice THEN Standard(job.hash, job.iterations, j)
                  ELSE IF j <= slice + BlockLength THEN {<<block, c, j - slice>> : c \in 0..round - 1}
                  ELSE {}]

\* The password has the key that was derived for it.
Kept ==
  /\ password.iterations \in Int /\ password.length \in Nat
  /\ password.key = Keyed(origin.hash, password.iterations, password.length)

PassInv ==
  /\ settings.hash \in DOMAIN Digest /\ settings.iterations \in Int /\ settings.length \in Nat
  /\ DOMAIN settings = {"hash", "iterations", "length"}
  /\ password = Absent => verdict = Absent
  /\ password # Absent => Kept
  /\ passStage \in {"idle", "block", "rounds"}
  /\ passStage # "idle" => Called
  /\ passStage = "block" => BetweenBlocks
  /\ passStage = "rounds" => InBlock
  /\ Validates

LEMMA RoundsRight ==
  ASSUME NEW n \in Int
  PROVE  Rounds(n) \in Nat /\ Rounds(n) = IF n > 1 THEN n ELSE 1
<1>1. \E x \in {1, n} : \A y \in {1, n} : x >= y
  <2>1. CASE n > 1
    BY <2>1
  <2>2. CASE ~ (n > 1)
    BY <2>2
  <2> QED
    BY <2>1, <2>2
<1>2. Rounds(n) \in {1, n} /\ \A y \in {1, n} : Rounds(n) >= y
  BY <1>1 DEF Rounds, Max
<1> QED
  BY <1>2

LEMMA BlockLengthRight ==
  ASSUME Called, slice \in Nat, slice < job.length
  PROVE  /\ Digest[job.hash] \in Nat /\ Digest[job.hash] > 0
         /\ BlockLength \in Nat /\ BlockLength > 0 /\ BlockLength <= Digest[job.hash]
         /\ slice + BlockLength <= job.length
         /\ slice + BlockLength < job.length => BlockLength = Digest[job.hash]
<1> DEFINE d == Digest[job.hash]
           r == job.length - slice
<1>1. d \in Nat /\ d > 0 /\ r \in Nat /\ r > 0 /\ job.length \in Nat
  BY PasswordAssumption DEF Called
<1> HIDE DEF d, r
<1>2. \E x \in {d, r} : \A y \in {d, r} : x <= y
  <2>1. CASE d <= r
    BY <1>1, <2>1
  <2>2. CASE ~ (d <= r)
    BY <1>1, <2>2
  <2> QED
    BY <2>1, <2>2
<1>3. Min({d, r}) \in {d, r} /\ \A y \in {d, r} : Min({d, r}) <= y
  BY <1>2 DEF Min
<1>4. BlockLength = Min({d, r})
  BY DEF BlockLength, d, r
<1>5. BlockLength \in {d, r} /\ BlockLength <= d /\ BlockLength <= r
  BY <1>3, <1>4
<1>6. slice + r = job.length
  BY <1>1 DEF r
<1> QED
  BY <1>1, <1>5, <1>6 DEF d

\* The bytes at x of the first r HMACs of the block.
Terms(b, r, x) == {<<b, c, x>> : c \in 0..r - 1}

\* One more HMAC in the XOR.
LEMMA OneMoreTerm ==
  ASSUME NEW b, NEW r \in Nat, NEW x
  PROVE  SymDiff(Terms(b, r, x), {<<b, r, x>>}) = Terms(b, r + 1, x)
<1> DEFINE A == Terms(b, r, x)
<1> USE DEF Terms
<1>1. <<b, r, x>> \notin A
  OBVIOUS
<1>2. SymDiff(A, {<<b, r, x>>}) = A \cup {<<b, r, x>>}
  BY <1>1 DEF SymDiff
<1>3. 0..(r + 1) - 1 = (0..r - 1) \cup {r}
  OBVIOUS
<1>4. {<<b, c, x>> : c \in (0..r - 1) \cup {r}} = A \cup {<<b, r, x>>}
  OBVIOUS
<1> QED
  BY <1>2, <1>3, <1>4

LEMMA FirstTerm ==
  ASSUME NEW b, NEW x
  PROVE  SymDiff({}, {<<b, 0, x>>}) = {<<b, c, x>> : c \in 0..1 - 1}
<1>1. 0..1 - 1 = {0}
  OBVIOUS
<1> QED
  BY <1>1 DEF SymDiff

LEMMA DeriveStep ==
  ASSUME NEW secret, NEW hash \in DOMAIN Digest, NEW iterations \in Int, NEW length \in Nat,
         Derive(secret, hash, iterations, length)
  PROVE  /\ job' = [secret |-> secret, hash |-> hash, iterations |-> iterations, length |-> length]
         /\ passStage' = "block" /\ BetweenBlocks'
         /\ settings' = settings /\ password' = password
<1>1. /\ job' = [secret |-> secret, hash |-> hash, iterations |-> iterations, length |-> length]
      /\ passStage' = "block" /\ settings' = settings /\ password' = password
      /\ block' = 0 /\ slice' = 0 /\ derived' = [cell \in 1..length |-> {}]
  BY DEF Derive
<1>2. Digest[job'.hash] \in Nat
  BY <1>1, PasswordAssumption
<1>3. slice' < job'.length => slice' = Digest[job'.hash] * block'
  BY <1>1, <1>2
<1>4. \A j \in 1..length : ~ (j <= slice')
  BY <1>1
<1>5. derived' = [j \in 1..job'.length |->
                    IF j <= slice' THEN Standard(job'.hash, job'.iterations, j) ELSE {}]
  BY <1>1, <1>4
<1> QED
  BY <1>1, <1>3, <1>5 DEF BetweenBlocks

LEMMA BlockStep ==
  ASSUME Called, BetweenBlocks, Block
  PROVE  InBlock' /\ passStage' = "rounds"
<1> DEFINE L == BlockLength
<1>1. /\ slice \in Nat /\ slice < job.length /\ block \in Nat /\ job.length \in Nat
      /\ slice = Digest[job.hash] * block /\ job.iterations \in Int
  BY DEF Block, BetweenBlocks, Called
<1>2. L \in Nat /\ L > 0 /\ slice + L <= job.length
  BY <1>1, BlockLengthRight
<1>3. /\ job' = job /\ slice' = slice /\ block' = block + 1 /\ round' = 1 /\ passStage' = "rounds"
      /\ Mix(block + 1, 0)
  BY DEF Block
<1>4. BlockLength' = L
  BY <1>3 DEF BlockLength
<1>5. 1 \in 1..Rounds(job.iterations)
  BY <1>1, RoundsRight
<1>6. DOMAIN derived = 1..job.length
  BY DEF BetweenBlocks
<1> HIDE DEF L
<1>7. derived' = [j \in 1..job.length |->
                    IF j <= slice THEN Standard(job.hash, job.iterations, j)
                    ELSE IF j <= slice + L THEN {<<block + 1, c, j - slice>> : c \in 0..1 - 1}
                    ELSE {}]
  <2>1. derived' = [j \in 1..job.length |->
                      IF j \in slice + 1..slice + L
                      THEN SymDiff(derived[j], {<<block + 1, 0, j - slice>>}) ELSE derived[j]]
    BY <1>3, <1>6 DEF Mix, L
  <2>2. ASSUME NEW j \in 1..job.length
        PROVE  /\ j \in slice + 1..slice + L <=> ~ (j <= slice) /\ j <= slice + L
               /\ j <= slice => derived[j] = Standard(job.hash, job.iterations, j)
               /\ ~ (j <= slice) => derived[j] = {}
    BY <1>1, <1>2 DEF BetweenBlocks
  <2>3. ASSUME NEW j \in 1..job.length
        PROVE  derived'[j] = IF j <= slice THEN Standard(job.hash, job.iterations, j)
                    ELSE IF j <= slice + L THEN {<<block + 1, c, j - slice>> : c \in 0..1 - 1}
                    ELSE {}
    <3>1. SymDiff({}, {<<block + 1, 0, j - slice>>}) = {<<block + 1, c, j - slice>> : c \in 0..1 - 1}
      BY FirstTerm
    <3> QED
      BY <2>1, <2>2, <3>1
  <2> QED
    BY <2>1, <2>3
<1>8. slice' = Digest[job'.hash] * (block' - 1) /\ block' \in Nat /\ block' > 0
  <2>1. (block + 1) - 1 = block
    BY <1>1
  <2> QED
    BY <1>1, <1>3, <2>1
<1> QED
  BY <1>1, <1>3, <1>4, <1>5, <1>7, <1>8 DEF InBlock

LEMMA RoundStep ==
  ASSUME Called, InBlock, Round
  PROVE  InBlock' /\ passStage' = "rounds"
<1> DEFINE L == BlockLength
<1>1. /\ slice \in Nat /\ slice < job.length /\ block \in Nat /\ job.length \in Nat
      /\ job.iterations \in Int /\ round \in 1..Rounds(job.iterations) /\ round \in Nat
  BY RoundsRight DEF InBlock, Called
<1>2. L \in Nat /\ L > 0 /\ slice + L <= job.length
  BY <1>1, BlockLengthRight
<1>3. /\ job' = job /\ slice' = slice /\ block' = block /\ round' = round + 1 /\ passStage' = "rounds"
      /\ Mix(block, round) /\ round < job.iterations
  BY DEF Round, More
<1>4. BlockLength' = L
  BY <1>3 DEF BlockLength
<1>5. round + 1 \in 1..Rounds(job.iterations)
  BY <1>1, <1>3, RoundsRight
<1>6. DOMAIN derived = 1..job.length
  BY DEF InBlock
<1> HIDE DEF L
<1>7. derived' = [j \in 1..job.length |->
                    IF j <= slice THEN Standard(job.hash, job.iterations, j)
                    ELSE IF j <= slice + L THEN Terms(block, round + 1, j - slice)
                    ELSE {}]
  <2>1. derived' = [j \in 1..job.length |->
                      IF j \in slice + 1..slice + L
                      THEN SymDiff(derived[j], {<<block, round, j - slice>>}) ELSE derived[j]]
    BY <1>3, <1>6 DEF Mix, L
  <2>2. derived = [j \in 1..job.length |->
                    IF j <= slice THEN Standard(job.hash, job.iterations, j)
                    ELSE IF j <= slice + L THEN Terms(block, round, j - slice)
                    ELSE {}]
    BY DEF InBlock, L, Terms
  <2>3. ASSUME NEW j \in 1..job.length
        PROVE  SymDiff(Terms(block, round, j - slice), {<<block, round, j - slice>>})
                 = Terms(block, round + 1, j - slice)
    <3>1. round \in Nat
      BY <1>1
    <3> QED
      BY <3>1, OneMoreTerm
  <2>4. ASSUME NEW j \in 1..job.length
        PROVE  derived'[j] = IF j <= slice THEN Standard(job.hash, job.iterations, j)
                    ELSE IF j <= slice + L THEN Terms(block, round + 1, j - slice)
                    ELSE {}
    <3>1. j \in slice + 1..slice + L <=> ~ (j <= slice) /\ j <= slice + L
      BY <1>1, <1>2
    <3> QED
      BY <2>1, <2>2, <2>3, <3>1
  <2> QED
    BY <2>1, <2>4
<1> QED
  BY <1>1, <1>3, <1>4, <1>5, <1>7 DEF InBlock, Terms

LEMMA EndRoundsStep ==
  ASSUME Called, InBlock, EndRounds
  PROVE  BetweenBlocks' /\ passStage' = "block"
<1> DEFINE L == BlockLength
           d == Digest[job.hash]
<1>1. /\ slice \in Nat /\ slice < job.length /\ block \in Nat /\ block > 0 /\ job.length \in Nat
      /\ job.iterations \in Int /\ round \in 1..Rounds(job.iterations) /\ round \in Nat
      /\ slice = d * (block - 1)
  BY RoundsRight DEF InBlock, Called
<1>2. L \in Nat /\ L > 0 /\ slice + L <= job.length /\ d \in Nat /\ d > 0 /\ L <= d
      /\ (slice + L < job.length => L = d)
  BY <1>1, BlockLengthRight
<1>3. /\ job' = job /\ slice' = slice + L /\ block' = block /\ derived' = derived
      /\ passStage' = "block" /\ ~ (round < job.iterations)
  BY DEF EndRounds, More
<1>4. round = Rounds(job.iterations)
  BY <1>1, <1>3, RoundsRight
<1>5. ASSUME NEW j \in slice + 1..slice + L
      PROVE  {<<block, c, j - slice>> : c \in 0..round - 1} = Standard(job.hash, job.iterations, j)
  <2> DEFINE r == j - 1 - slice
             b == (j - 1) \div d
  <2>1. r \in 0..d - 1 /\ j - 1 = r + (d * (block - 1)) /\ block - 1 \in Int
    <3> HIDE DEF d, L
    <3> QED
      BY <1>1, <1>2
  <2>2. b = block - 1
    <3> HIDE DEF d, r
    <3>1. (r + (d * (block - 1))) \div d = block - 1
      BY <1>2, <2>1, DivModOf
    <3> QED
      BY <2>1, <3>1
  <2>3. b + 1 = block /\ b * d = slice
    <3> HIDE DEF d, b
    <3> QED
      BY <1>1, <1>2, <2>2
  <2>4. Standard(job.hash, job.iterations, j)
          = {<<b + 1, c, j - (b * d)>> : c \in 0..Rounds(job.iterations) - 1}
    BY DEF Standard, Rounds
  <2> HIDE DEF b, d
  <2> QED
    BY <1>4, <2>3, <2>4
<1>6. derived = [j \in 1..job.length |->
                    IF j <= slice THEN Standard(job.hash, job.iterations, j)
                    ELSE IF j <= slice + L THEN {<<block, c, j - slice>> : c \in 0..round - 1}
                    ELSE {}]
  BY DEF InBlock
<1> HIDE DEF L
<1>7. ASSUME NEW j \in 1..job.length
      PROVE  derived[j] = IF j <= slice + L THEN Standard(job.hash, job.iterations, j) ELSE {}
  <2>1. CASE j <= slice
    BY <1>1, <1>2, <1>6, <2>1
  <2>2. CASE ~ (j <= slice) /\ j <= slice + L
    <3>1. j \in slice + 1..slice + L
      BY <1>1, <1>2, <2>2
    <3>2. derived[j] = {<<block, c, j - slice>> : c \in 0..round - 1}
      BY <1>6, <2>2
    <3> QED
      BY <1>5, <2>2, <3>1, <3>2
  <2>3. CASE ~ (j <= slice + L)
    BY <1>1, <1>2, <1>6, <2>3
  <2> QED
    BY <2>1, <2>2, <2>3
<1>8. derived' = [j \in 1..job'.length |->
                    IF j <= slice' THEN Standard(job'.hash, job'.iterations, j) ELSE {}]
  BY <1>3, <1>6, <1>7
<1>9. slice' < job'.length => slice' = Digest[job'.hash] * block'
  <2> SUFFICES ASSUME slice + L < job.length PROVE slice + L = d * block
    BY <1>3
  <2> HIDE DEF d
  <2> QED
    BY <1>1, <1>2
<1> QED
  BY <1>1, <1>2, <1>3, <1>8, <1>9 DEF BetweenBlocks

\* The key of a call that is through.
LEMMA KeyThere ==
  ASSUME Called, BetweenBlocks, slice = job.length
  PROVE  derived = Keyed(job.hash, job.iterations, job.length)
<1>1. \A j \in 1..job.length : j <= slice
  BY DEF Called
<1> QED
  BY <1>1 DEF BetweenBlocks, Keyed

LEMMA ReturnStep ==
  ASSUME PassInv, Return
  PROVE  PassInv'
<1>1. /\ Called /\ BetweenBlocks /\ slice = job.length /\ passStage' = "idle"
      /\ settings' = settings /\ origin' = origin /\ job' = job
  BY DEF PassInv, Return
<1>2. derived = Keyed(job.hash, job.iterations, job.length)
  BY <1>1, KeyThere
<1>3. CASE password = Absent
  <2>1. /\ password' = [iterations |-> job.iterations, key |-> derived, length |-> job.length]
        /\ verdict' = verdict /\ verdict = Absent /\ job.hash = origin.hash
    BY <1>1, <1>3 DEF Return, Called, PassInv
  <2>2. Kept'
    BY <1>1, <1>2, <2>1 DEF Kept, Called, Keyed, Standard
  <2> QED
    BY <1>1, <2>1, <2>2 DEF PassInv, Validates
<1>4. CASE password # Absent
  <2>1. /\ verdict' = [secret |-> job.secret, hash |-> job.hash,
                       valid |-> /\ derived = password.key
                                 /\ derived = <<>> \/ ( /\ job.secret = origin.secret
                                                        /\ job.hash = origin.hash)]
        /\ password' = password
    BY <1>4 DEF Return
  <2>2. Kept /\ Kept'
    <3>1. Kept
      BY <1>4 DEF PassInv
    <3> QED
      BY <1>1, <2>1, <3>1 DEF Kept, Keyed, Standard
  <2>3. job.iterations = password.iterations /\ job.length = password.length
        /\ password.length \in Nat
    BY <1>1, <1>4 DEF Called, PassInv, Kept
  <2>4. password.key = Keyed(origin.hash, job.iterations, job.length)
    BY <2>2, <2>3 DEF Kept
  <2>5. job.hash = origin.hash => derived = password.key
    BY <1>2, <2>4
  <2>6. password.key = <<>> => derived = <<>>
    <3> SUFFICES ASSUME password.key = <<>> PROVE derived = <<>>
      OBVIOUS
    <3>1. DOMAIN password.key = 1..job.length /\ DOMAIN derived = 1..job.length
      BY <1>2, <2>4 DEF Keyed
    <3>2. 1..job.length = {}
      BY <3>1
    <3>3. derived = [j \in {} |-> Standard(job.hash, job.iterations, j)]
      BY <1>2, <3>2 DEF Keyed
    <3> QED
      BY <3>3
  <2>7. Validates'
    BY <1>1, <2>1, <2>5, <2>6 DEF Validates
  <2> QED
    BY <1>1, <1>4, <2>1, <2>2, <2>7 DEF PassInv
<1> QED
  BY <1>3, <1>4

LEMMA PassStep ==
  ASSUME PassInv, [PassNext]_passVars
  PROVE  PassInv'
<1>1. CASE Configure
  <2>1. /\ password' = password /\ origin' = origin /\ passStage' = "idle" /\ verdict' = verdict
        /\ job' = job /\ passStage = "idle"
    BY <1>1 DEF Configure
  <2>2. /\ settings'.hash \in DOMAIN Digest /\ settings'.iterations \in Int /\ settings'.length \in Nat
        /\ DOMAIN settings' = {"hash", "iterations", "length"}
    BY <1>1, PasswordAssumption DEF Configure, PassInv
  <2>3. Kept => Kept'
    BY <2>1 DEF Kept, Keyed, Standard
  <2> QED
    BY <2>1, <2>2, <2>3 DEF PassInv, Validates
<1>2. CASE Block
  <2>1. /\ Called /\ BetweenBlocks
        /\ UNCHANGED <<settings, changes, password, origin, job, slice, verdict>>
    BY <1>2 DEF Block, PassInv
  <2>2. InBlock' /\ passStage' = "rounds"
    BY <1>2, <2>1, BlockStep
  <2>3. Called' /\ (Kept => Kept')
    BY <2>1 DEF Called, Kept, Keyed, Standard
  <2> QED
    BY <2>1, <2>2, <2>3 DEF PassInv, Validates
<1>3. CASE Round
  <2>1. /\ Called /\ InBlock
        /\ UNCHANGED <<settings, changes, password, origin, job, passStage, block, slice, verdict>>
    BY <1>3 DEF Round, PassInv
  <2>2. InBlock' /\ passStage' = "rounds"
    BY <1>3, <2>1, RoundStep
  <2>3. Called' /\ (Kept => Kept')
    BY <2>1 DEF Called, Kept, Keyed, Standard
  <2> QED
    BY <2>1, <2>2, <2>3 DEF PassInv, Validates
<1>4. CASE EndRounds
  <2>1. /\ Called /\ InBlock
        /\ UNCHANGED <<settings, changes, password, origin, job, block, round, derived, verdict>>
    BY <1>4 DEF EndRounds, PassInv
  <2>2. BetweenBlocks' /\ passStage' = "block"
    BY <1>4, <2>1, EndRoundsStep
  <2>3. Called' /\ (Kept => Kept')
    BY <2>1 DEF Called, Kept, Keyed, Standard
  <2> QED
    BY <2>1, <2>2, <2>3 DEF PassInv, Validates
<1>5. CASE Return
  BY <1>5, ReturnStep
<1>6. ASSUME NEW secret \in Secrets, New(secret) PROVE PassInv'
  <2>1. /\ Derive(secret, settings.hash, settings.iterations, settings.length)
        /\ origin' = [secret |-> secret, hash |-> settings.hash] /\ verdict' = verdict
        /\ password = Absent
    BY <1>6 DEF New
  <2>2. /\ job' = [secret |-> secret, hash |-> settings.hash, iterations |-> settings.iterations,
                   length |-> settings.length]
        /\ passStage' = "block" /\ BetweenBlocks' /\ settings' = settings /\ password' = password
    BY <2>1, DeriveStep DEF PassInv
  <2>3. Called'
    BY <2>1, <2>2 DEF Called, PassInv
  <2> QED
    BY <2>1, <2>2, <2>3 DEF PassInv, Validates
<1>7. ASSUME NEW secret \in Secrets, Validate(secret) PROVE PassInv'
  <2>1. /\ Derive(secret, settings.hash, password.iterations, password.length)
        /\ origin' = origin /\ verdict' = verdict /\ password # Absent /\ verdict = Absent
    BY <1>7 DEF Validate
  <2>2. Kept
    BY <2>1 DEF PassInv
  <2>3. /\ job' = [secret |-> secret, hash |-> settings.hash, iterations |-> password.iterations,
                   length |-> password.length]
        /\ passStage' = "block" /\ BetweenBlocks' /\ settings' = settings /\ password' = password
    BY <2>1, <2>2, DeriveStep DEF PassInv, Kept
  <2>4. Called' /\ Kept'
    BY <2>1, <2>2, <2>3 DEF Called, PassInv, Kept, Keyed, Standard
  <2> QED
    BY <2>1, <2>3, <2>4 DEF PassInv, Validates
<1>8. CASE UNCHANGED passVars
  <2>1. /\ UNCHANGED <<settings, changes, password, origin, job, passStage, block, round>>
        /\ UNCHANGED <<slice, derived, verdict>>
    BY <1>8 DEF passVars
  <2>2. (Called => Called') /\ (Kept => Kept')
    BY <2>1 DEF Called, Kept, Keyed, Standard
  <2>3. BetweenBlocks => BetweenBlocks'
    BY <2>1 DEF BetweenBlocks, Standard
  <2>4. InBlock => InBlock'
    <3>1. BlockLength' = BlockLength
      BY <2>1 DEF BlockLength
    <3>2. job' = job /\ slice' = slice /\ block' = block /\ round' = round /\ derived' = derived
      BY <2>1
    <3> QED
      BY <3>1, <3>2 DEF InBlock, Standard, Rounds
  <2> QED
    BY <2>1, <2>2, <2>3, <2>4 DEF PassInv, Validates
<1> QED
  BY <1>1, <1>2, <1>3, <1>4, <1>5, <1>6, <1>7, <1>8 DEF PassNext

LEMMA PassStart == PassInit => PassInv
BY PasswordAssumption DEF PassInit, PassInv, Validates

LEMMA PassRight == PassInv => KeyStandard /\ Validates
BY KeyThere DEF PassInv, KeyStandard, Keyed

LEMMA PassInvariant == PassSpec => []PassInv
<1>1. PassInit => PassInv
  BY PassStart
<1>2. PassInv /\ [PassNext]_passVars => PassInv'
  BY PassStep
<1> QED
  BY <1>1, <1>2, PTL DEF PassSpec

\* PBKDF2 fills the key with what RFC 2898 defines: for any lengths of the key and of the digest,
\* the last block cut off, and any number of iterations, below 1 as well.
THEOREM KeyIsStandard == PassSpec => []KeyStandard
BY PassInvariant, PassRight, PTL

\* Validate says yes to the secret of the password alone, under the hash function of the
\* password, whatever SetPasswordIterations and SetPasswordKeyLength were given meanwhile.
THEOREM SecretValidates == PassSpec => []Validates
BY PassInvariant, PassRight, PTL

----------------------------------------------------------------------------
(* OptParse *)

\* How the words of the remainder are read: one after the other.
WordsRead(k, m) ==
  /\ Len(remainder) = WordsTo(k, m)
  /\ \A j \in 1..m : k[j] = "word" => /\ WordsTo(k, j) \in DOMAIN remainder
                                      /\ remainder[WordsTo(k, j)] = args[j]
  /\ \A w \in DOMAIN remainder : \E j \in 1..m : k[j] = "word" /\ WordsTo(k, j) = w

Used(k, j, o) == k[j] = "flag" /\ Of(args[j]) = o

\* What is set is what is behind its last flag.
FlagsRead(k, m) ==
  /\ set = [o \in DOMAIN options |-> set[o]]
  /\ \A o \in DOMAIN options :
       /\ (\A j \in 1..m : ~ Used(k, j, o)) => set[o] = <<>>
       /\ \A l \in 1..m : Used(k, l, o) /\ (\A j \in 1..m : Used(k, j, o) => j <= l) =>
            set[o] = IF Valued(o) THEN <<args[l + 1]>> ELSE <<TRUE>>

\* k reads the first m arguments.
Reads(k, m) ==
  /\ k \in [1..m -> Kinds]
  /\ \A j \in 1..m : Fits(k, j)
  /\ \A j \in 1..m : k[j] = "flag" /\ j = m => ~ Valued(Of(args[j]))
  /\ addNext <=> Halted(k, m + 1)
  /\ WordsRead(k, m)
  /\ FlagsRead(k, m)

OptTyped ==
  /\ options \in Seq(Options) /\ args \in Seq(Flags \cup Words) /\ addNext \in BOOLEAN
  /\ remainder \in Seq(Flags \cup Words) /\ halt \in Halts

OptInv ==
  /\ OptTyped
  /\ optStage = "new" => idx = 1 /\ ~ addNext /\ remainder = <<>>
  /\ optStage = "loop" =>
       idx \in Nat /\ idx >= 1 /\ idx <= Len(args) /\ \E k : Reads(k, idx - 1)
  /\ optStage \in {"check", "done"} /\ args # <<>> => \E k : Reads(k, Len(args))
  /\ args # <<>> => RequiredRaised

----------------------------------------------------------------------------
(* Readings *)

LEMMA MaxOf ==
  ASSUME NEW S, S \subseteq Nat, NEW m \in S, \A y \in S : y <= m
  PROVE  Max(S) = m
<1>1. \A y \in S : m >= y
  OBVIOUS
<1>2. PICK x : x = Max(S)
  OBVIOUS
<1>3. x \in S /\ \A y \in S : x >= y
  BY <1>1, <1>2 DEF Max
<1>4. x \in Nat /\ m \in Nat /\ x >= m /\ x <= m
  BY <1>3
<1> QED
  BY <1>2, <1>4

LEMMA OfTyped ==
  ASSUME OptTyped, NEW flag
  PROVE  Of(flag) \in {0} \cup DOMAIN options
<1> DEFINE S == {0} \cup {o \in DOMAIN options : flag \in {options[o].long, options[o].short}}
<1>1. DOMAIN options = 1..Len(options) /\ Len(options) \in Nat
  BY DEF OptTyped
<1>2. S \subseteq Nat /\ S # {} /\ \A x \in S : x <= Len(options)
  BY <1>1
<1>3. PICK m \in S : \A y \in S : y <= m
  BY <1>1, <1>2, Greatest
<1>4. Max(S) = m
  BY <1>2, <1>3, MaxOf
<1>5. Of(flag) = Max(S)
  BY DEF Of
<1> QED
  BY <1>3, <1>4, <1>5

LEMMA WordsNat ==
  ASSUME NEW k, NEW j \in Nat
  PROVE  WordsTo(k, j) \in Nat
<1> DEFINE S == {x \in 1..j : k[x] = "word"}
<1>1. IsFiniteSet(1..j) /\ S \subseteq 1..j
  BY FS_Interval
<1>2. IsFiniteSet(S)
  BY <1>1, FS_Subset
<1>3. Cardinality(S) \in Nat
  BY <1>2, FS_CardinalityType
<1> QED
  BY <1>3 DEF WordsTo

LEMMA WordsNext ==
  ASSUME NEW k, NEW j \in Nat
  PROVE  WordsTo(k, j + 1) = IF k[j + 1] = "word" THEN WordsTo(k, j) + 1 ELSE WordsTo(k, j)
<1> DEFINE S == {x \in 1..j : k[x] = "word"}
           T == {x \in 1..j + 1 : k[x] = "word"}
<1>1. IsFiniteSet(1..j) /\ S \subseteq 1..j
  BY FS_Interval
<1>2. IsFiniteSet(S) /\ j + 1 \notin S
  BY <1>1, FS_Subset
<1>3. T = IF k[j + 1] = "word" THEN S \cup {j + 1} ELSE S
  OBVIOUS
<1>4. Cardinality(S \cup {j + 1}) = Cardinality(S) + 1
  BY <1>2, FS_AddElement
<1> QED
  BY <1>3, <1>4 DEF WordsTo

LEMMA WordsNone ==
  ASSUME NEW k
  PROVE  WordsTo(k, 0) = 0
<1>1. {x \in 1..0 : k[x] = "word"} = {}
  OBVIOUS
<1> QED
  BY <1>1, FS_EmptySet DEF WordsTo

\* A longer reading reads the arguments before as the shorter one does.
LEMMA LongerWords ==
  ASSUME NEW m \in Nat, NEW k, NEW l, \A j \in 1..m : l[j] = k[j], NEW j \in 0..m
  PROVE  WordsTo(l, j) = WordsTo(k, j)
<1>1. {x \in 1..j : l[x] = "word"} = {x \in 1..j : k[x] = "word"}
  OBVIOUS
<1> QED
  BY <1>1 DEF WordsTo

LEMMA LongerHalted ==
  ASSUME NEW m \in Nat, NEW k, NEW l, \A j \in 1..m : l[j] = k[j], NEW j \in 1..m + 1
  PROVE  Halted(l, j) <=> Halted(k, j)
<1>1. ASSUME NEW x \in 1..j - 1
      PROVE  l[x] = k[x] /\ WordsTo(l, x) = WordsTo(k, x)
  <2>1. x \in 1..m /\ x \in 0..m
    OBVIOUS
  <2> QED
    BY <2>1, LongerWords
<1> QED
  BY <1>1 DEF Halted

LEMMA LongerFits ==
  ASSUME NEW m \in Nat, NEW k, NEW l, \A j \in 1..m : l[j] = k[j], NEW j \in 1..m, Fits(k, j)
  PROVE  Fits(l, j)
<1>1. l[j] = k[j] /\ (j > 1 => l[j - 1] = k[j - 1])
  OBVIOUS
<1>2. Halted(l, j) <=> Halted(k, j)
  <2>1. j \in 1..m + 1
    OBVIOUS
  <2> QED
    BY <2>1, LongerHalted
<1> QED
  BY <1>1, <1>2 DEF Fits

\* Once halted, halted.
LEMMA HaltedNext ==
  ASSUME NEW k, NEW j \in Nat, j >= 1
  PROVE  Halted(k, j + 1) <=>
           \/ Halted(k, j)
           \/ k[j] = "word" /\ halt.on /\ (args[j] = halt.word \/ WordsTo(k, j) = halt.n)
<1>1. \A x : x \in 1..(j + 1) - 1 <=> x \in 1..j - 1 \/ x = j
  OBVIOUS
<1> QED
  BY <1>1 DEF Halted

\* Nothing is read when Parse has made its table.
LEMMA NoReading ==
  ASSUME ~ addNext', remainder' = <<>>, set' = [o \in DOMAIN options' |-> <<>>]
  PROVE  (\E k : Reads(k, 0))'
<1>1. PICK k : k = [x \in 1..0 |-> "word"]
  OBVIOUS
<1>2. 1..0 = {} /\ 1..(0 + 1) - 1 = {}
  OBVIOUS
<1>3. k \in [1..0 -> Kinds]
  BY <1>1, <1>2
<1>4. ~ Halted(k, 0 + 1)'
  BY <1>2 DEF Halted
<1>5. WordsRead(k, 0)'
  BY <1>2, WordsNone DEF WordsRead
<1>6. FlagsRead(k, 0)'
  BY <1>2 DEF FlagsRead
<1>7. Reads(k, 0)'
  BY <1>2, <1>3, <1>4, <1>5, <1>6 DEF Reads
<1> QED
  BY <1>7

LEMMA SameReading ==
  ASSUME UNCHANGED <<options, halt, args>>, NEW k, NEW j
  PROVE  (Fits(k, j)' <=> Fits(k, j)) /\ (Halted(k, j)' <=> Halted(k, j))
<1>1. \A flag : Of(flag)' = Of(flag)
  BY DEF Of
<1>2. Halted(k, j)' <=> Halted(k, j)
  BY DEF Halted
<1> QED
  BY <1>1, <1>2 DEF Fits, Valued

----------------------------------------------------------------------------
(* Steps *)

\* The next argument is a word.
LEMMA WordTaken ==
  ASSUME OptTyped, NEW m \in Nat, m < Len(args), NEW k, Reads(k, m),
         UNCHANGED <<options, halt, args, set>>, addNext \/ args[m + 1] \notin Flags,
         remainder' = Append(remainder, args[m + 1]),
         addNext' <=> addNext \/ (halt.on /\ (args[m + 1] = halt.word \/ Len(remainder') = halt.n))
  PROVE  (\E l : Reads(l, m + 1))'
<1> DEFINE l == [j \in 1..m + 1 |-> IF j <= m THEN k[j] ELSE "word"]
<1>1. PICK r : r = l
  OBVIOUS
<1> HIDE DEF l
<1>2. r \in [1..m + 1 -> Kinds] /\ (\A j \in 1..m : r[j] = k[j]) /\ r[m + 1] = "word"
  BY <1>1 DEF l, Reads, Kinds
<1>3. Len(remainder) \in Nat /\ remainder \in Seq(Flags \cup Words) /\ Len(args) \in Nat
  BY DEF OptTyped
<1>4. /\ Len(remainder) = WordsTo(k, m)
      /\ \A j \in 1..m : k[j] = "word" => /\ WordsTo(k, j) \in DOMAIN remainder
                                          /\ remainder[WordsTo(k, j)] = args[j]
      /\ \A w \in DOMAIN remainder : \E j \in 1..m : k[j] = "word" /\ WordsTo(k, j) = w
  BY DEF Reads, WordsRead
<1>5. args[m + 1] \in Flags \cup Words
  <2>1. m + 1 \in 1..Len(args)
    BY <1>3
  <2> QED
    BY <2>1, ElementOfSeq DEF OptTyped
<1>6. \A j \in 0..m : WordsTo(r, j) = WordsTo(k, j)
  BY <1>2, LongerWords
<1>7. WordsTo(r, m + 1) = Len(remainder) + 1
  <2>1. WordsTo(r, m) = Len(remainder) /\ m \in 0..m
    BY <1>4, <1>6
  <2> QED
    BY <1>2, <2>1, WordsNext
<1>8. /\ Len(remainder') = Len(remainder) + 1 /\ DOMAIN remainder' = 1..Len(remainder) + 1
      /\ DOMAIN remainder = 1..Len(remainder)
      /\ \A w \in DOMAIN remainder : remainder'[w] = remainder[w]
      /\ remainder'[Len(remainder) + 1] = args[m + 1]
  BY <1>3, <1>5
<1>9. \A j \in 1..m + 1 : j \in 1..m \/ j = m + 1
  OBVIOUS
<1>10. Halted(r, m + 1) <=> addNext
  <2>1. m + 1 \in 1..m + 1
    OBVIOUS
  <2>2. Halted(r, m + 1) <=> Halted(k, m + 1)
    BY <1>2, <2>1, LongerHalted
  <2> QED
    BY <2>2 DEF Reads
<1>11. Fits(r, m + 1)
  <2>1. ~ (m + 1 > 1 /\ r[(m + 1) - 1] = "flag" /\ Valued(Of(args[(m + 1) - 1])))
    <3> SUFFICES ASSUME m + 1 > 1, r[(m + 1) - 1] = "flag", Valued(Of(args[(m + 1) - 1]))
                 PROVE  FALSE
      OBVIOUS
    <3>1. (m + 1) - 1 = m /\ m \in 1..m
      OBVIOUS
    <3> QED
      BY <1>2, <3>1 DEF Reads
  <2> QED
    BY <1>2, <1>10, <2>1 DEF Fits
<1>12. \A j \in 1..m + 1 : Fits(r, j)
  <2>1. ASSUME NEW j \in 1..m PROVE Fits(r, j)
    <3>1. Fits(k, j)
      BY DEF Reads
    <3> QED
      BY <1>2, <3>1, LongerFits
  <2> QED
    BY <1>9, <1>11, <2>1
<1>13. addNext' <=> Halted(r, (m + 1) + 1)
  <2>1. WordsTo(r, m + 1) = Len(remainder')
    BY <1>7, <1>8
  <2>2. m + 1 \in Nat /\ m + 1 >= 1
    OBVIOUS
  <2> QED
    BY <1>2, <1>10, <2>1, <2>2, HaltedNext
<1>14. WordsRead(r, m + 1)'
  <2>1. Len(remainder') = WordsTo(r, m + 1)
    BY <1>7, <1>8
  <2>2. ASSUME NEW j \in 1..m + 1, r[j] = "word"
        PROVE  WordsTo(r, j) \in DOMAIN remainder' /\ remainder'[WordsTo(r, j)] = args[j]
    <3>1. CASE j \in 1..m
      <4>1. WordsTo(r, j) = WordsTo(k, j) /\ k[j] = "word"
        BY <1>2, <1>6, <2>2, <3>1
      <4>2. WordsTo(k, j) \in DOMAIN remainder /\ remainder[WordsTo(k, j)] = args[j]
        BY <1>4, <3>1, <4>1
      <4>3. WordsTo(k, j) \in DOMAIN remainder'
        BY <1>3, <1>8, <4>2
      <4> QED
        BY <1>8, <4>1, <4>2, <4>3
    <3>2. CASE j = m + 1
      BY <1>3, <1>7, <1>8, <3>2
    <3> QED
      BY <1>9, <3>1, <3>2
  <2>3. ASSUME NEW w \in DOMAIN remainder'
        PROVE  \E j \in 1..m + 1 : r[j] = "word" /\ WordsTo(r, j) = w
    <3>1. CASE w \in DOMAIN remainder
      <4>1. PICK j \in 1..m : k[j] = "word" /\ WordsTo(k, j) = w
        BY <1>4, <3>1
      <4>2. j \in 1..m + 1 /\ r[j] = "word" /\ WordsTo(r, j) = w
        BY <1>2, <1>6, <4>1
      <4> QED
        BY <4>2
    <3>2. CASE w = Len(remainder) + 1
      <4>1. m + 1 \in 1..m + 1
        OBVIOUS
      <4> QED
        BY <1>2, <1>7, <3>2, <4>1
    <3> QED
      BY <1>3, <1>8, <3>1, <3>2
  <2> QED
    BY <2>1, <2>2, <2>3 DEF WordsRead
<1>15. FlagsRead(r, m + 1)'
  <2>1. \A flag : Of(flag)' = Of(flag)
    BY DEF Of
  <2>2. ASSUME NEW j \in 1..m + 1, NEW o PROVE Used(r, j, o)' <=> j \in 1..m /\ Used(k, j, o)
    BY <1>2, <1>9, <2>1 DEF Used
  <2>3. \A j \in 1..m : j \in 1..m + 1
    OBVIOUS
  <2> QED
    BY <2>2, <2>3 DEF FlagsRead, Reads, Valued
<1>16. Reads(r, m + 1)'
  <2>1. \A j : (Fits(r, j)' <=> Fits(r, j)) /\ (Halted(r, j)' <=> Halted(r, j))
    BY SameReading
  <2>2. \A j \in 1..m + 1 : ~ (r[j] = "flag" /\ j = m + 1)
    BY <1>2
  <2> QED
    BY <1>2, <1>12, <1>13, <1>14, <1>15, <2>1, <2>2 DEF Reads
<1> QED
  BY <1>16

\* The next argument is a flag, and the one behind it its value if it takes one.
LEMMA FlagTaken ==
  ASSUME OptTyped, NEW m \in Nat, NEW k, Reads(k, m), UNCHANGED <<options, halt, args>>,
         UNCHANGED <<addNext, remainder>>, ~ addNext,
         NEW o \in DOMAIN options, args[m + 1] \in Flags, Of(args[m + 1]) = o, o # 0,
         NEW v \in {1, 2}, v = 2 <=> Valued(o), m + v <= Len(args),
         set' = [set EXCEPT ![o] = IF Valued(o) THEN <<args[m + 2]>> ELSE <<TRUE>>]
  PROVE  (\E l : Reads(l, m + v))'
<1> DEFINE l == [j \in 1..m + v |-> IF j <= m THEN k[j] ELSE IF j = m + 1 THEN "flag" ELSE "value"]
<1>1. PICK r : r = l
  OBVIOUS
<1> HIDE DEF l
<1>2. /\ r \in [1..m + v -> Kinds] /\ (\A j \in 1..m : r[j] = k[j]) /\ r[m + 1] = "flag"
      /\ v = 2 => r[m + 2] = "value"
  BY <1>1 DEF l, Reads, Kinds
<1>3. Len(remainder) \in Nat /\ remainder \in Seq(Flags \cup Words) /\ Len(args) \in Nat
  BY DEF OptTyped
<1>4. /\ Len(remainder) = WordsTo(k, m)
      /\ \A j \in 1..m : k[j] = "word" => /\ WordsTo(k, j) \in DOMAIN remainder
                                          /\ remainder[WordsTo(k, j)] = args[j]
      /\ \A w \in DOMAIN remainder : \E j \in 1..m : k[j] = "word" /\ WordsTo(k, j) = w
  BY DEF Reads, WordsRead
<1>5. \A j \in 1..m + v : j \in 1..m \/ j = m + 1 \/ (v = 2 /\ j = m + 2)
  OBVIOUS
<1>6. \A j \in 0..m : WordsTo(r, j) = WordsTo(k, j)
  BY <1>2, LongerWords
<1>7. WordsTo(r, m + v) = Len(remainder)
  <2>1. WordsTo(r, m) = Len(remainder) /\ m \in 0..m
    BY <1>4, <1>6
  <2>2. WordsTo(r, m + 1) = Len(remainder)
    BY <1>2, <2>1, WordsNext
  <2>3. CASE v = 2
    <3>1. m + 1 \in Nat /\ (m + 1) + 1 = m + v /\ r[(m + 1) + 1] # "word"
      BY <1>2, <2>3
    <3> QED
      BY <2>2, <3>1, WordsNext
  <2> QED
    BY <2>2, <2>3
<1>8. Halted(r, m + 1) <=> addNext
  <2>1. m + 1 \in 1..m + 1
    OBVIOUS
  <2>2. Halted(r, m + 1) <=> Halted(k, m + 1)
    BY <1>2, <2>1, LongerHalted
  <2> QED
    BY <2>2 DEF Reads
<1>9. Fits(r, m + 1)
  <2>1. ~ (m + 1 > 1 /\ r[(m + 1) - 1] = "flag" /\ Valued(Of(args[(m + 1) - 1])))
    <3> SUFFICES ASSUME m + 1 > 1, r[(m + 1) - 1] = "flag", Valued(Of(args[(m + 1) - 1]))
                 PROVE  FALSE
      OBVIOUS
    <3>1. (m + 1) - 1 = m /\ m \in 1..m
      OBVIOUS
    <3> QED
      BY <1>2, <3>1 DEF Reads
  <2> QED
    BY <1>2, <1>8, <2>1 DEF Fits
<1>10. v = 2 => Fits(r, m + 2)
  <2> SUFFICES ASSUME v = 2 PROVE Fits(r, m + 2)
    OBVIOUS
  <2>1. (m + 2) - 1 = m + 1 /\ m + 2 > 1
    OBVIOUS
  <2> QED
    BY <1>2, <2>1 DEF Fits
<1>11. \A j \in 1..m + v : Fits(r, j)
  <2>1. ASSUME NEW j \in 1..m PROVE Fits(r, j)
    <3>1. Fits(k, j)
      BY DEF Reads
    <3> QED
      BY <1>2, <3>1, LongerFits
  <2> QED
    BY <1>5, <1>9, <1>10, <2>1
<1>12. addNext <=> Halted(r, (m + v) + 1)
  <2>1. addNext <=> Halted(r, (m + 1) + 1)
    <3>1. m + 1 \in Nat /\ m + 1 >= 1
      OBVIOUS
    <3> QED
      BY <1>2, <1>8, <3>1, HaltedNext
  <2>2. CASE v = 2
    <3>1. m + 2 \in Nat /\ m + 2 >= 1 /\ (m + 1) + 1 = m + 2
      OBVIOUS
    <3>2. Halted(r, (m + 2) + 1) <=> Halted(r, m + 2)
      BY <1>2, <2>2, <3>1, HaltedNext
    <3> QED
      BY <2>1, <2>2, <3>1, <3>2
  <2> QED
    BY <2>1, <2>2
<1>13. WordsRead(r, m + v)'
  <2>1. ASSUME NEW j \in 1..m + v, r[j] = "word" PROVE j \in 1..m /\ k[j] = "word"
    BY <1>2, <1>5, <2>1
  <2>2. ASSUME NEW j \in 1..m, k[j] = "word"
        PROVE  j \in 1..m + v /\ r[j] = "word" /\ WordsTo(r, j) = WordsTo(k, j)
    BY <1>2, <1>6, <2>2
  <2>3. ASSUME NEW j \in 1..m + v, r[j] = "word"
        PROVE  WordsTo(r, j) \in DOMAIN remainder /\ remainder[WordsTo(r, j)] = args[j]
    BY <1>4, <2>1, <2>2, <2>3
  <2>4. ASSUME NEW w \in DOMAIN remainder
        PROVE  \E j \in 1..m + v : r[j] = "word" /\ WordsTo(r, j) = w
    BY <1>4, <2>2
  <2> QED
    BY <1>7, <2>3, <2>4 DEF WordsRead
<1>14. FlagsRead(r, m + v)'
  <2>1. \A flag : Of(flag)' = Of(flag)
    BY DEF Of
  <2>2. ASSUME NEW j \in 1..m + v, NEW p
        PROVE  Used(r, j, p)' <=> (j \in 1..m /\ Used(k, j, p)) \/ (j = m + 1 /\ p = o)
    <3>1. ~ (m + 1 \in 1..m) /\ ~ (m + 2 \in 1..m) /\ m + 1 # m + 2
      OBVIOUS
    <3> QED
      BY <1>2, <1>5, <2>1, <3>1 DEF Used
  <2>3. \A j \in 1..m : j \in 1..m + v /\ j <= m + 1
    OBVIOUS
  <2>4. m + 1 \in 1..m + v /\ (m + 1) + 1 = m + 2
    OBVIOUS
  <2>5. /\ set = [p \in DOMAIN options |-> set[p]]
        /\ \A p \in DOMAIN options :
             /\ (\A j \in 1..m : ~ Used(k, j, p)) => set[p] = <<>>
             /\ \A x \in 1..m : Used(k, x, p) /\ (\A j \in 1..m : Used(k, j, p) => j <= x) =>
                  set[p] = IF Valued(p) THEN <<args[x + 1]>> ELSE <<TRUE>>
    BY DEF Reads, FlagsRead
  <2>6. /\ set' = [p \in DOMAIN options |-> set'[p]]
        /\ set'[o] = IF Valued(o) THEN <<args[m + 2]>> ELSE <<TRUE>>
        /\ \A p \in DOMAIN options : p # o => set'[p] = set[p]
    BY <2>5
  <2>7. ASSUME NEW p \in DOMAIN options
        PROVE  /\ (\A j \in 1..m + v : ~ Used(r, j, p)') => set'[p] = <<>>
               /\ \A x \in 1..m + v :
                    Used(r, x, p)' /\ (\A j \in 1..m + v : Used(r, j, p)' => j <= x) =>
                      set'[p] = IF Valued(p) THEN <<args[x + 1]>> ELSE <<TRUE>>
    <3>1. CASE p # o
      <4>1. \A j \in 1..m + v : Used(r, j, p)' <=> (j \in 1..m /\ Used(k, j, p))
        BY <2>2, <3>1
      <4>2. set'[p] = set[p]
        BY <2>6, <3>1
      <4> QED
        BY <2>3, <2>5, <4>1, <4>2
    <3>2. CASE p = o
      <4>1. Used(r, m + 1, p)'
        BY <2>2, <2>4, <3>2
      <4>2. ASSUME NEW x \in 1..m + v, Used(r, x, p)', m + 1 <= x PROVE x = m + 1
        <5>1. x \in 1..m \/ x = m + 1
          BY <2>2, <4>2
        <5> QED
          BY <4>2, <5>1
      <4> QED
        BY <2>4, <2>6, <3>2, <4>1, <4>2
    <3> QED
      BY <3>1, <3>2
  <2>8. DOMAIN options' = DOMAIN options /\ args' = args /\ \A p : Valued(p)' <=> Valued(p)
    BY DEF Valued
  <2> QED
    BY <2>6, <2>7, <2>8 DEF FlagsRead
<1>15. ASSUME NEW j \in 1..m + v, r[j] = "flag", j = m + v PROVE ~ Valued(Of(args[j]))
  <2>1. v = 1
    BY <1>2, <1>15
  <2> QED
    BY <1>15, <2>1
<1>16. Reads(r, m + v)'
  <2>1. \A j : (Fits(r, j)' <=> Fits(r, j)) /\ (Halted(r, j)' <=> Halted(r, j))
    BY SameReading
  <2>2. ASSUME NEW j \in 1..m + v, r[j] = "flag", j = m + v PROVE ~ Valued(Of(args[j]))'
    <3>1. Of(args[j])' = Of(args[j])
      BY DEF Of
    <3> QED
      BY <1>15, <2>2, <3>1 DEF Valued
  <2>3. addNext' = addNext
    OBVIOUS
  <2> QED
    BY <1>2, <1>11, <1>12, <1>13, <1>14, <2>1, <2>2, <2>3 DEF Reads
<1> QED
  BY <1>16

LEMMA ReadingIs ==
  ASSUME OptTyped, NEW k, Reads(k, Len(args))
  PROVE  k \in [DOMAIN args -> Kinds] /\ Reading(k)
<1> DEFINE m == Len(args)
<1>1. m \in Nat /\ DOMAIN args = 1..m /\ remainder \in Seq(Flags \cup Words)
  BY DEF OptTyped
<1>2. k \in [1..m -> Kinds] /\ (\A j \in 1..m : Fits(k, j)) /\ WordsRead(k, m) /\ FlagsRead(k, m)
  BY DEF Reads
<1> HIDE DEF m
<1>3. remainder = [w \in 1..WordsTo(k, m) |->
                     args[CHOOSE j \in DOMAIN args : k[j] = "word" /\ WordsTo(k, j) = w]]
  <2>1. /\ Len(remainder) = WordsTo(k, m) /\ DOMAIN remainder = 1..Len(remainder)
        /\ remainder = [w \in DOMAIN remainder |-> remainder[w]]
    BY <1>1, <1>2 DEF WordsRead
  <2>2. ASSUME NEW w \in DOMAIN remainder
        PROVE  remainder[w] = args[CHOOSE j \in DOMAIN args : k[j] = "word" /\ WordsTo(k, j) = w]
    <3>1. \E j \in DOMAIN args : k[j] = "word" /\ WordsTo(k, j) = w
      BY <1>1, <1>2 DEF WordsRead
    <3>2. PICK x : x = CHOOSE j \in DOMAIN args : k[j] = "word" /\ WordsTo(k, j) = w
      OBVIOUS
    <3>3. x \in 1..m /\ k[x] = "word" /\ WordsTo(k, x) = w
      BY <1>1, <3>1, <3>2
    <3> QED
      BY <1>2, <3>2, <3>3 DEF WordsRead
  <2> QED
    BY <2>1, <2>2
<1>4. set = [o \in DOMAIN options |-> Given(k, o)]
  <2>1. set = [o \in DOMAIN options |-> set[o]]
    BY <1>2 DEF FlagsRead
  <2>2. ASSUME NEW o \in DOMAIN options PROVE set[o] = Given(k, o)
    <3> DEFINE U == {j \in 1..m : Used(k, j, o)}
    <3>1. Uses(k, o) = U
      BY <1>1 DEF Uses, Used
    <3>2. CASE U = {}
      <4>1. set[o] = <<>>
        BY <1>2, <3>2 DEF FlagsRead
      <4> QED
        BY <3>1, <3>2, <4>1 DEF Given
    <3>3. CASE U # {}
      <4>1. U \subseteq Nat /\ \A x \in U : x <= m
        BY <1>1
      <4>2. PICK l \in U : \A y \in U : y <= l
        BY <1>1, <3>3, <4>1, Greatest
      <4>3. Max(Uses(k, o)) = l
        BY <3>1, <4>1, <4>2, MaxOf
      <4>4. l \in 1..m /\ Used(k, l, o) /\ \A j \in 1..m : Used(k, j, o) => j <= l
        BY <4>2
      <4>5. set[o] = IF Valued(o) THEN <<args[l + 1]>> ELSE <<TRUE>>
        BY <1>2, <4>4 DEF FlagsRead
      <4> QED
        BY <3>1, <3>3, <4>3, <4>5 DEF Given
    <3> QED
      BY <3>2, <3>3
  <2> QED
    BY <2>1, <2>2
<1> QED
  BY <1>1, <1>2, <1>3, <1>4 DEF Reading, m

LEMMA OptStart ==
  ASSUME OptInit
  PROVE  OptInv
<1>1. PICK m \in Nat : args \in [1..m -> Flags \cup Words]
  BY OptAssumption DEF OptInit, BoundedSeq, SeqOf
<1>2. args \in Seq(Flags \cup Words)
  BY <1>1
<1>3. /\ optStage = "new" /\ idx = 1 /\ addNext = FALSE /\ remainder = <<>> /\ options \in Seq(Options)
  BY OptAssumption DEF OptInit
<1>4. addNext \in BOOLEAN /\ ~ addNext
  BY <1>3
<1>5. remainder \in Seq(Flags \cup Words)
  BY <1>3
<1>6. OptTyped
  BY <1>2, <1>3, <1>4, <1>5 DEF OptTyped, OptInit
<1> QED
  BY <1>3, <1>4, <1>6 DEF OptInv, RequiredRaised

\* Where the loop goes on behind the next v arguments.
LEMMA Onward ==
  ASSUME OptInv, NEW v \in {1, 2}, idx \in Nat, idx + v <= Len(args) + 1, idx >= 1, Advance(v),
         NEW m \in Nat, m + 1 = idx + v, (\E k : Reads(k, m))', OptTyped'
  PROVE  OptInv'
<1>1. Len(args) \in Nat /\ args' = args /\ idx' = idx + v
  BY DEF OptInv, OptTyped, Advance
<1>2. idx' - 1 = m
  BY <1>1
<1>3. CASE idx + v > Len(args)
  <2>1. optStage' = "check" /\ m = Len(args')
    BY <1>1, <1>3 DEF Advance
  <2> QED
    BY <2>1 DEF OptInv, RequiredRaised
<1>4. CASE ~ (idx + v > Len(args))
  <2>1. optStage' = "loop" /\ idx' <= Len(args') /\ idx' \in Nat /\ idx' >= 1
    BY <1>1, <1>4 DEF Advance
  <2> QED
    BY <1>2, <2>1 DEF OptInv, RequiredRaised
<1> QED
  BY <1>3, <1>4

LEMMA OptStep ==
  ASSUME OptInv, [OptNext]_optVars
  PROVE  OptInv'
<1>1. OptTyped
  BY DEF OptInv
<1>2. Len(args) \in Nat
  BY <1>1 DEF OptTyped
<1>3. ASSUME optStage = "loop"
      PROVE  /\ idx \in Nat /\ idx >= 1 /\ idx <= Len(args) /\ idx - 1 \in Nat /\ (idx - 1) + 1 = idx
             /\ \E k : Reads(k, idx - 1)
             /\ arg = args[idx] /\ arg \in Flags \cup Words
  <2>1. idx \in Nat /\ idx >= 1 /\ idx <= Len(args) /\ \E k : Reads(k, idx - 1)
    BY <1>3 DEF OptInv
  <2>2. idx \in 1..Len(args)
    BY <1>2, <2>1
  <2> QED
    BY <1>1, <2>1, <2>2, ElementOfSeq DEF arg, OptTyped
<1>4. CASE Start
  <2>1. /\ options' = options \o Added /\ set' = [o \in DOMAIN options' |-> <<>>]
        /\ UNCHANGED <<halt, args, idx, addNext, remainder>> /\ idx = 1 /\ ~ addNext /\ remainder = <<>>
    BY <1>4 DEF Start, OptInv
  <2>2. options' \in Seq(Options)
    BY <1>1, <2>1, OptAssumption, ConcatProperties DEF OptTyped
  <2>3. OptTyped'
    BY <1>1, <2>1, <2>2 DEF OptTyped
  <2>4. ~ addNext' /\ remainder' = <<>>
    BY <2>1
  <2>5. (\E k : Reads(k, 0))'
    BY <2>1, <2>4, NoReading
  <2>6. CASE args = <<>>
    BY <1>4, <2>1, <2>3, <2>6 DEF Start, OptInv
  <2>7. CASE args # <<>>
    <3>1. optStage' = "loop"
      BY <1>4, <2>7 DEF Start
    <3>2. Len(args) >= 1
      BY <1>1, <1>2, <2>7, EmptySeq DEF OptTyped
    <3>3. idx' = 1 /\ idx' - 1 = 0
      BY <2>1
    <3> QED
      BY <2>1, <2>3, <2>5, <3>1, <3>2, <3>3 DEF OptInv, RequiredRaised
  <2> QED
    BY <2>6, <2>7
<1>5. ASSUME TakeRest \/ TakeWord PROVE OptInv'
  <2>1. optStage = "loop"
    BY <1>5 DEF TakeRest, TakeWord
  <2>2. /\ UNCHANGED <<options, halt, args, set>> /\ (addNext \/ args[idx] \notin Flags)
        /\ remainder' = Append(remainder, args[idx]) /\ Advance(1)
        /\ addNext' <=> addNext \/ HaltsAt(args[idx], remainder')
    <3>1. CASE TakeRest
      BY <1>3, <2>1, <3>1 DEF TakeRest, Advance
    <3>2. CASE TakeWord
      BY <1>3, <2>1, <3>2 DEF TakeWord, Advance
    <3> QED
      BY <1>5, <3>1, <3>2
  <2>3. addNext' <=> addNext \/ (halt.on /\ (args[idx] = halt.word \/ Len(remainder') = halt.n))
    BY <2>2 DEF HaltsAt
  <2>4. PICK m : m = idx - 1
    OBVIOUS
  <2>5. m \in Nat /\ m < Len(args) /\ m + 1 = idx /\ idx + 1 <= Len(args) + 1 /\ (m + 1) + 1 = idx + 1
    BY <1>2, <1>3, <2>1, <2>4
  <2>6. PICK k : Reads(k, m)
    BY <1>3, <2>1, <2>4
  <2>7. (\E l : Reads(l, m + 1))'
    BY <1>1, <2>2, <2>3, <2>5, <2>6, WordTaken
  <2>8. OptTyped'
    <3>1. remainder' \in Seq(Flags \cup Words)
      BY <1>1, <1>3, <2>1, <2>2 DEF OptTyped
    <3>2. addNext' \in BOOLEAN
      BY <1>1, <1>5 DEF TakeRest, TakeWord, HaltsAt, OptTyped
    <3> QED
      BY <1>1, <2>2, <3>1, <3>2 DEF OptTyped
  <2>9. m + 1 \in Nat
    BY <2>5
  <2> QED
    BY <1>3, <2>1, <2>2, <2>5, <2>7, <2>8, <2>9, Onward
<1>6. ASSUME Exit PROVE OptInv'
  BY <1>1, <1>6 DEF Exit, OptInv, OptTyped, RequiredRaised
<1>7. ASSUME AtFlag, Of(arg) # 0 PROVE optStage = "loop" /\ ~ addNext /\ arg \in Flags
                                        /\ Of(arg) \in DOMAIN options
  BY <1>1, <1>7, OfTyped DEF AtFlag
<1>8. ASSUME AtFlag, Of(arg) # 0, NEW v \in {1, 2}, v = 2 <=> Valued(Of(arg)), idx + v <= Len(args) + 1,
             set' = [set EXCEPT ![Of(arg)] = IF Valued(Of(arg)) THEN <<args[idx + 1]>> ELSE <<TRUE>>],
             Advance(v), UNCHANGED <<addNext, remainder>>
      PROVE  OptInv'
  <2>1. optStage = "loop" /\ ~ addNext /\ arg \in Flags /\ Of(arg) \in DOMAIN options
    BY <1>7, <1>8
  <2>2. PICK m : m = idx - 1
    OBVIOUS
  <2>3. UNCHANGED <<options, halt, args>>
    BY <1>8 DEF Advance
  <2>4. /\ m \in Nat /\ m + 1 = idx /\ m + 2 = idx + 1 /\ m + v <= Len(args) /\ m + v \in Nat
        /\ (m + v) + 1 = idx + v
    BY <1>2, <1>3, <1>8, <2>1, <2>2
  <2>5. PICK o \in DOMAIN options : o = Of(arg)
    BY <2>1
  <2>6. /\ args[m + 1] \in Flags /\ Of(args[m + 1]) = o /\ o # 0 /\ (v = 2 <=> Valued(o))
        /\ set' = [set EXCEPT ![o] = IF Valued(o) THEN <<args[m + 2]>> ELSE <<TRUE>>]
    BY <1>3, <1>8, <2>1, <2>4, <2>5
  <2>7. PICK k : Reads(k, m)
    BY <1>3, <2>1, <2>2
  <2>8. (\E l : Reads(l, m + v))'
    BY <1>1, <1>8, <2>1, <2>3, <2>4, <2>6, <2>7, FlagTaken
  <2>9. OptTyped'
    BY <1>1, <1>8, <2>3 DEF OptTyped
  <2> QED
    BY <1>3, <1>8, <2>1, <2>4, <2>8, <2>9, Onward
<1>9. CASE SetBool
  <2>1. AtFlag /\ Of(arg) # 0 /\ ~ Valued(Of(arg)) /\ optStage = "loop"
    BY <1>9 DEF SetBool, Valued, op, AtFlag
  <2>2. /\ set' = [set EXCEPT ![Of(arg)] = <<TRUE>>] /\ Advance(1) /\ UNCHANGED <<addNext, remainder>>
    BY <1>9 DEF SetBool
  <2>3. idx + 1 <= Len(args) + 1
    BY <1>2, <1>3, <2>1
  <2> QED
    BY <1>8, <2>1, <2>2, <2>3
<1>10. CASE SetValue
  <2>1. AtFlag /\ Of(arg) # 0 /\ Valued(Of(arg)) /\ optStage = "loop"
    BY <1>10 DEF SetValue, Valued, op, AtFlag
  <2>2. CASE idx = Len(args) \/ (op.kind = "number" /\ args[idx + 1] \notin Numeric)
    BY <1>6, <1>10, <2>2 DEF SetValue
  <2>3. CASE ~ (idx = Len(args) \/ (op.kind = "number" /\ args[idx + 1] \notin Numeric))
    <3>1. /\ set' = [set EXCEPT ![Of(arg)] = <<args[idx + 1]>>] /\ Advance(2)
          /\ UNCHANGED <<addNext, remainder>>
      BY <1>10, <2>3 DEF SetValue
    <3>2. idx + 2 <= Len(args) + 1
      BY <1>2, <1>3, <2>1, <2>3
    <3> QED
      BY <1>8, <2>1, <3>1, <3>2
  <2> QED
    BY <2>2, <2>3
<1>11. CASE NoSuchOption \/ ShowAdded
  BY <1>6, <1>11 DEF NoSuchOption, ShowAdded
<1>12. CASE Check
  <2>1. UNCHANGED <<options, set, halt, args, idx, addNext, remainder>> /\ optStage = "check"
    BY <1>12 DEF Check
  <2>2. optStage' \in {"exit", "done"} /\ RequiredRaised'
    BY <1>12 DEF Check, RequiredRaised
  <2>3. OptTyped'
    BY <1>1, <2>1 DEF OptTyped
  <2>4. ASSUME args # <<>> PROVE (\E k : Reads(k, Len(args)))'
    <3>1. PICK k : Reads(k, Len(args))
      BY <2>1, <2>4 DEF OptInv
    <3>2. Reads(k, Len(args))'
      <4>1. \A j : (Fits(k, j)' <=> Fits(k, j)) /\ (Halted(k, j)' <=> Halted(k, j))
        BY <2>1, SameReading
      <4>2. (\A flag : Of(flag)' = Of(flag)) /\ \A o : Valued(o)' <=> Valued(o)
        BY <2>1 DEF Of, Valued
      <4>3. WordsRead(k, Len(args))' /\ FlagsRead(k, Len(args))'
        BY <2>1, <3>1, <4>2 DEF Reads, WordsRead, FlagsRead, Used
      <4> QED
        BY <2>1, <3>1, <4>1, <4>2, <4>3 DEF Reads
    <3> QED
      BY <3>2
  <2> QED
    BY <2>1, <2>2, <2>3, <2>4 DEF OptInv
<1>13. CASE UNCHANGED optVars
  <2>1. UNCHANGED <<options, set, halt, args, optStage, idx, addNext, remainder>>
    BY <1>13 DEF optVars
  <2>2. ASSUME NEW k, NEW j PROVE (Fits(k, j)' <=> Fits(k, j)) /\ (Halted(k, j)' <=> Halted(k, j))
    BY <2>1, SameReading
  <2>3. (\A flag : Of(flag)' = Of(flag)) /\ \A o : Valued(o)' <=> Valued(o)
    BY <2>1 DEF Of, Valued
  <2>4. ASSUME NEW k, NEW m, Reads(k, m) PROVE Reads(k, m)'
    <3>1. WordsRead(k, m)' /\ FlagsRead(k, m)'
      BY <2>1, <2>3, <2>4 DEF Reads, WordsRead, FlagsRead, Used
    <3> QED
      BY <2>1, <2>2, <2>3, <2>4, <3>1 DEF Reads
  <2>5. OptTyped' /\ (RequiredRaised' <=> RequiredRaised)
    BY <1>1, <2>1 DEF OptTyped, RequiredRaised
  <2>6. ASSUME optStage = "loop" PROVE (\E k : Reads(k, idx - 1))'
    <3>1. PICK k : Reads(k, idx - 1)
      BY <1>3, <2>6
    <3>2. PICK m : m = idx - 1
      OBVIOUS
    <3>3. Reads(k, m)' /\ m = idx' - 1
      BY <2>1, <2>4, <3>1, <3>2
    <3> QED
      BY <3>3
  <2>7. ASSUME optStage \in {"check", "done"}, args # <<>> PROVE (\E k : Reads(k, Len(args)))'
    <3>1. PICK k : Reads(k, Len(args))
      BY <2>7 DEF OptInv
    <3>2. PICK m : m = Len(args)
      OBVIOUS
    <3>3. Reads(k, m)' /\ m = Len(args')
      BY <2>1, <2>4, <3>1, <3>2
    <3> QED
      BY <3>3
  <2> QED
    BY <2>1, <2>5, <2>6, <2>7 DEF OptInv
<1> QED
  BY <1>4, <1>5, <1>9, <1>10, <1>11, <1>12, <1>13 DEF OptNext

\* optparse/optparse.go Parse: when it returns, the arguments read in one way as flags with their
\* values and words; every option is set to what is behind its last flag, the remainder has
\* the words in order, and nothing behind the word that halts the parsing is a flag.
THEOREM ArgumentsRead == OptSpec => []ParsedRight
<1>1. OptInit => OptInv
  BY OptStart
<1>2. OptInv /\ [OptNext]_optVars => OptInv'
  BY OptStep
<1>3. OptInv => ParsedRight
  <2> SUFFICES ASSUME OptInv, optStage = "done", args # <<>>
               PROVE  RequiredRaised /\ \E k \in [DOMAIN args -> Kinds] : Reading(k)
    BY DEF ParsedRight
  <2>1. PICK k : Reads(k, Len(args))
    BY DEF OptInv
  <2>2. OptTyped /\ RequiredRaised
    BY DEF OptInv
  <2> QED
    BY <2>1, <2>2, ReadingIs
<1> QED
  BY <1>1, <1>2, <1>3, PTL DEF OptSpec

----------------------------------------------------------------------------
(* Completion *)

Scans == [skip : BOOLEAN, words : Seq(Flags \cup Words), opts : Nat, halted : BOOLEAN,
          long : SUBSET STRING, short : SUBSET STRING]
FirstScan == [skip |-> FALSE, words |-> <<>>, opts |-> 0, halted |-> FALSE, long |-> {}, short |-> {}]

LEMMA ScannedTyped ==
  ASSUME OptTyped, NEW s \in Scans, NEW word \in Flags \cup Words
  PROVE  Scanned(s, word) \in Scans
<1>1. Append(s.words, word) \in Seq(Flags \cup Words) /\ s.opts + 1 \in Nat
  BY DEF Scans
<1>2. (s.halted \/ GivesUp(s, word)) \in BOOLEAN
  OBVIOUS
<1>3. ASSUME Of(word) # 0
      PROVE  /\ options[Of(word)].long \in STRING /\ options[Of(word)].short \in STRING
             /\ Label(options[Of(word)]) \in BOOLEAN
  <2>1. Of(word) \in 1..Len(options)
    BY <1>3, OfTyped DEF OptTyped
  <2>2. options[Of(word)] \in Options
    BY <2>1, ElementOfSeq DEF OptTyped
  <2> QED
    BY <2>2 DEF Options, Label
<1>4. CASE s.skip
  BY <1>1, <1>4 DEF Scans, Scanned
<1>5. CASE ~ s.skip /\ word \notin Flags
  BY <1>1, <1>2, <1>5 DEF Scans, Scanned
<1>6. CASE ~ s.skip /\ word \in Flags /\ Of(word) = 0
  BY <1>1, <1>6 DEF Scans, Scanned
<1>7. CASE ~ s.skip /\ word \in Flags /\ Of(word) # 0
  BY <1>1, <1>3, <1>7 DEF Scans, Scanned
<1> QED
  BY <1>4, <1>5, <1>6, <1>7

\* The scan goes from word to word.
LEMMA ScanIs ==
  ASSUME OptTyped
  PROVE  /\ Scan \in [0..Len(args) -> Scans]
         /\ Scan[0] = FirstScan
         /\ \A m \in 1..Len(args) : Scan[m] = Scanned(Scan[m - 1], args[m])
<1> DEFINE n == Len(args)
           G == [m \in 1..n |-> [v \in Scans |-> Scanned(v, args[m])]]
           IsScan(f) == f = [m \in 0..n |-> IF m = 0 THEN FirstScan ELSE Scanned(f[m - 1], args[m])]
<1>1. n \in Nat /\ args \in Seq(Flags \cup Words)
  BY DEF OptTyped
<1>2. FirstScan \in Scans
  BY DEF FirstScan, Scans
<1>3. ASSUME NEW m \in 1..n, NEW v \in Scans PROVE Scanned(v, args[m]) \in Scans
  <2>1. args[m] \in Flags \cup Words
    BY <1>1, ElementOfSeq
  <2> QED
    BY <2>1, ScannedTyped
<1>4. Iterates(n, Scans, FirstScan, G)
  BY <1>1, <1>2, <1>3 DEF Iterates
<1>5. PICK f \in [0..n -> Scans] : \A m \in 0..n : f[m] = IF m = 0 THEN FirstScan ELSE G[m][f[m - 1]]
  <2> HIDE DEF G
  <2> QED
    BY <1>4, Iterated
<1>6. ASSUME NEW m \in 0..n, m # 0 PROVE f[m] = Scanned(f[m - 1], args[m])
  <2>1. m \in 1..n /\ m - 1 \in 0..n
    BY <1>1, <1>6
  <2>2. f[m - 1] \in Scans
    BY <2>1
  <2> QED
    BY <1>5, <1>6, <2>1, <2>2
<1>7. IsScan(f)
  <2> HIDE DEF G
  <2> QED
    BY <1>5, <1>6
<1>8. Scan = CHOOSE g : IsScan(g)
  BY DEF Scan, FirstScan
<1> HIDE DEF IsScan
<1>9. IsScan(Scan)
  BY <1>7, <1>8
<1>10. Scan = [m \in 0..n |-> IF m = 0 THEN FirstScan ELSE Scanned(Scan[m - 1], args[m])]
  BY <1>9 DEF IsScan
<1> DEFINE T == {m \in 0..n : Scan[m] \in Scans}
<1>11. 0 \in T /\ Scan[0] = FirstScan
  BY <1>1, <1>2, <1>10
<1>12. ASSUME NEW m \in 1..n PROVE Scan[m] = Scanned(Scan[m - 1], args[m])
  BY <1>10
<1>13. ASSUME NEW m \in 0..n - 1, m \in T PROVE m + 1 \in T
  <2>1. m + 1 \in 1..n /\ m + 1 \in 0..n /\ (m + 1) - 1 = m
    BY <1>1
  <2>2. Scan[m + 1] = Scanned(Scan[m], args[m + 1])
    BY <1>12, <2>1
  <2> QED
    BY <1>3, <1>13, <2>1, <2>2
<1>14. 0..n \subseteq T
  <2> HIDE DEF T
  <2> QED
    BY <1>1, <1>11, <1>13, InductTo
<1>15. Scan \in [0..n -> Scans]
  <2>1. Scan = [m \in 0..n |-> Scan[m]]
    BY <1>10
  <2>2. \A m \in 0..n : Scan[m] \in Scans
    BY <1>14
  <2> QED
    BY <2>1, <2>2
<1> QED
  BY <1>11, <1>12, <1>15

\* The scan of the first m arguments takes them as k reads them, until the parsing is halted.
Follows(k, m) ==
  /\ Scan[m].halted <=> Halted(k, m + 1)
  /\ ~ Halted(k, m + 1) =>
       /\ Scan[m].skip <=> \E j \in 1..m : j = m /\ k[j] = "flag" /\ Valued(Of(args[j]))
       /\ Len(Scan[m].words) = WordsTo(k, m)
       /\ \A j \in 1..m : k[j] = "word" => /\ WordsTo(k, j) \in 1..Len(Scan[m].words)
                                           /\ Scan[m].words[WordsTo(k, j)] = args[j]
       /\ \A f : f \in Scan[m].long <=> \E j \in 1..m : k[j] = "flag" /\ f = options[Of(args[j])].long
       /\ \A f : f \in Scan[m].short <=> \E j \in 1..m : k[j] = "flag" /\ f = options[Of(args[j])].short

LEMMA FollowsNext ==
  ASSUME OptTyped, halt.on => halt.n = 0, NEW k \in [1..Len(args) -> Kinds],
         \A j \in 1..Len(args) : Fits(k, j),
         \A j \in 1..Len(args) : k[j] = "flag" => (Label(options[Of(args[j])]) <=> Valued(Of(args[j]))),
         NEW m \in 0..Len(args) - 1, Follows(k, m)
  PROVE  Follows(k, m + 1)
<1> DEFINE s == Scan[m]
           t == Scan[m + 1]
           word == args[m + 1]
<1>1. Len(args) \in Nat /\ m \in Nat /\ m + 1 \in 1..Len(args) /\ m \in 0..Len(args) /\ (m + 1) - 1 = m
  BY DEF OptTyped
<1>2. s \in Scans /\ t \in Scans /\ t = Scanned(s, word)
  BY <1>1, ScanIs
<1>3. word \in Flags \cup Words
  BY <1>1, ElementOfSeq DEF OptTyped
<1>4. /\ s.halted <=> Halted(k, m + 1)
      /\ ~ Halted(k, m + 1) =>
           /\ s.skip <=> \E j \in 1..m : j = m /\ k[j] = "flag" /\ Valued(Of(args[j]))
           /\ Len(s.words) = WordsTo(k, m)
           /\ \A j \in 1..m : k[j] = "word" => /\ WordsTo(k, j) \in 1..Len(s.words)
                                               /\ s.words[WordsTo(k, j)] = args[j]
           /\ \A f : f \in s.long <=> \E j \in 1..m : k[j] = "flag" /\ f = options[Of(args[j])].long
           /\ \A f : f \in s.short <=> \E j \in 1..m : k[j] = "flag" /\ f = options[Of(args[j])].short
  BY DEF Follows
<1>5. Fits(k, m + 1) /\ k[m + 1] \in Kinds
  BY <1>1
<1>6. \A j \in 1..m + 1 : j \in 1..m \/ j = m + 1
  BY <1>1
<1>7. \A j \in 1..m : j \in 1..m + 1 /\ j # m + 1
  BY <1>1
<1>8. Halted(k, (m + 1) + 1) <=>
        \/ Halted(k, m + 1)
        \/ k[m + 1] = "word" /\ halt.on /\ (word = halt.word \/ WordsTo(k, m + 1) = halt.n)
  BY <1>1, HaltedNext
<1> HIDE DEF s, t, word
<1>9. CASE Halted(k, m + 1)
  <2>1. t.halted = TRUE
    BY <1>2, <1>4, <1>9 DEF Scanned, Scans
  <2> QED
    BY <1>8, <1>9, <2>1 DEF Follows, t
<1>10. CASE ~ Halted(k, m + 1) /\ k[m + 1] = "word"
  <2>1. word \notin Flags
    BY <1>5, <1>10 DEF Fits, word
  <2>2. ~ s.skip
    <3>1. ASSUME NEW j \in 1..m, j = m, k[j] = "flag", Valued(Of(args[j])) PROVE FALSE
      <4>1. m + 1 > 1 /\ k[m] = "flag" /\ Valued(Of(args[m]))
        BY <1>1, <3>1
      <4> QED
        BY <1>1, <1>5, <1>10, <4>1 DEF Fits
    <3> QED
      BY <1>4, <1>10, <3>1
  <2>3. t = [s EXCEPT !.words = Append(s.words, word), !.halted = s.halted \/ GivesUp(s, word)]
    BY <1>2, <2>1, <2>2 DEF Scanned
  <2>4. /\ t.words = Append(s.words, word) /\ t.halted = (s.halted \/ GivesUp(s, word))
        /\ t.skip = s.skip /\ t.long = s.long /\ t.short = s.short
    BY <1>2, <2>3 DEF Scans
  <2>5. WordsTo(k, m + 1) = WordsTo(k, m) + 1 /\ WordsTo(k, m) \in Nat
    BY <1>1, <1>10, WordsNext, WordsNat
  <2>6. GivesUp(s, word) <=> halt.on /\ (word = halt.word \/ WordsTo(k, m + 1) = halt.n)
    <3>1. halt.on => halt.n = 0 /\ halt.word # Empty
      BY OptAssumption DEF OptTyped
    <3> QED
      BY <2>5, <3>1 DEF GivesUp
  <2>7. t.halted <=> Halted(k, (m + 1) + 1)
    BY <1>4, <1>8, <1>10, <2>4, <2>6
  <2>8. s.words \in Seq(Flags \cup Words) /\ Len(s.words) \in Nat
    BY <1>2 DEF Scans
  <2>9. /\ Len(t.words) = Len(s.words) + 1 /\ t.words[Len(s.words) + 1] = word
        /\ \A x \in 1..Len(s.words) : t.words[x] = s.words[x]
    BY <1>3, <2>4, <2>8
  <2>10. Len(t.words) = WordsTo(k, m + 1) /\ Len(s.words) + 1 = WordsTo(k, m + 1)
    BY <1>4, <1>10, <2>5, <2>9
  <2>11. ASSUME NEW j \in 1..m + 1, k[j] = "word"
         PROVE  WordsTo(k, j) \in 1..Len(t.words) /\ t.words[WordsTo(k, j)] = args[j]
    <3>1. CASE j \in 1..m
      <4>1. WordsTo(k, j) \in 1..Len(s.words) /\ s.words[WordsTo(k, j)] = args[j]
        BY <1>4, <1>10, <2>11, <3>1
      <4> QED
        BY <2>8, <2>9, <4>1
    <3>2. CASE j = m + 1
      <4>1. WordsTo(k, j) = Len(s.words) + 1 /\ args[j] = word
        BY <2>10, <3>2 DEF word
      <4> QED
        BY <2>8, <2>9, <4>1
    <3> QED
      BY <1>6, <3>1, <3>2
  <2>12. t.skip <=> \E j \in 1..m + 1 : j = m + 1 /\ k[j] = "flag" /\ Valued(Of(args[j]))
    BY <1>10, <2>2, <2>4
  <2>13. ASSUME NEW f
         PROVE  /\ f \in t.long <=> \E j \in 1..m + 1 : k[j] = "flag" /\ f = options[Of(args[j])].long
                /\ f \in t.short <=> \E j \in 1..m + 1 : k[j] = "flag" /\ f = options[Of(args[j])].short
    BY <1>4, <1>6, <1>7, <1>10, <2>4
  <2> QED
    BY <2>7, <2>10, <2>11, <2>12, <2>13 DEF Follows, t
<1>11. CASE ~ Halted(k, m + 1) /\ k[m + 1] # "word"
  <2>1. ~ Halted(k, (m + 1) + 1) /\ WordsTo(k, m + 1) = WordsTo(k, m)
    BY <1>1, <1>8, <1>11, WordsNext
  <2>2. ASSUME t.words = s.words, t.halted = s.halted
        PROVE  /\ t.halted <=> Halted(k, (m + 1) + 1)
               /\ Len(t.words) = WordsTo(k, m + 1)
               /\ \A j \in 1..m + 1 : k[j] = "word" => /\ WordsTo(k, j) \in 1..Len(t.words)
                                                       /\ t.words[WordsTo(k, j)] = args[j]
    BY <1>4, <1>6, <1>11, <2>1, <2>2
  <2>3. CASE k[m + 1] = "value"
    <3>1. s.skip
      <4>1. m + 1 > 1 /\ k[m] = "flag" /\ Valued(Of(args[m]))
        BY <1>1, <1>5, <2>3 DEF Fits
      <4>2. m \in 1..m
        BY <1>1, <4>1
      <4> QED
        BY <1>4, <1>11, <4>1, <4>2
    <3>2. /\ t.words = s.words /\ t.halted = s.halted /\ ~ t.skip
          /\ t.long = s.long /\ t.short = s.short
      BY <1>2, <3>1 DEF Scanned, Scans
    <3>3. t.skip <=> \E j \in 1..m + 1 : j = m + 1 /\ k[j] = "flag" /\ Valued(Of(args[j]))
      BY <2>3, <3>2
    <3>4. ASSUME NEW f
          PROVE  /\ f \in t.long <=> \E j \in 1..m + 1 : k[j] = "flag" /\ f = options[Of(args[j])].long
                 /\ f \in t.short <=> \E j \in 1..m + 1 : k[j] = "flag" /\ f = options[Of(args[j])].short
      BY <1>4, <1>6, <1>7, <1>11, <2>3, <3>2
    <3> QED
      BY <2>2, <3>2, <3>3, <3>4 DEF Follows, t
  <2>4. CASE k[m + 1] = "flag"
    <3>1. word \in Flags /\ Of(word) # 0
      BY <1>5, <2>4 DEF Fits, word
    <3>2. ~ s.skip
      <4>1. ASSUME NEW j \in 1..m, j = m, k[j] = "flag", Valued(Of(args[j])) PROVE FALSE
        <5>1. m + 1 > 1 /\ k[m] = "flag" /\ Valued(Of(args[m]))
          BY <1>1, <4>1
        <5> QED
          BY <1>1, <1>5, <2>4, <5>1 DEF Fits
      <4> QED
        BY <1>4, <1>11, <4>1
    <3>3. /\ t.words = s.words /\ t.halted = s.halted /\ t.skip = Label(options[Of(word)])
          /\ t.long = s.long \cup {options[Of(word)].long}
          /\ t.short = s.short \cup {options[Of(word)].short}
      BY <1>2, <3>1, <3>2 DEF Scanned, Scans
    <3>4. t.skip <=> \E j \in 1..m + 1 : j = m + 1 /\ k[j] = "flag" /\ Valued(Of(args[j]))
      <4>1. Label(options[Of(word)]) <=> Valued(Of(word))
        BY <1>1, <2>4 DEF word
      <4>2. m + 1 \in 1..m + 1
        BY <1>1
      <4> QED
        BY <2>4, <3>3, <4>1, <4>2 DEF word
    <3>5. ASSUME NEW f
          PROVE  /\ f \in t.long <=> \E j \in 1..m + 1 : k[j] = "flag" /\ f = options[Of(args[j])].long
                 /\ f \in t.short <=> \E j \in 1..m + 1 : k[j] = "flag" /\ f = options[Of(args[j])].short
      <4>1. m + 1 \in 1..m + 1
        BY <1>1
      <4>2. (f \in t.long <=> f \in s.long \/ f = options[Of(args[m + 1])].long)
            /\ (f \in t.short <=> f \in s.short \/ f = options[Of(args[m + 1])].short)
        BY <3>3 DEF word
      <4> QED
        BY <1>4, <1>6, <1>7, <1>11, <2>4, <4>1, <4>2
    <3>6. /\ t.halted <=> Halted(k, (m + 1) + 1)
          /\ Len(t.words) = WordsTo(k, m + 1)
          /\ \A j \in 1..m + 1 : k[j] = "word" => /\ WordsTo(k, j) \in 1..Len(t.words)
                                                  /\ t.words[WordsTo(k, j)] = args[j]
      BY <2>2, <3>3
    <3> QED
      BY <3>4, <3>5, <3>6 DEF Follows, t
  <2> QED
    BY <1>5, <1>11, <2>3, <2>4 DEF Kinds
<1> QED
  BY <1>9, <1>10, <1>11

LEMMA FollowsAll ==
  ASSUME OptTyped, halt.on => halt.n = 0, NEW k \in [1..Len(args) -> Kinds],
         \A j \in 1..Len(args) : Fits(k, j),
         \A j \in 1..Len(args) : k[j] = "flag" => (Label(options[Of(args[j])]) <=> Valued(Of(args[j])))
  PROVE  Follows(k, Len(args))
<1> DEFINE T == {m \in 0..Len(args) : Follows(k, m)}
<1>1. Len(args) \in Nat
  BY DEF OptTyped
<1>2. 0 \in T
  <2>1. Scan[0] = FirstScan
    BY ScanIs
  <2>2. 1..0 = {} /\ 1..(0 + 1) - 1 = {}
    OBVIOUS
  <2>3. ~ Halted(k, 0 + 1)
    BY <2>2 DEF Halted
  <2>4. WordsTo(k, 0) = 0
    BY WordsNone
  <2>5. /\ Scan[0].halted = FALSE /\ Scan[0].skip = FALSE /\ Scan[0].words = <<>>
        /\ Scan[0].long = {} /\ Scan[0].short = {}
    BY <2>1 DEF FirstScan
  <2>6. Len(Scan[0].words) = 0
    BY <2>5
  <2>7. Follows(k, 0)
    BY <2>2, <2>3, <2>4, <2>5, <2>6 DEF Follows
  <2> QED
    BY <1>1, <2>7
<1>3. ASSUME NEW m \in 0..Len(args) - 1, m \in T PROVE m + 1 \in T
  <2>1. Follows(k, m + 1)
    BY <1>3, FollowsNext
  <2> QED
    BY <1>1, <2>1
<1>4. 0..Len(args) \subseteq T
  <2> HIDE DEF T
  <2> QED
    BY <1>1, <1>2, <1>3, InductTo
<1> QED
  BY <1>1, <1>4

\* An option is set just where one of its flags was read.
LEMMA SetIsUsed ==
  ASSUME OptTyped, NEW k, Reads(k, Len(args)), NEW o \in DOMAIN options
  PROVE  set[o] # <<>> <=> \E j \in 1..Len(args) : Used(k, j, o)
<1> DEFINE U == {j \in 1..Len(args) : Used(k, j, o)}
<1>1. Len(args) \in Nat /\ FlagsRead(k, Len(args))
  BY DEF OptTyped, Reads
<1>2. CASE U = {}
  BY <1>1, <1>2 DEF FlagsRead
<1>3. CASE U # {}
  <2>1. U \subseteq Nat /\ \A x \in U : x <= Len(args)
    BY <1>1
  <2>2. PICK l \in U : \A y \in U : y <= l
    BY <1>1, <1>3, <2>1, Greatest
  <2>3. set[o] = IF Valued(o) THEN <<args[l + 1]>> ELSE <<TRUE>>
    BY <1>1, <2>2 DEF FlagsRead
  <2> QED
    BY <1>3, <2>3
<1> QED
  BY <1>2, <1>3

LEMMA CompletionIs ==
  ASSUME OptInv
  PROVE  CompletionAgrees
<1> DEFINE used == {o \in DOMAIN options : set[o] # <<>>}
           flags(o) == {options[o].long, options[o].short}
           alone(o) == \A p \in DOMAIN options \ {o} : flags(o) \cap flags(p) = {}
           L == Len(args)
<1> SUFFICES ASSUME optStage = "done", args # <<>>, halt.on => halt.n = 0,
                    \A o \in used : ~ options[o].hidden \/ ~ Valued(o)
             PROVE  /\ ScanWords.halted = addNext
                    /\ ~ addNext => ScanWords.words = remainder
                    /\ ~ addNext /\ ~ AfterFlag /\ (\A o \in used : alone(o)) =>
                         FlagsOffered = {f \in Flags : /\ Of(f) # 0 /\ ~ options[Of(f)].hidden
                                                  /\ Of(f) \notin used}
  BY DEF CompletionAgrees
<1>1. OptTyped /\ L \in Nat
  BY DEF OptInv, OptTyped
<1>2. PICK k : Reads(k, L)
  BY DEF OptInv
<1>3. /\ k \in [1..L -> Kinds] /\ (\A j \in 1..L : Fits(k, j)) /\ WordsRead(k, L)
      /\ addNext <=> Halted(k, L + 1)
  BY <1>2 DEF Reads
<1>4. ASSUME NEW j \in 1..L, k[j] = "flag" PROVE Of(args[j]) \in used
  <2>1. Of(args[j]) # 0
    BY <1>3, <1>4 DEF Fits
  <2>2. Of(args[j]) \in DOMAIN options
    BY <1>1, <2>1, OfTyped
  <2>3. Used(k, j, Of(args[j]))
    BY <1>4 DEF Used
  <2> QED
    BY <1>1, <1>2, <2>2, <2>3, SetIsUsed
<1>5. ASSUME NEW o \in used PROVE \E j \in 1..L : k[j] = "flag" /\ Of(args[j]) = o
  <2>1. \E j \in 1..L : Used(k, j, o)
    BY <1>1, <1>2, SetIsUsed
  <2> QED
    BY <2>1 DEF Used
<1>6. ASSUME NEW j \in 1..L, k[j] = "flag" PROVE Label(options[Of(args[j])]) <=> Valued(Of(args[j]))
  <2>1. ~ options[Of(args[j])].hidden \/ ~ Valued(Of(args[j]))
    BY <1>4, <1>6
  <2> QED
    BY <2>1 DEF Label, Valued
<1>7. Follows(k, L)
  BY <1>1, <1>3, <1>6, FollowsAll
<1>8. ScanWords = Scan[L] /\ Scan[L] \in Scans
  BY <1>1, ScanIs DEF ScanWords
<1>9. ScanWords.halted = addNext
  <2>1. ScanWords.halted \in BOOLEAN /\ addNext \in BOOLEAN
    BY <1>1, <1>8 DEF Scans, OptTyped
  <2>2. ScanWords.halted <=> addNext
    BY <1>3, <1>7, <1>8 DEF Follows
  <2> QED
    BY <2>1, <2>2
<1>10. ASSUME ~ addNext PROVE ScanWords.words = remainder
  <2>1. ~ Halted(k, L + 1)
    BY <1>3, <1>10
  <2>2. /\ Len(Scan[L].words) = WordsTo(k, L)
        /\ \A j \in 1..L : k[j] = "word" => Scan[L].words[WordsTo(k, j)] = args[j]
    BY <1>7, <2>1 DEF Follows
  <2>3. /\ Scan[L].words \in Seq(Flags \cup Words) /\ remainder \in Seq(Flags \cup Words)
        /\ DOMAIN remainder = 1..Len(remainder)
    BY <1>1, <1>8 DEF Scans, OptTyped
  <2>4. Len(Scan[L].words) = Len(remainder)
    BY <1>3, <2>2 DEF WordsRead
  <2>5. ASSUME NEW w \in 1..Len(Scan[L].words) PROVE Scan[L].words[w] = remainder[w]
    <3>1. PICK j \in 1..L : k[j] = "word" /\ WordsTo(k, j) = w
      BY <1>3, <2>3, <2>4 DEF WordsRead
    <3> QED
      BY <1>3, <2>2, <3>1 DEF WordsRead
  <2>6. Scan[L].words = remainder
    BY <2>3, <2>4, <2>5, SeqEqual
  <2> QED
    BY <1>8, <2>6
<1>11. ASSUME ~ addNext, ~ AfterFlag, \A o \in used : alone(o)
       PROVE  FlagsOffered = {f \in Flags : Of(f) # 0 /\ ~ options[Of(f)].hidden /\ Of(f) \notin used}
  <2> DEFINE seen == ScanWords
             fresh == {o \in DOMAIN options : ~ (\/ options[o].long \in seen.long
                                                 \/ options[o].short \in seen.short
                                                 \/ options[o].hidden)}
  <2>1. FlagsOffered = {f \in Flags : Of(f) \in fresh}
    BY <1>11 DEF FlagsOffered
  <2>2. /\ \A f : f \in seen.long <=> \E j \in 1..L : k[j] = "flag" /\ f = options[Of(args[j])].long
        /\ \A f : f \in seen.short <=> \E j \in 1..L : k[j] = "flag" /\ f = options[Of(args[j])].short
    BY <1>3, <1>7, <1>8, <1>11 DEF Follows
  <2>3. ASSUME NEW o \in used PROVE o \notin fresh
    <3>1. PICK j \in 1..L : k[j] = "flag" /\ Of(args[j]) = o
      BY <1>5
    <3>2. options[o].long \in seen.long
      BY <2>2, <3>1
    <3> QED
      BY <3>2
  <2>4. ASSUME NEW o \in DOMAIN options, ~ options[o].hidden, o \notin used PROVE o \in fresh
    <3>1. ASSUME NEW j \in 1..L, k[j] = "flag"
          PROVE  options[Of(args[j])].long # options[o].long /\ options[Of(args[j])].short # options[o].short
      <4>1. PICK p \in used : p = Of(args[j])
        BY <1>4, <3>1
      <4>2. p # o /\ alone(p)
        BY <1>11, <2>4
      <4>3. flags(p) \cap flags(o) = {}
        BY <2>4, <4>2
      <4> QED
        BY <4>1, <4>3
    <3>2. options[o].long \notin seen.long /\ options[o].short \notin seen.short
      BY <2>2, <3>1
    <3> QED
      BY <2>4, <3>2
  <2>5. fresh = {o \in DOMAIN options : ~ options[o].hidden /\ o \notin used}
    <3> HIDE DEF used
    <3>1. \A o \in fresh : o \in DOMAIN options /\ ~ options[o].hidden /\ o \notin used
      BY <2>3
    <3> HIDE DEF fresh
    <3>2. fresh \subseteq DOMAIN options
      BY DEF fresh
    <3> QED
      BY <2>4, <3>1, <3>2
  <2>6. \A f : Of(f) \in {0} \cup DOMAIN options
    BY <1>1, OfTyped
  <2>7. 0 \notin DOMAIN options
    BY <1>1 DEF OptTyped
  <2> QED
    <3> HIDE DEF used, fresh
    <3>1. ASSUME NEW f \in Flags
          PROVE  Of(f) \in fresh <=> Of(f) # 0 /\ ~ options[Of(f)].hidden /\ Of(f) \notin used
      BY <2>5, <2>6, <2>7
    <3> QED
      BY <2>1, <3>1
<1> QED
  BY <1>9, <1>10, <1>11

\* optparse/optparse.go, completion: the scan of the words, which knows the options only by their
\* labels, takes a line apart as Parse does, and what is offered are the flags of the visible
\* options that Parse has not set; with the exceptions that the property names.
THEOREM CompletionIsParsing == OptSpec => []CompletionAgrees
<1>1. OptInit => OptInv
  BY OptStart
<1>2. OptInv /\ [OptNext]_optVars => OptInv'
  BY OptStep
<1>3. OptInv => CompletionAgrees
  BY CompletionIs
<1> QED
  BY <1>1, <1>2, <1>3, PTL DEF OptSpec

----------------------------------------------------------------------------
(* BitSet *)

Held == WordCount(size)

BitsTyped ==
  /\ size \in 0..UintMax /\ Held \in Nat
  /\ bits \in [1..Held -> SUBSET (0..WordBits - 1)]

\* Every bit there is says whether its index is a member, the ones behind the last index too.
BitsInv ==
  /\ BitsTyped
  /\ ~ panicked => \A b \in 0..Held * WordBits - 1 : Bit(bits, WordBits, b) <=> b \in members
  /\ out # <<>> =>
       \A b \in 0..Held * WordBits - 1 : Bit(out, ByteBits, b) <=> b \in printed

LEMMA BitsPositive ==
  WordBits \in Nat /\ WordBits > 0 /\ WordBytes \in Nat /\ WordBytes > 0
    /\ ByteBits \in Nat /\ ByteBits > 0
<1>1. WordBytes \in Nat \ {0} /\ ByteBits \in Nat \ {0}
  BY SetAssumption
<1>2. ByteBits * 1 <= ByteBits * WordBytes
  BY <1>1, TimesUpTo
<1> QED
  BY <1>1, <1>2 DEF WordBits

LEMMA CountTyped ==
  ASSUME NEW n \in Nat
  PROVE  WordCount(n) \in Nat
<1>1. (n + WordBits) - 1 \in Int /\ UintMax + 1 \in Nat /\ UintMax + 1 > 0
  BY BitsPositive, SetAssumption
<1>2. ((n + WordBits) - 1) % (UintMax + 1) \in Nat
  BY <1>1, DivMod
<1> QED
  BY <1>2, BitsPositive, DivMod DEF WordCount

\* Where an index is among the words.
LEMMA Place ==
  ASSUME NEW b \in Nat
  PROVE  /\ b = (b % WordBits) + (WordBits * (b \div WordBits))
         /\ b % WordBits \in 0..WordBits - 1 /\ b \div WordBits \in Nat
         /\ Word(b) \in Nat /\ Word(b) >= 1 /\ Word(b) - 1 = b \div WordBits
<1>1. b \div WordBits \in Nat /\ b % WordBits \in 0..WordBits - 1
      /\ b = (b % WordBits) + (WordBits * (b \div WordBits))
  BY BitsPositive, DivMod
<1> QED
  BY <1>1 DEF Word

LEMMA PlaceWithin ==
  ASSUME NEW n \in Nat, NEW b \in 0..n * WordBits - 1
  PROVE  b \in Nat /\ Word(b) \in 1..n
<1>1. b \in Nat /\ b < n * WordBits
  BY BitsPositive
<1>2. b \div WordBits < n
  BY <1>1, BitsPositive, DivLess
<1> QED
  BY <1>1, <1>2, Place

\* A bit of another index is another one.
LEMMA Apart ==
  ASSUME NEW a \in Nat, NEW b \in Nat, Word(a) = Word(b), a % WordBits = b % WordBits
  PROVE  a = b
<1>1. a \div WordBits = b \div WordBits
  BY Place
<1>2. a = (a % WordBits) + (WordBits * (a \div WordBits))
  BY Place
<1>3. b = (b % WordBits) + (WordBits * (b \div WordBits))
  BY Place
<1> QED
  BY <1>1, <1>2, <1>3

\* Unless the size overflows, the words have a bit for every index below it.
LEMMA CountEnough ==
  ASSUME NEW n \in Nat, n + WordBits - 1 <= UintMax
  PROVE  n <= WordCount(n) * WordBits
<1> DEFINE a == (n + WordBits) - 1
           q == a \div WordBits
           r == a % WordBits
<1>1. a \in Nat /\ UintMax + 1 \in Nat /\ a < UintMax + 1
  BY BitsPositive, SetAssumption
<1>2. WordCount(n) = q
  <2>1. \A c \in Nat : a < c => a % c = a
    <3> HIDE DEF a
    <3> QED
      BY <1>1, ModSmall
  <2>2. a % (UintMax + 1) = a
    <3> HIDE DEF a
    <3> QED
      BY <1>1, <2>1
  <2>3. n + (WordBits - 1) = a
    BY BitsPositive
  <2> QED
    BY <2>2, <2>3 DEF WordCount
<1>3. r \in 0..WordBits - 1 /\ q \in Nat /\ a = r + (WordBits * q)
  BY <1>1, BitsPositive, DivMod
<1>4. WordBits * q = q * WordBits /\ q * WordBits \in Nat
  BY <1>3, BitsPositive
<1>5. n = (a - WordBits) + 1
  BY BitsPositive
<1> HIDE DEF a, q, r
<1>6. n = ((r + (q * WordBits)) - WordBits) + 1
  BY <1>3, <1>4, <1>5
<1>7. r - WordBits <= -1
  BY <1>3, BitsPositive
<1> QED
  BY <1>2, <1>3, <1>4, <1>6, <1>7, BitsPositive

\* A bit of a word is that of one of its bytes.
LEMMA ByteHasBit ==
  ASSUME NEW m \in Nat, NEW ws \in [1..m -> SUBSET (0..WordBits - 1)], NEW bs,
         bs = [n \in 1..m * WordBytes |-> ByteOf(ws[Holder(n)], (n - 1) % WordBytes)],
         NEW b \in 0..m * WordBits - 1
  PROVE  Bit(bs, ByteBits, b) <=> Bit(ws, WordBits, b)
<1> DEFINE q == b \div ByteBits
           x == b % ByteBits
<1>1. /\ b \in Nat /\ WordBytes \in Nat \ {0} /\ ByteBits \in Nat \ {0}
      /\ WordBits = ByteBits * WordBytes
  BY PlaceWithin, SetAssumption DEF WordBits
<1>2. q \in Nat /\ x \in 0..ByteBits - 1
  BY <1>1, DivMod
<1>3. b \div WordBits = q \div WordBytes /\ b % WordBits = (ByteBits * (q % WordBytes)) + x
  BY <1>1, DigitsOfTwo
<1> HIDE DEF q, x
<1>4. q + 1 \in 1..m * WordBytes
  <2>1. b < (m * WordBytes) * ByteBits
    <3>1. m * WordBits = (m * WordBytes) * ByteBits
      BY <1>1
    <3>2. b < m * WordBits
      BY BitsPositive
    <3> QED
      BY <3>1, <3>2
  <2>2. m * WordBytes \in Nat
    BY <1>1
  <2>3. q < m * WordBytes
    <3>1. ASSUME NEW c \in Nat, b < c * ByteBits PROVE b \div ByteBits < c
      BY <1>1, <3>1, BitsPositive, DivLess
    <3> QED
      BY <2>1, <2>2, <3>1 DEF q
  <2> QED
    BY <1>2, <2>2, <2>3
<1>5. (q + 1) - 1 = q
  BY <1>2
<1>6. bs[q + 1] = ByteOf(ws[(q \div WordBytes) + 1], q % WordBytes)
  BY <1>4, <1>5 DEF Holder
<1>7. Bit(bs, ByteBits, b) <=> x \in bs[q + 1]
  BY DEF Bit, q, x
<1>8. Bit(ws, WordBits, b) <=> (ByteBits * (q % WordBytes)) + x \in ws[(q \div WordBytes) + 1]
  BY <1>3 DEF Bit
<1> QED
  BY <1>2, <1>6, <1>7, <1>8 DEF ByteOf

----------------------------------------------------------------------------
(* Steps *)

\* Set and Clear change the bit of their index only.
LEMMA ChangeStep ==
  ASSUME BitsInv, NEW i0 \in Indices, NEW word, Change(i0, word),
         \/ word = bits[Word(i0)] \cup Mask(i0) /\ members' = members \cup {i0}
         \/ word = bits[Word(i0)] \ Mask(i0) /\ members' = members \ {i0}
  PROVE  BitsInv'
<1>1. /\ BitsTyped /\ ~ panicked /\ UNCHANGED <<size, out, printed>> /\ i0 \in Nat
      /\ Held' = Held
  BY SetAssumption DEF BitsInv, Change, Held
<1>2. CASE Word(i0) \notin DOMAIN bits
  <2>1. panicked' = TRUE /\ bits' = bits
    BY <1>2 DEF Change
  <2> QED
    BY <1>1, <2>1 DEF BitsInv, BitsTyped
<1>3. CASE Word(i0) \in DOMAIN bits
  <2>1. bits' = [bits EXCEPT ![Word(i0)] = word] /\ panicked' = panicked
    BY <1>3 DEF Change
  <2>2. DOMAIN bits = 1..Held /\ bits[Word(i0)] \in SUBSET (0..WordBits - 1)
    BY <1>1, <1>3 DEF BitsTyped
  <2>3. i0 % WordBits \in 0..WordBits - 1
    BY <1>1, Place
  <2>4. word \in SUBSET (0..WordBits - 1)
    BY <2>2, <2>3 DEF Mask
  <2>5. BitsTyped'
    BY <1>1, <2>1, <2>2, <2>4 DEF BitsTyped
  <2>6. ASSUME NEW b \in 0..Held * WordBits - 1
        PROVE  Bit(bits', WordBits, b) <=> b \in members'
    <3>1. b \in Nat /\ Word(b) \in 1..Held
      BY <1>1, PlaceWithin DEF BitsTyped
    <3>2. Bit(bits, WordBits, b) <=> b \in members
      BY <1>1 DEF BitsInv
    <3>3. /\ Bit(bits, WordBits, b) <=> b % WordBits \in bits[Word(b)]
          /\ Bit(bits', WordBits, b) <=> b % WordBits \in bits'[Word(b)]
      BY DEF Bit, Word
    <3>4. CASE Word(b) # Word(i0)
      <4>1. bits'[Word(b)] = bits[Word(b)] /\ b # i0
        BY <2>1, <2>2, <3>1, <3>4
      <4> QED
        BY <3>2, <3>3, <4>1
    <3>5. CASE Word(b) = Word(i0)
      <4>1. bits'[Word(b)] = word
        BY <2>1, <2>2, <3>1, <3>5
      <4>2. b % WordBits \in Mask(i0) <=> b = i0
        BY <1>1, <3>1, <3>5, Apart DEF Mask
      <4> QED
        BY <3>2, <3>3, <3>5, <4>1, <4>2
    <3> QED
      BY <3>4, <3>5
  <2>7. out' = out /\ printed' = printed
    BY <1>1
  <2> QED
    BY <1>1, <2>5, <2>6, <2>7 DEF BitsInv
<1> QED
  BY <1>2, <1>3

LEMMA SetStart ==
  ASSUME SetInit
  PROVE  BitsInv
<1>1. size \in 0..UintMax /\ Held \in Nat /\ members = {} /\ out = <<>>
  BY SetAssumption, CountTyped DEF SetInit, Held
<1>2. bits = [w \in 1..Held |-> {}]
  BY DEF SetInit, Held
<1>3. BitsTyped
  BY <1>1, <1>2 DEF BitsTyped
<1>4. ASSUME NEW b \in 0..Held * WordBits - 1 PROVE ~ Bit(bits, WordBits, b)
  <2>1. Word(b) \in 1..Held
    BY <1>1, PlaceWithin
  <2> QED
    BY <1>2, <2>1 DEF Bit, Word
<1> QED
  BY <1>1, <1>3, <1>4 DEF BitsInv

LEMMA SetStep ==
  ASSUME BitsInv, [SetNext]_setVars
  PROVE  BitsInv'
<1>1. BitsTyped /\ Held \in Nat
  BY DEF BitsInv, BitsTyped
<1>2. ASSUME NEW b \in Indices, Set(b) PROVE BitsInv'
  BY <1>2, ChangeStep DEF Set
<1>3. ASSUME NEW b \in Indices, Clear(b) PROVE BitsInv'
  BY <1>3, ChangeStep DEF Clear
<1>4. CASE Reset
  <2>1. /\ ~ panicked /\ bits' = [w \in DOMAIN bits |-> {}] /\ members' = {}
        /\ UNCHANGED <<size, out, panicked, printed>> /\ Held' = Held
    BY <1>4 DEF Reset, Held
  <2>2. bits' = [w \in 1..Held |-> {}]
    BY <1>1, <2>1 DEF BitsTyped
  <2>3. BitsTyped'
    BY <1>1, <2>1, <2>2 DEF BitsTyped
  <2>4. ASSUME NEW b \in 0..Held * WordBits - 1 PROVE ~ Bit(bits', WordBits, b)
    <3>1. Word(b) \in 1..Held
      BY <1>1, PlaceWithin
    <3> QED
      BY <2>2, <3>1 DEF Bit, Word
  <2> QED
    BY <2>1, <2>3, <2>4 DEF BitsInv
<1>5. CASE String
  <2>1. /\ ~ panicked /\ printed' = members /\ UNCHANGED <<size, bits, panicked, members>>
        /\ out' = [n \in 1..Len(bits) * WordBytes |-> ByteOf(bits[Holder(n)], (n - 1) % WordBytes)]
        /\ Held' = Held
    BY <1>5 DEF String, Held
  <2>2. Len(bits) = Held /\ bits \in [1..Held -> SUBSET (0..WordBits - 1)]
    BY <1>1 DEF BitsTyped
  <2>3. ASSUME NEW b \in 0..Held * WordBits - 1
        PROVE  Bit(out', ByteBits, b) <=> b \in printed'
    <3>1. Bit(out', ByteBits, b) <=> Bit(bits, WordBits, b)
      BY <1>1, <2>1, <2>2, ByteHasBit
    <3>2. Bit(bits, WordBits, b) <=> b \in members
      BY <2>1 DEF BitsInv
    <3> QED
      BY <2>1, <3>1, <3>2
  <2>4. BitsTyped'
    BY <1>1, <2>1 DEF BitsTyped
  <2> QED
    BY <2>1, <2>3, <2>4 DEF BitsInv
<1>6. CASE UNCHANGED setVars
  <2>1. UNCHANGED <<size, bits, out, panicked, members, printed>> /\ Held' = Held
    BY <1>6 DEF setVars, Held
  <2> QED
    BY <2>1 DEF BitsInv, BitsTyped
<1> QED
  BY <1>2, <1>3, <1>4, <1>5, <1>6 DEF SetNext

\* bitset/bitset.go: whatever calls come in whatever order, an index below the size has its bit, and
\* the bit is set if and only if the index was set and not cleared since; String shows these bits.
THEOREM BitsAreMembers == SetSpec => []BitsRight
<1>1. SetInit => BitsInv
  BY SetStart
<1>2. BitsInv /\ [SetNext]_setVars => BitsInv'
  BY SetStep
<1>3. BitsInv => BitsRight
  <2> SUFFICES ASSUME BitsInv, size + WordBits - 1 <= UintMax, NEW b \in 0..size - 1
               PROVE  /\ Word(b) \in DOMAIN bits
                      /\ ~ panicked => (Bit(bits, WordBits, b) <=> b \in members)
                      /\ out # <<>> => (Bit(out, ByteBits, b) <=> b \in printed)
    BY DEF BitsRight
  <2>1. size \in Nat /\ BitsTyped /\ Held \in Nat /\ DOMAIN bits = 1..Held
    BY DEF BitsInv, BitsTyped
  <2>2. size <= Held * WordBits /\ Held * WordBits \in Nat
    BY <2>1, CountEnough, BitsPositive DEF Held
  <2>3. b \in 0..Held * WordBits - 1
    BY <2>1, <2>2
  <2>4. Word(b) \in 1..Held
    BY <2>1, <2>3, PlaceWithin
  <2> QED
    BY <2>1, <2>3, <2>4 DEF BitsInv
<1> QED
  BY <1>1, <1>2, <1>3, PTL DEF SetSpec

----------------------------------------------------------------------------
(* Acceptable *)

AcceptOption == [order : Nat, value : STRING \cup {latin1}, weight : Nat, wildcard : BOOLEAN,
                 metaWildcard : BOOLEAN, identity : BOOLEAN]

\* The option o is what the header says of a name.
Says(o, name, weight) ==
  /\ o.value = name /\ o.weight = weight
  /\ o.wildcard <=> IsWildcard(name)
  /\ o.metaWildcard <=> header.key \in {"Accept", "Accept-Language"} /\ name \in DOMAIN Family
  /\ o.identity <=> header.key = "Accept-Encoding" /\ name = "identity"

SaysPart(o, p) == Says(o, p.name, Weight(p.qs))

PartsListed ==
  /\ Len(opts) <= Len(header.parts)
  /\ \A k \in 1..Len(opts) : SaysPart(opts[k], header.parts[k])

\* The options are those of the header.
AllListed ==
  /\ \A k \in DOMAIN opts : \/ \E p \in ToSet(header.parts) : SaysPart(opts[k], p)
                            \/ Implied /\ Says(opts[k], latin1, One)
  /\ \A p \in ToSet(header.parts) : \E k \in DOMAIN opts : SaysPart(opts[k], p)
  /\ Implied => \E k \in DOMAIN opts : Says(opts[k], latin1, One)

InOrder == \A k, l \in DOMAIN opts : k < l => ~ Less(opts[l], opts[k])

AcceptInv ==
  /\ header \in Headers /\ opts \in Seq(AcceptOption)
  /\ \/ acceptStage = "parts" /\ header.parts # <<>> /\ PartsListed
     \/ acceptStage = "sort" /\ header.parts # <<>> /\ AllListed
     \/ acceptStage = "parsed" /\ header.parts # <<>> /\ AllListed /\ InOrder
     \/ acceptStage = "parsed" /\ header.parts = <<>> /\ opts = <<>>

LEMMA HeaderTyped ==
  ASSUME header \in Headers
  PROVE  /\ header.parts \in Seq([name : STRING, qs : Seq(Nat)])
         /\ Len(header.parts) \in Nat /\ DOMAIN header.parts = 1..Len(header.parts)
         /\ \A k \in 1..Len(header.parts) : /\ header.parts[k].name \in STRING
                                            /\ header.parts[k].qs \in Seq(Nat)
<1>1. header.parts \in Seq([name : STRING, qs : Seq(Nat)])
  BY AcceptAssumption
<1>2. Len(header.parts) \in Nat /\ DOMAIN header.parts = 1..Len(header.parts)
  BY <1>1, LenProperties
<1>3. \A k \in 1..Len(header.parts) : header.parts[k] \in [name : STRING, qs : Seq(Nat)]
  BY <1>1, ElementOfSeq
<1> QED
  BY <1>1, <1>2, <1>3

LEMMA WeightTyped ==
  ASSUME NEW qs \in Seq(Nat)
  PROVE  Weight(qs) \in Nat
<1> DEFINE numbers == {k \in DOMAIN qs : qs[k] \notin {NoNumber, Huge}}
           first == CHOOSE k \in numbers : \A l \in numbers : k <= l
<1>0. DOMAIN qs = 1..Len(qs) /\ Len(qs) \in Nat
  BY LenProperties
<1>1. CASE qs = <<>>
  BY <1>1 DEF Weight, One
<1>2. CASE qs # <<>> /\ numbers # {}
  <2>1. numbers \subseteq Nat
    BY <1>0
  <2>2. \E k \in numbers : \A l \in numbers : k <= l
    <3> HIDE DEF numbers
    <3> QED
      BY <1>2, <2>1, Least
  <2>3. first \in numbers
    <3> HIDE DEF numbers
    <3> QED
      BY <2>2
  <2>4. qs[first] \in Nat
    <3>1. first \in 1..Len(qs)
      BY <1>0, <2>3
    <3> HIDE DEF first
    <3> QED
      BY <3>1, ElementOfSeq
  <2>5. Weight(qs) = qs[first]
    BY <1>2 DEF Weight
  <2> QED
    BY <2>4, <2>5
<1>3. CASE qs # <<>> /\ numbers = {}
  <2>1. Weight(qs) = IF qs[Len(qs)] = NoNumber THEN 0 ELSE Huge
    BY <1>3 DEF Weight
  <2>2. Len(qs) \in 1..Len(qs)
    BY <1>0, <1>3, EmptySeq
  <2>3. qs[Len(qs)] \in Nat
    BY <2>2, ElementOfSeq
  <2>4. qs[Len(qs)] \in {NoNumber, Huge}
    BY <1>0, <1>3, <2>2
  <2> QED
    BY <2>1, <2>3, <2>4
<1> QED
  BY <1>1, <1>2, <1>3

LEMMA OptionIs ==
  ASSUME NEW name \in STRING \cup {latin1}, NEW weight \in Nat, opts \in Seq(AcceptOption)
  PROVE  Option(name, weight) \in AcceptOption /\ Says(Option(name, weight), name, weight)
<1>1. Len(opts) \in Nat
  BY LenProperties
<1>2. Option(name, weight) \in AcceptOption
  BY <1>1 DEF Option, AcceptOption, IsWildcard
<1> QED
  BY <1>2 DEF Option, Says

LEMMA AcceptStart ==
  ASSUME AcceptInit
  PROVE  AcceptInv
<1>1. opts = <<>> /\ opts \in Seq(AcceptOption) /\ Len(opts) = 0 /\ header \in Headers
  BY DEF AcceptInit
<1>2. Len(header.parts) \in Nat
  BY <1>1, HeaderTyped
<1> QED
  BY <1>1, <1>2 DEF AcceptInit, AcceptInv, PartsListed

LEMMA PartStep ==
  ASSUME AcceptInv, ParsePart
  PROVE  AcceptInv'
<1> DEFINE n == Len(opts)
           part == header.parts[n + 1]
           o == Option(part.name, Weight(part.qs))
<1>1. /\ header \in Headers /\ opts \in Seq(AcceptOption) /\ header.parts # <<>>
      /\ acceptStage = "parts" /\ PartsListed /\ n < Len(header.parts)
      /\ header' = header /\ acceptStage' = acceptStage /\ opts' = Append(opts, o)
  BY DEF AcceptInv, ParsePart
<1>2. n \in Nat /\ DOMAIN opts = 1..n
  BY <1>1, LenProperties
<1>3. n + 1 \in 1..Len(header.parts) /\ part.name \in STRING /\ part.qs \in Seq(Nat)
  <2>1. Len(header.parts) \in Nat
    BY <1>1, HeaderTyped
  <2>2. n + 1 \in 1..Len(header.parts)
    BY <1>1, <1>2, <2>1
  <2> QED
    BY <1>1, <2>2, HeaderTyped
<1>4. o \in AcceptOption /\ SaysPart(o, part)
  <2>1. Weight(part.qs) \in Nat
    BY <1>3, WeightTyped
  <2> QED
    BY <1>1, <1>3, <2>1, OptionIs DEF SaysPart
<1> HIDE DEF o
<1>5. /\ opts' \in Seq(AcceptOption) /\ Len(opts') = n + 1 /\ opts'[n + 1] = o
      /\ \A k \in 1..n : opts'[k] = opts[k]
  BY <1>1, <1>2, <1>4, AppendProperties
<1>6. \A k \in 1..n + 1 : SaysPart(opts'[k], header.parts[k])
  <2>1. ASSUME NEW k \in 1..n + 1, k # n + 1 PROVE SaysPart(opts'[k], header.parts[k])
    <3>1. k \in 1..n
      BY <1>2, <2>1
    <3> QED
      BY <1>1, <1>5, <3>1 DEF PartsListed
  <2> QED
    BY <1>4, <1>5, <2>1
<1>7. Len(opts') <= Len(header.parts)
  BY <1>3, <1>5, HeaderTyped, <1>1
<1>8. PartsListed'
  BY <1>1, <1>5, <1>6, <1>7 DEF PartsListed, SaysPart, Says, IsWildcard
<1> QED
  BY <1>1, <1>5, <1>8 DEF AcceptInv

LEMMA CharsetStep ==
  ASSUME AcceptInv, AddCharset
  PROVE  AcceptInv'
<1> DEFINE n == Len(opts)
           lacks == header.key = "Accept-Charset" /\ \A k \in DOMAIN opts : opts[k].value # latin1
           o == Option(latin1, One)
<1>1. /\ header \in Headers /\ opts \in Seq(AcceptOption) /\ header.parts # <<>>
      /\ PartsListed /\ n = Len(header.parts)
      /\ header' = header /\ acceptStage' = "sort"
      /\ opts' = IF lacks THEN Append(opts, o) ELSE opts
  BY DEF AcceptInv, AddCharset
<1>2. n \in Nat /\ DOMAIN opts = 1..n /\ DOMAIN header.parts = 1..n
  BY <1>1, LenProperties, HeaderTyped
<1>3. \A k \in 1..n : SaysPart(opts[k], header.parts[k])
  BY <1>1 DEF PartsListed
<1>4. lacks <=> Implied
  BY <1>2, <1>3 DEF SaysPart, Says, Implied
<1>5. o \in AcceptOption /\ Says(o, latin1, One)
  <2>1. One \in Nat
    BY DEF One
  <2> QED
    BY <1>1, <2>1, OptionIs
<1> HIDE DEF o, lacks
<1>6. /\ opts' \in Seq(AcceptOption) /\ DOMAIN opts' = 1..Len(opts') /\ Len(opts') \in Nat
      /\ Len(opts') = IF Implied THEN n + 1 ELSE n
      /\ \A k \in 1..n : opts'[k] = opts[k]
      /\ Implied => opts'[n + 1] = o
  <2>1. CASE Implied
    <3>1. opts' = Append(opts, o)
      BY <1>1, <1>4, <2>1
    <3> QED
      BY <1>1, <1>2, <1>5, <2>1, <3>1, AppendProperties, LenProperties
  <2>2. CASE ~ Implied
    <3>1. opts' = opts
      BY <1>1, <1>4, <2>2
    <3> QED
      BY <1>1, <1>2, <2>2, <3>1
  <2> QED
    BY <2>1, <2>2
<1>7. \A k \in 1..n : header.parts[k] \in ToSet(header.parts) /\ SaysPart(opts'[k], header.parts[k])
  BY <1>2, <1>3, <1>6 DEF ToSet
<1>8. ASSUME NEW k \in DOMAIN opts'
      PROVE  \/ \E p \in ToSet(header.parts) : SaysPart(opts'[k], p)
             \/ Implied /\ Says(opts'[k], latin1, One)
  <2>1. k \in 1..n \/ (Implied /\ k = n + 1)
    BY <1>2, <1>6
  <2>2. CASE k \in 1..n
    BY <1>7, <2>2
  <2>3. CASE Implied /\ k = n + 1
    BY <1>5, <1>6, <2>3
  <2> QED
    BY <2>1, <2>2, <2>3
<1>9. ASSUME NEW p \in ToSet(header.parts) PROVE \E k \in DOMAIN opts' : SaysPart(opts'[k], p)
  <2>1. PICK k \in 1..n : p = header.parts[k]
    BY <1>2 DEF ToSet
  <2>2. k \in DOMAIN opts'
    BY <1>2, <1>6
  <2> QED
    BY <1>7, <2>1, <2>2
<1>10. Implied => \E k \in DOMAIN opts' : Says(opts'[k], latin1, One)
  <2>1. Implied => n + 1 \in DOMAIN opts'
    BY <1>2, <1>6
  <2> QED
    BY <1>5, <1>6, <2>1
<1>11. AllListed'
  <2>1. (\A k \in DOMAIN opts : \/ \E p \in ToSet(header.parts) : SaysPart(opts[k], p)
                                \/ Implied /\ Says(opts[k], latin1, One))'
    BY <1>1, <1>8 DEF SaysPart, Says, Implied, IsWildcard
  <2>2. (\A p \in ToSet(header.parts) : \E k \in DOMAIN opts : SaysPart(opts[k], p))'
    BY <1>1, <1>9 DEF SaysPart, Says, IsWildcard
  <2>3. (Implied => \E k \in DOMAIN opts : Says(opts[k], latin1, One))'
    BY <1>1, <1>10 DEF Says, Implied, IsWildcard
  <2> QED
    BY <2>1, <2>2, <2>3 DEF AllListed
<1> QED
  BY <1>1, <1>6, <1>11 DEF AcceptInv

LEMMA SortStep ==
  ASSUME AcceptInv, Sort
  PROVE  AcceptInv'
<1>1. /\ header \in Headers /\ opts \in Seq(AcceptOption) /\ header.parts # <<>> /\ AllListed
      /\ header' = header /\ acceptStage' = "parsed"
  BY DEF AcceptInv, Sort
<1>2. PICK p \in Bijection(DOMAIN opts, DOMAIN opts) :
        /\ \A k, l \in DOMAIN opts : k < l => ~ Less(opts[p[l]], opts[p[k]])
        /\ opts' = [k \in DOMAIN opts |-> opts[p[k]]]
  BY DEF Sort
<1>3. /\ p \in [DOMAIN opts -> DOMAIN opts]
      /\ \A l \in DOMAIN opts : \E k \in DOMAIN opts : p[k] = l
  BY DEF Bijection, Injection, Surjection
<1>4. Len(opts) \in Nat /\ DOMAIN opts = 1..Len(opts)
  BY <1>1, LenProperties
<1>5. DOMAIN opts' = DOMAIN opts /\ opts' \in Seq(AcceptOption)
  <2>1. \A k \in 1..Len(opts) : opts[p[k]] \in AcceptOption
    BY <1>1, <1>3, <1>4, ElementOfSeq
  <2> QED
    BY <1>2, <1>4, <2>1, IsASeq
<1>6. \A k \in DOMAIN opts : opts'[k] = opts[p[k]] /\ p[k] \in DOMAIN opts
  BY <1>2, <1>3
<1>7. AllListed'
  <2>1. ASSUME NEW k \in DOMAIN opts'
        PROVE  \/ \E q \in ToSet(header.parts) : SaysPart(opts'[k], q)
               \/ Implied /\ Says(opts'[k], latin1, One)
    BY <1>1, <1>5, <1>6 DEF AllListed
  <2>2. ASSUME NEW q \in ToSet(header.parts) PROVE \E k \in DOMAIN opts' : SaysPart(opts'[k], q)
    <3>1. PICK l \in DOMAIN opts : SaysPart(opts[l], q)
      BY <1>1 DEF AllListed
    <3>2. PICK k \in DOMAIN opts : p[k] = l
      BY <1>3
    <3> QED
      BY <1>5, <1>6, <3>1, <3>2
  <2>3. Implied => \E k \in DOMAIN opts' : Says(opts'[k], latin1, One)
    <3> SUFFICES ASSUME Implied PROVE \E k \in DOMAIN opts' : Says(opts'[k], latin1, One)
      OBVIOUS
    <3>1. PICK l \in DOMAIN opts : Says(opts[l], latin1, One)
      BY <1>1 DEF AllListed
    <3>2. PICK k \in DOMAIN opts : p[k] = l
      BY <1>3
    <3> QED
      BY <1>5, <1>6, <3>1, <3>2
  <2> QED
    BY <1>1, <2>1, <2>2, <2>3 DEF AllListed, SaysPart, Says, Implied, IsWildcard
<1>8. InOrder'
  BY <1>2, <1>5, <1>6 DEF InOrder, Less
<1> QED
  BY <1>1, <1>5, <1>7, <1>8 DEF AcceptInv

\* The better of two standings: a weight, and how much the option says.
Before(a, b) == a[1] > b[1] \/ (a[1] = b[1] /\ a[2] >= b[2])
Rank(o) == IF o.wildcard THEN 0 ELSE IF o.metaWildcard THEN 1 ELSE 2
Standing(o) == <<o.weight, Rank(o)>>

Matching(v) == {k \in DOMAIN opts : Matches(opts[k], v)}
IsFirst(k, v) == k \in Matching(v) /\ \A l \in Matching(v) : k <= l

\* What the header says of a value.
Told(v) ==
  (IF Implied /\ v = latin1 THEN {<<One, 2>>} ELSE {})
  \cup {s \in {<<Weight(p.qs), Covers(p, v)>> : p \in ToSet(header.parts)} : s[2] >= 0}

Asked == /\ header \in Headers /\ opts \in Seq(AcceptOption)
         /\ header.parts # <<>> /\ AllListed /\ InOrder

LEMMA OptionTyped ==
  ASSUME Asked
  PROVE  /\ Len(opts) \in Nat /\ DOMAIN opts = 1..Len(opts)
         /\ \A k \in DOMAIN opts : /\ opts[k].weight \in Nat
                                   /\ opts[k].wildcard \in BOOLEAN /\ opts[k].metaWildcard \in BOOLEAN
                                   /\ opts[k].identity \in BOOLEAN
                                   /\ Rank(opts[k]) \in 0..2
<1>1. Len(opts) \in Nat /\ DOMAIN opts = 1..Len(opts)
  BY LenProperties DEF Asked
<1>2. \A k \in DOMAIN opts : opts[k] \in AcceptOption
  BY <1>1, ElementOfSeq DEF Asked
<1> QED
  BY <1>1, <1>2 DEF AcceptOption, Rank

LEMMA OrderIs ==
  ASSUME Asked, NEW k \in DOMAIN opts, NEW l \in DOMAIN opts, k <= l
  PROVE  Before(Standing(opts[k]), Standing(opts[l]))
<1> DEFINE a == opts[k]
           b == opts[l]
<1>1. /\ a.weight \in Nat /\ a.wildcard \in BOOLEAN /\ a.metaWildcard \in BOOLEAN
      /\ b.weight \in Nat /\ b.wildcard \in BOOLEAN /\ b.metaWildcard \in BOOLEAN
      /\ k \in Nat /\ l \in Nat
  BY OptionTyped
<1>2. CASE k = l
  BY <1>2, OptionTyped DEF Before, Standing
<1>3. CASE k < l
  <2>1. ~ Less(b, a)
    BY <1>3 DEF Asked, InOrder
  <2> HIDE DEF a, b
  <2>2. a.weight >= b.weight
    BY <1>1, <2>1 DEF Less
  <2>3. a.weight = b.weight => Rank(a) >= Rank(b)
    BY <1>1, <2>1 DEF Less, Rank
  <2>4. Before(Standing(a), Standing(b))
    BY <1>1, <2>2, <2>3 DEF Before, Standing
  <2> QED
    BY <2>4 DEF a, b
<1> QED
  BY <1>1, <1>2, <1>3

\* An option matches what its part covers, and is as far behind.
LEMMA PartCovers ==
  ASSUME NEW p, NEW o, SaysPart(o, p), NEW v
  PROVE  /\ Matches(o, v) <=> Covers(p, v) >= 0
         /\ Matches(o, v) => Standing(o) = <<Weight(p.qs), Covers(p, v)>>
<1> DEFINE family == header.key \in {"Accept", "Accept-Language"} /\ p.name \in DOMAIN Family
<1>1. /\ o.value = p.name /\ o.weight = Weight(p.qs)
      /\ o.wildcard <=> IsWildcard(p.name)
      /\ o.metaWildcard <=> family
  BY DEF SaysPart, Says
<1>2. CASE IsWildcard(p.name)
  <2>1. Covers(p, v) = 0 /\ Rank(o) = 0 /\ Matches(o, v)
    BY <1>1, <1>2 DEF Covers, Rank, Matches
  <2> QED
    BY <1>1, <2>1 DEF Standing
<1>3. CASE ~ IsWildcard(p.name) /\ family
  <2>1. Rank(o) = 1
    BY <1>1, <1>3 DEF Rank
  <2>2. Matches(o, v) <=> v \in Family[p.name] \cup {p.name}
    BY <1>1, <1>3 DEF Matches, Below
  <2>3. Covers(p, v) = IF v \in Family[p.name] \cup {p.name} THEN 1 ELSE -1
    BY <1>3 DEF Covers
  <2> QED
    BY <1>1, <2>1, <2>2, <2>3 DEF Standing
<1>4. CASE ~ IsWildcard(p.name) /\ ~ family
  <2>1. Rank(o) = 2
    BY <1>1, <1>4 DEF Rank
  <2>2. Matches(o, v) <=> v = p.name
    BY <1>1, <1>4 DEF Matches, Below
  <2>3. Covers(p, v) = IF v = p.name THEN 2 ELSE -1
    BY <1>4 DEF Covers
  <2> QED
    BY <1>1, <2>1, <2>2, <2>3 DEF Standing
<1> QED
  BY <1>2, <1>3, <1>4

\* Latin 1 is named, where the header does not name it.
LEMMA ImpliedCovers ==
  ASSUME Implied, NEW o, Says(o, latin1, One), NEW v
  PROVE  /\ Matches(o, v) <=> v = latin1
         /\ Standing(o) = <<One, 2>>
<1>1. o.value = latin1 /\ o.weight = One /\ ~ o.wildcard /\ ~ o.metaWildcard
  BY AcceptAssumption DEF Implied, Says, IsWildcard
<1>2. Rank(o) = 2
  BY <1>1 DEF Rank
<1> QED
  BY <1>1, <1>2 DEF Matches, Below, Standing

LEMMA ToldIs ==
  ASSUME Asked, NEW v
  PROVE  Told(v) = {Standing(opts[k]) : k \in Matching(v)}
<1> DEFINE implied == IF Implied /\ v = latin1 THEN {<<One, 2>>} ELSE {}
           said == {<<Weight(p.qs), Covers(p, v)>> : p \in ToSet(header.parts)}
<1>0. Told(v) = implied \cup {s \in said : s[2] >= 0}
  BY DEF Told
<1>1. ASSUME NEW k \in Matching(v) PROVE Standing(opts[k]) \in Told(v)
  <2>1. k \in DOMAIN opts /\ Matches(opts[k], v)
    BY <1>1 DEF Matching
  <2>2. CASE \E p \in ToSet(header.parts) : SaysPart(opts[k], p)
    <3>1. PICK p \in ToSet(header.parts) : SaysPart(opts[k], p)
      BY <2>2
    <3>2. Standing(opts[k]) = <<Weight(p.qs), Covers(p, v)>> /\ Covers(p, v) >= 0
      BY <2>1, <3>1, PartCovers
    <3> QED
      BY <1>0, <3>2
  <2>3. CASE Implied /\ Says(opts[k], latin1, One)
    <3>1. v = latin1 /\ Standing(opts[k]) = <<One, 2>>
      BY <2>1, <2>3, ImpliedCovers
    <3> QED
      BY <1>0, <2>3, <3>1
  <2> QED
    BY <2>1, <2>2, <2>3 DEF Asked, AllListed
<1>2. ASSUME NEW t \in Told(v) PROVE \E k \in Matching(v) : t = Standing(opts[k])
  <2>1. CASE Implied /\ v = latin1 /\ t = <<One, 2>>
    <3>1. PICK k \in DOMAIN opts : Says(opts[k], latin1, One)
      BY <2>1 DEF Asked, AllListed
    <3>2. Matches(opts[k], v) /\ Standing(opts[k]) = <<One, 2>>
      BY <2>1, <3>1, ImpliedCovers
    <3> QED
      BY <2>1, <3>2 DEF Matching
  <2>2. CASE t \in said /\ t[2] >= 0
    <3>1. PICK p \in ToSet(header.parts) : t = <<Weight(p.qs), Covers(p, v)>>
      BY <2>2
    <3>2. Covers(p, v) >= 0
      BY <2>2, <3>1
    <3>3. PICK k \in DOMAIN opts : SaysPart(opts[k], p)
      BY DEF Asked, AllListed
    <3>4. Matches(opts[k], v) /\ Standing(opts[k]) = t
      BY <3>1, <3>2, <3>3, PartCovers
    <3> QED
      BY <3>4 DEF Matching
  <2> QED
    BY <1>0, <2>1, <2>2
<1> QED
  BY <1>1, <1>2

LEMMA BestOf ==
  ASSUME header.parts # <<>>, NEW v
  PROVE  Best(v) = IF Told(v) = {} THEN <<0, 0>>
                   ELSE CHOOSE s \in {t \in Told(v) : \A r \in Told(v) : t[1] >= r[1]} :
                          \A r \in {t \in Told(v) : \A q \in Told(v) : t[1] >= q[1]} : s[2] >= r[2]
BY DEF Best, Told

\* The best is said by the first option that matches,
LEMMA BestIs ==
  ASSUME Asked, NEW v, NEW k, IsFirst(k, v)
  PROVE  Best(v) = Standing(opts[k])
<1> DEFINE all == Told(v)
           top == {t \in all : \A r \in all : t[1] >= r[1]}
           b == Standing(opts[k])
           right(s) == s \in top /\ \A r \in top : s[2] >= r[2]
<1>1. k \in Matching(v) /\ k \in DOMAIN opts /\ header.parts # <<>>
  BY DEF IsFirst, Matching, Asked
<1>2. \A r \in all : \E l \in DOMAIN opts : k <= l /\ r = Standing(opts[l])
  BY ToldIs DEF IsFirst, Matching
<1>3. b[1] \in Nat /\ b[2] \in Nat /\ b = <<b[1], b[2]>>
  BY <1>1, OptionTyped DEF Standing
<1>4. ASSUME NEW r \in all
      PROVE  r[1] \in Nat /\ r[2] \in Nat /\ Before(b, r) /\ r = <<r[1], r[2]>>
  <2>1. PICK l \in DOMAIN opts : k <= l /\ r = Standing(opts[l])
    BY <1>2
  <2>2. Before(b, r)
    BY <1>1, <2>1, OrderIs
  <2>3. opts[l].weight \in Nat /\ Rank(opts[l]) \in Nat
    BY OptionTyped
  <2> HIDE DEF b
  <2> QED
    BY <2>1, <2>2, <2>3 DEF Standing
<1>5. b \in all
  BY <1>1, ToldIs
<1>6. Best(v) = CHOOSE s : right(s)
  <2>1. all # {}
    BY <1>5
  <2>2. Best(v) = CHOOSE s \in top : \A r \in top : s[2] >= r[2]
    BY <1>1, <2>1, BestOf
  <2> QED
    BY <2>2
<1> HIDE DEF all, b
<1>7. right(b)
  <2>1. \A r \in all : b[1] >= r[1]
    BY <1>3, <1>4 DEF Before
  <2>2. ASSUME NEW r \in top PROVE b[2] >= r[2]
    <3>1. r \in all /\ r[1] >= b[1]
      BY <1>5
    <3> QED
      BY <1>3, <1>4, <3>1 DEF Before
  <2> QED
    BY <1>5, <2>1, <2>2
<1>8. ASSUME NEW s, right(s) PROVE s = b
  <2>1. s \in all /\ s[1] >= b[1] /\ b \in top
    BY <1>5, <1>7, <1>8
  <2>2. s[2] >= b[2]
    BY <1>8, <2>1
  <2>3. s[1] = b[1] /\ s[2] = b[2]
    BY <1>3, <1>4, <2>1, <2>2 DEF Before
  <2> QED
    BY <1>3, <1>4, <2>1, <2>3
<1> HIDE DEF right
<1>9. Best(v) = b
  BY <1>6, <1>7, <1>8
<1> QED
  BY <1>9 DEF b

\* and a value has one, or no option matches it.
LEMMA FirstIs ==
  ASSUME Asked, NEW v, NEW l \in Matching(v)
  PROVE  \E k \in DOMAIN opts : IsFirst(k, v) /\ k <= l
<1>1. Matching(v) \subseteq Nat
  BY OptionTyped DEF Matching
<1>2. \E k \in Matching(v) : \A j \in Matching(v) : k <= j
  BY <1>1, Least
<1> QED
  BY <1>2 DEF IsFirst, Matching

\* The values with a weight are those that an option with one matches.
LEMMA WeightIs ==
  ASSUME Asked, NEW v
  PROVE  Best(v)[1] > 0 <=> \E k \in Matching(v) : opts[k].weight > 0
<1>1. CASE Matching(v) = {}
  <2>1. Told(v) = {}
    BY <1>1, ToldIs
  <2>2. Best(v) = <<0, 0>>
    BY <2>1, BestOf DEF Asked
  <2> QED
    BY <1>1, <2>2
<1>2. CASE Matching(v) # {}
  <2>1. PICK k \in DOMAIN opts : IsFirst(k, v)
    BY <1>2, FirstIs
  <2>2. Best(v)[1] = opts[k].weight /\ k \in Matching(v) /\ opts[k].weight \in Nat
    BY <2>1, BestIs, OptionTyped DEF Standing, IsFirst
  <2>3. ASSUME NEW l \in Matching(v) PROVE opts[k].weight >= opts[l].weight /\ opts[l].weight \in Nat
    <3>1. l \in DOMAIN opts /\ k <= l
      BY <2>1 DEF IsFirst, Matching
    <3>2. Before(Standing(opts[k]), Standing(opts[l]))
      BY <3>1, OrderIs
    <3>3. opts[l].weight \in Nat
      BY <3>1, OptionTyped
    <3> QED
      BY <2>2, <3>2, <3>3 DEF Before, Standing
  <2> QED
    BY <2>2, <2>3
<1> QED
  BY <1>1, <1>2

LEMMA NotEmpty ==
  ASSUME Asked
  PROVE  \E k \in DOMAIN opts : TRUE
<1>1. header.parts \in Seq([name : STRING, qs : Seq(Nat)]) /\ header.parts # <<>>
  BY HeaderTyped DEF Asked
<1>2. Len(header.parts) # 0
  BY <1>1, EmptySeq
<1>3. 1 \in DOMAIN header.parts
  BY <1>2, HeaderTyped DEF Asked
<1>4. header.parts[1] \in ToSet(header.parts)
  BY <1>3 DEF ToSet
<1> QED
  BY <1>4 DEF Asked, AllListed

Weighed(v) == \E k \in Matching(v) : opts[k].weight > 0

\* Accepts finds no more than such an option, and finds it unless identity is before it.
LEMMA AcceptsIs ==
  ASSUME Asked, NEW v
  PROVE  /\ Accepts(v) => Weighed(v)
         /\ ~ IdentityOnly => (Weighed(v) => Accepts(v))
<1> DEFINE reply(o) ==
             CASE o.weight = 0 -> "no"
               [] o.weight # 0 /\ o.identity -> IF v = "identity" THEN "yes" ELSE "no"
               [] o.weight # 0 /\ ~ o.identity -> IF Matches(o, v) THEN "yes" ELSE "on"
           decides(k) == /\ reply(opts[k]) # "on"
                         /\ \A l \in 1..k - 1 : reply(opts[l]) = "on"
<1>1. opts # <<>>
  BY NotEmpty
<1>2. Accepts(v) <=> \E k \in DOMAIN opts : decides(k) /\ reply(opts[k]) = "yes"
  BY <1>1 DEF Accepts
<1>3. ASSUME NEW k \in DOMAIN opts, opts[k].identity
      PROVE  opts[k].value = "identity" /\ header.key = "Accept-Encoding"
  <2>1. \E name, weight : Says(opts[k], name, weight)
    BY DEF Asked, AllListed, SaysPart
  <2> QED
    BY <1>3, <2>1 DEF Says
<1>4. ASSUME NEW k \in DOMAIN opts, reply(opts[k]) = "yes" PROVE Weighed(v)
  <2>1. opts[k].weight \in Nat /\ opts[k].identity \in BOOLEAN
    BY OptionTyped
  <2>2. opts[k].weight # 0
    BY <1>4
  <2>3. Matches(opts[k], v)
    <3>1. CASE opts[k].identity
      <4>1. v = "identity"
        BY <1>4, <2>2, <3>1
      <4> QED
        BY <1>3, <3>1, <4>1 DEF Matches
    <3>2. CASE ~ opts[k].identity
      BY <1>4, <2>2, <3>2
    <3> QED
      BY <3>1, <3>2
  <2> QED
    BY <2>1, <2>2, <2>3 DEF Weighed, Matching
<1>5. ASSUME ~ IdentityOnly, Weighed(v)
      PROVE  \E k \in DOMAIN opts : decides(k) /\ reply(opts[k]) = "yes"
  <2>1. PICK j \in Matching(v) : opts[j].weight > 0
    BY <1>5 DEF Weighed
  <2>2. PICK k \in DOMAIN opts : IsFirst(k, v) /\ k <= j
    BY FirstIs
  <2>3. ASSUME NEW l \in DOMAIN opts, l <= k PROVE opts[l].weight # 0 /\ ~ opts[l].identity
    <3>1. j \in DOMAIN opts /\ l <= j
      BY <2>2, <2>3, OptionTyped DEF Matching
    <3>2. Before(Standing(opts[l]), Standing(opts[j]))
      BY <3>1, OrderIs
    <3>3. opts[l].weight \in Nat /\ opts[j].weight \in Nat
      BY <3>1, OptionTyped
    <3>4. opts[l].weight > 0
      BY <2>1, <3>2, <3>3 DEF Before, Standing
    <3> QED
      BY <1>3, <1>5, <3>4 DEF IdentityOnly
  <2>4. reply(opts[k]) = "yes"
    <3>1. Matches(opts[k], v) /\ k <= k
      BY <2>2, OptionTyped DEF IsFirst, Matching
    <3> QED
      BY <2>3, <3>1
  <2>5. ASSUME NEW l \in 1..k - 1 PROVE reply(opts[l]) = "on"
    <3>1. l \in DOMAIN opts /\ l <= k /\ ~ (k <= l)
      BY <2>2, OptionTyped
    <3>2. ~ Matches(opts[l], v)
      BY <2>2, <3>1 DEF IsFirst, Matching
    <3> QED
      BY <2>3, <3>1, <3>2
  <2> QED
    BY <2>4, <2>5
<1> QED
  BY <1>2, <1>4, <1>5

\* The values as far as they are found are distinct, and in the order of the header.
Found(ms) ==
  /\ ms \in Seq(STRING) /\ IsInjective(ms)
  /\ \A k, l \in DOMAIN ms : k < l => Before(Best(ms[k]), Best(ms[l]))

LEMMA InFound ==
  ASSUME NEW ms, NEW v
  PROVE  InStringSlice(ms, v) <=> v \in ToSet(ms)
BY DEF InStringSlice, ToSet

LEMMA WithTyped ==
  ASSUME NEW ms \in Seq(STRING), NEW o, NEW v \in STRING
  PROVE  With(ms, o, v) \in Seq(STRING)
<1>1. Append(ms, v) \in Seq(STRING)
  BY AppendProperties
<1> QED
  BY <1>1 DEF With

LEMMA WithIs ==
  ASSUME NEW ms, Found(ms), NEW o, NEW v \in STRING,
         Matches(o, v) /\ v \notin ToSet(ms)
           => \A u \in ToSet(ms) : Before(Best(u), Best(v))
  PROVE  /\ Found(With(ms, o, v))
         /\ ToSet(With(ms, o, v)) = ToSet(ms) \cup (IF Matches(o, v) THEN {v} ELSE {})
<1>1. CASE Matches(o, v) /\ v \notin ToSet(ms)
  <2> DEFINE n == Len(ms)
             t == Append(ms, v)
  <2>1. With(ms, o, v) = t
    BY <1>1, InFound DEF With
  <2>2. ms \in Seq(STRING) /\ n \in Nat /\ DOMAIN ms = 1..n
    BY LenProperties DEF Found
  <2>3. /\ t \in Seq(STRING) /\ Len(t) = n + 1 /\ t[n + 1] = v
        /\ \A k \in 1..n : t[k] = ms[k]
    <3>1. ms \in Seq(STRING) /\ v \in STRING
      BY <2>2
    <3>2. t \in Seq(STRING) /\ Len(t) = n + 1
      BY <3>1, AppendProperties
    <3>3. t[n + 1] = v
      BY <3>1, AppendProperties
    <3>4. \A k \in 1..n : t[k] = ms[k]
      BY <3>1, AppendProperties
    <3> QED
      BY <3>2, <3>3, <3>4
  <2>4. DOMAIN t = 1..n + 1
    BY <2>2, <2>3, LenProperties
  <2> HIDE DEF t
  <2>5. \A k \in 1..n + 1 : k \in 1..n \/ k = n + 1
    BY <2>2
  <2>6. \A k \in 1..n : t[k] \in ToSet(ms) /\ t[k] # v
    BY <1>1, <2>2, <2>3 DEF ToSet
  <2>7. IsInjective(t)
    <3>1. \A k, l \in 1..n : ms[k] = ms[l] => k = l
      BY <2>2 DEF Found, IsInjective
    <3> QED
      BY <2>3, <2>4, <2>5, <2>6, <3>1 DEF IsInjective
  <2>8. ASSUME NEW k \in 1..n + 1, NEW l \in 1..n + 1, k < l PROVE Before(Best(t[k]), Best(t[l]))
    <3>1. k \in 1..n
      BY <2>2, <2>8
    <3>2. CASE l \in 1..n
      BY <2>2, <2>3, <2>8, <3>1, <3>2 DEF Found
    <3>3. CASE l = n + 1
      BY <1>1, <2>3, <2>6, <3>1, <3>3
    <3> QED
      BY <2>5, <3>2, <3>3
  <2>9. ToSet(t) = ToSet(ms) \cup {v}
    <3>1. ASSUME NEW u \in ToSet(t) PROVE u \in ToSet(ms) \cup {v}
      <4>1. PICK k \in 1..n + 1 : u = t[k]
        BY <2>4 DEF ToSet
      <4> QED
        BY <2>3, <2>5, <2>6, <4>1
    <3>2. ASSUME NEW u \in ToSet(ms) PROVE u \in ToSet(t)
      <4>1. PICK k \in 1..n : u = ms[k]
        BY <2>2 DEF ToSet
      <4>2. k \in DOMAIN t /\ t[k] = u
        BY <2>2, <2>3, <2>4, <4>1
      <4> QED
        BY <4>2 DEF ToSet
    <3>3. v \in ToSet(t)
      <4>1. n + 1 \in DOMAIN t
        BY <2>2, <2>4
      <4> QED
        BY <2>3, <4>1 DEF ToSet
    <3> QED
      BY <3>1, <3>2, <3>3
  <2>10. Found(t)
    BY <2>3, <2>4, <2>7, <2>8 DEF Found
  <2> QED
    BY <1>1, <2>1, <2>9, <2>10
<1>2. CASE ~ (Matches(o, v) /\ v \notin ToSet(ms))
  <2>1. With(ms, o, v) = ms
    BY <1>2, InFound DEF With
  <2> QED
    BY <1>2, <2>1
<1> QED
  BY <1>1, <1>2

LEMMA GatherIs ==
  ASSUME NEW o, NEW ms \in Seq(STRING)
  PROVE  LET g == Gather(Values, o, ms)
         IN  /\ g[0] = ms
             /\ \A m \in 1..Len(Values) : g[m] = With(g[m - 1], o, Values[m])
             /\ g[Len(Values)] \in Seq(STRING)
<1> DEFINE n == Len(Values)
           S == Seq(STRING)
           G == [m \in 1..n |-> [s \in S |-> With(s, o, Values[m])]]
           IsGather(f) == f = [m \in 0..n |-> IF m = 0 THEN ms ELSE With(f[m - 1], o, Values[m])]
           g == Gather(Values, o, ms)
<1>1. n \in Nat /\ \A m \in 1..n : Values[m] \in STRING
  BY AcceptAssumption, LenProperties, ElementOfSeq
<1>2. ASSUME NEW m \in 1..n, NEW s \in S PROVE With(s, o, Values[m]) \in S
  BY <1>1, WithTyped
<1> HIDE DEF S
<1>3. ms \in S
  BY DEF S
<1>4. Iterates(n, S, ms, G)
  BY <1>1, <1>2, <1>3 DEF Iterates
<1>5. PICK f \in [0..n -> S] : \A m \in 0..n : f[m] = IF m = 0 THEN ms ELSE G[m][f[m - 1]]
  <2> HIDE DEF G
  <2> QED
    BY <1>4, Iterated
<1>6. ASSUME NEW m \in 0..n, m # 0 PROVE f[m] = With(f[m - 1], o, Values[m])
  <2>1. m \in 1..n /\ m - 1 \in 0..n
    BY <1>1, <1>6
  <2>2. f[m - 1] \in S
    BY <2>1
  <2> QED
    BY <1>5, <1>6, <2>1, <2>2
<1>7. IsGather(f)
  <2> HIDE DEF G
  <2> QED
    BY <1>5, <1>6
<1>8. g = CHOOSE h : IsGather(h)
  BY DEF Gather
<1> HIDE DEF IsGather, g
<1>9. IsGather(g)
  BY <1>7, <1>8
<1>10. g = [m \in 0..n |-> IF m = 0 THEN ms ELSE With(g[m - 1], o, Values[m])]
  BY <1>9 DEF IsGather
<1>11. g[0] = ms /\ \A m \in 1..n : g[m] = With(g[m - 1], o, Values[m])
  BY <1>1, <1>10
<1> DEFINE T == {m \in 0..n : g[m] \in S}
<1>12. 0 \in T
  BY <1>1, <1>3, <1>11
<1>13. ASSUME NEW m \in 0..(n - 1), m \in T PROVE m + 1 \in T
  <2>1. m + 1 \in 1..n /\ m + 1 \in 0..n /\ (m + 1) - 1 = m
    BY <1>1
  <2>2. g[m + 1] = With(g[m], o, Values[m + 1])
    BY <1>11, <2>1
  <2> QED
    BY <1>2, <1>13, <2>1, <2>2
<1>14. n \in T
  <2> HIDE DEF T
  <2>1. 0..n \subseteq T
    BY <1>1, <1>12, <1>13, InductTo
  <2> QED
    BY <1>1, <2>1
<1> QED
  BY <1>11, <1>14 DEF g, S

\* An option that comes after all that match its new values leaves the order as it is.
LEMMA Gathered ==
  ASSUME NEW o, NEW ms, Found(ms),
         \A u \in ToSet(ms), v \in ToSet(Values) :
           Matches(o, v) /\ v \notin ToSet(ms) => Before(Best(u), Best(v)),
         \A u, v \in ToSet(Values) :
           Matches(o, u) /\ u \notin ToSet(ms) /\ Matches(o, v) /\ v \notin ToSet(ms)
             => Before(Best(u), Best(v))
  PROVE  LET all == Gather(Values, o, ms)[Len(Values)]
         IN  /\ Found(all)
             /\ ToSet(all) = ToSet(ms) \cup {v \in ToSet(Values) : Matches(o, v)}
<1> DEFINE n == Len(Values)
           g == Gather(Values, o, ms)
           new(m) == {v \in {Values[j] : j \in 1..m} : Matches(o, v)}
           T == {m \in 0..n : Found(g[m]) /\ ToSet(g[m]) = ToSet(ms) \cup new(m)}
<1>1. n \in Nat /\ DOMAIN Values = 1..n /\ \A m \in 1..n : Values[m] \in STRING
  BY AcceptAssumption, LenProperties, ElementOfSeq
<1>2. \A m \in 1..n : Values[m] \in ToSet(Values)
  BY <1>1 DEF ToSet
<1>3. g[0] = ms /\ \A m \in 1..n : g[m] = With(g[m - 1], o, Values[m])
  BY GatherIs DEF Found
<1> HIDE DEF g
<1>4. 0 \in T
  <2>1. new(0) = {}
    OBVIOUS
  <2> QED
    BY <1>1, <1>3, <2>1
<1>5. ASSUME NEW m \in 0..(n - 1), m \in T PROVE m + 1 \in T
  <2> DEFINE v == Values[m + 1]
             s == g[m]
  <2>1. m + 1 \in 1..n /\ m + 1 \in 0..n /\ (m + 1) - 1 = m /\ m \in 0..n
    BY <1>1
  <2>2. Found(s) /\ ToSet(s) = ToSet(ms) \cup new(m) /\ g[m + 1] = With(s, o, v)
    BY <1>3, <1>5, <2>1
  <2>3. v \in STRING /\ v \in ToSet(Values)
    BY <1>1, <1>2, <2>1
  <2>4. ASSUME Matches(o, v), v \notin ToSet(s), NEW u \in ToSet(s)
        PROVE  Before(Best(u), Best(v))
    <3>1. v \notin ToSet(ms)
      BY <2>2, <2>4
    <3>2. CASE u \in ToSet(ms)
      BY <2>3, <2>4, <3>1, <3>2
    <3>3. CASE u \in new(m) /\ u \notin ToSet(ms)
      <4>1. u \in ToSet(Values) /\ Matches(o, u)
        BY <1>2, <2>1, <3>3
      <4> QED
        BY <2>3, <2>4, <3>1, <3>3, <4>1
    <3> QED
      BY <2>2, <2>4, <3>2, <3>3
  <2> HIDE DEF v, s
  <2>5. /\ Found(g[m + 1])
        /\ ToSet(g[m + 1]) = ToSet(s) \cup (IF Matches(o, v) THEN {v} ELSE {})
    <3>1. Matches(o, v) /\ v \notin ToSet(s) => \A u \in ToSet(s) : Before(Best(u), Best(v))
      BY <2>4
    <3>2. /\ Found(With(s, o, v))
          /\ ToSet(With(s, o, v)) = ToSet(s) \cup (IF Matches(o, v) THEN {v} ELSE {})
      BY <2>2, <2>3, <3>1, WithIs
    <3> QED
      BY <2>2, <3>2
  <2>6. {Values[j] : j \in 1..m + 1} = {Values[j] : j \in 1..m} \cup {v}
    <3>1. \A j \in 1..m + 1 : j \in 1..m \/ j = m + 1
      BY <2>1
    <3>2. \A j \in 1..m : j \in 1..m + 1
      BY <2>1
    <3>3. m + 1 \in 1..m + 1
      BY <2>1
    <3> QED
      BY <3>1, <3>2, <3>3 DEF v
  <2>7. new(m + 1) = new(m) \cup (IF Matches(o, v) THEN {v} ELSE {})
    BY <2>6
  <2> QED
    BY <2>1, <2>2, <2>5, <2>7
<1>6. n \in T
  <2> HIDE DEF T
  <2>1. 0..n \subseteq T
    BY <1>1, <1>4, <1>5, InductTo
  <2> QED
    BY <1>1, <2>1
<1>7. {Values[j] : j \in 1..n} = ToSet(Values)
  BY <1>1 DEF ToSet
<1> QED
  BY <1>6, <1>7 DEF g

Progress == [matches : Seq(STRING), over : BOOLEAN]

LEMMA TakenTyped ==
  ASSUME NEW s \in Progress, NEW o, o.wildcard \in BOOLEAN
  PROVE  Taken(s, Values, o) \in Progress
<1>1. s.matches \in Seq(STRING)
  BY DEF Progress
<1>2. Gather(Values, o, s.matches)[Len(Values)] \in Seq(STRING)
  BY <1>1, GatherIs
<1> QED
  BY <1>1, <1>2 DEF Taken, Progress

LEMMA PreferIs ==
  ASSUME Asked
  PROVE  LET after == Prefer(Values)
         IN  /\ after[0] = [matches |-> <<>>, over |-> FALSE]
             /\ \A k \in 1..Len(opts) : after[k] = Taken(after[k - 1], Values, opts[k])
<1> DEFINE n == Len(opts)
           start == [matches |-> <<>>, over |-> FALSE]
           G == [k \in 1..n |-> [s \in Progress |-> Taken(s, Values, opts[k])]]
           IsPrefer(f) == f = [k \in 0..n |-> IF k = 0 THEN [matches |-> <<>>, over |-> FALSE]
                                              ELSE Taken(f[k - 1], Values, opts[k])]
           after == Prefer(Values)
<1>1. n \in Nat /\ \A k \in 1..n : opts[k].wildcard \in BOOLEAN
  BY OptionTyped
<1>2. ASSUME NEW k \in 1..n, NEW s \in Progress PROVE Taken(s, Values, opts[k]) \in Progress
  BY <1>1, TakenTyped
<1>3. start \in Progress
  BY DEF Progress
<1>4. Iterates(n, Progress, start, G)
  BY <1>1, <1>2, <1>3 DEF Iterates
<1>5. PICK f \in [0..n -> Progress] : \A k \in 0..n : f[k] = IF k = 0 THEN start ELSE G[k][f[k - 1]]
  <2> HIDE DEF G, start
  <2> QED
    BY <1>4, Iterated
<1>6. ASSUME NEW k \in 0..n, k # 0 PROVE f[k] = Taken(f[k - 1], Values, opts[k])
  <2>1. k \in 1..n /\ k - 1 \in 0..n
    BY <1>1, <1>6
  <2>2. f[k - 1] \in Progress
    BY <2>1
  <2> QED
    BY <1>5, <1>6, <2>1, <2>2
<1>7. IsPrefer(f)
  <2> HIDE DEF G
  <2> QED
    BY <1>5, <1>6
<1>8. after = CHOOSE h : IsPrefer(h)
  BY DEF Prefer
<1> HIDE DEF IsPrefer, after
<1>9. IsPrefer(after)
  BY <1>7, <1>8
<1>10. after = [k \in 0..n |-> IF k = 0 THEN [matches |-> <<>>, over |-> FALSE]
                               ELSE Taken(after[k - 1], Values, opts[k])]
  BY <1>9 DEF IsPrefer
<1> HIDE DEF G
<1>11. after[0] = start /\ \A k \in 1..n : after[k] = Taken(after[k - 1], Values, opts[k])
  <2>1. 0 \in 0..n /\ \A k \in 1..n : k \in 0..n /\ k # 0
    BY <1>1
  <2>2. after[0] = start
    BY <1>10, <2>1
  <2>3. ASSUME NEW k \in 1..n PROVE after[k] = Taken(after[k - 1], Values, opts[k])
    BY <1>10, <2>1
  <2> QED
    BY <2>2, <2>3
<1> QED
  BY <1>11 DEF after

\* The values that the first k options put in the result.
WeighedBy(k) == {v \in ToSet(Values) : \E j \in Matching(v) : j <= k /\ opts[j].weight > 0}

Preferred(s, k) ==
  /\ Found(s.matches) /\ s.over \in BOOLEAN
  /\ ToSet(s.matches) = WeighedBy(k)
  /\ s.over => \E j \in 1..k : opts[j].weight = 0 \/ opts[j].wildcard

\* Behind a wildcard or a zero no option has a value to add.
LEMMA NoMore ==
  ASSUME Asked, NEW k \in 0..(Len(opts) - 1),
         \E j \in 1..k + 1 : opts[j].weight = 0 \/ (opts[j].wildcard /\ j <= k)
  PROVE  WeighedBy(k + 1) = WeighedBy(k)
<1>1. /\ k \in Nat /\ k + 1 \in DOMAIN opts
      /\ \A j \in DOMAIN opts : j \in Nat /\ opts[j].weight \in Nat
  BY OptionTyped
<1>2. PICK j \in 1..k + 1 : opts[j].weight = 0 \/ (opts[j].wildcard /\ j <= k)
  OBVIOUS
<1>3. j \in DOMAIN opts /\ j <= k + 1
  BY <1>1, <1>2, OptionTyped
<1>4. opts[j].weight >= opts[k + 1].weight
  <2>1. Before(Standing(opts[j]), Standing(opts[k + 1]))
    BY <1>1, <1>3, OrderIs
  <2> QED
    BY <1>1, <1>3, <2>1 DEF Before, Standing
<1>5. ASSUME NEW v, k + 1 \in Matching(v), opts[k + 1].weight > 0
      PROVE  j \in Matching(v) /\ j <= k /\ opts[j].weight > 0
  BY <1>1, <1>2, <1>3, <1>4, <1>5 DEF Matching, Matches
<1>6. ASSUME NEW v \in WeighedBy(k + 1) PROVE v \in WeighedBy(k)
  <2>1. PICK h \in Matching(v) : h <= k + 1 /\ opts[h].weight > 0
    BY DEF WeighedBy
  <2>2. h \in Nat
    BY <1>1 DEF Matching
  <2>3. CASE h <= k
    BY <2>1, <2>3 DEF WeighedBy
  <2>4. CASE h = k + 1
    BY <1>5, <2>1, <2>4 DEF WeighedBy
  <2> QED
    BY <1>1, <2>1, <2>2, <2>3, <2>4
<1>7. ASSUME NEW v \in WeighedBy(k) PROVE v \in WeighedBy(k + 1)
  <2>1. PICK h \in Matching(v) : h <= k /\ opts[h].weight > 0
    BY DEF WeighedBy
  <2>2. h <= k + 1
    BY <1>1, <2>1 DEF Matching
  <2> QED
    BY <2>1, <2>2 DEF WeighedBy
<1> QED
  BY <1>6, <1>7

LEMMA PreferredNext ==
  ASSUME Asked, NEW k \in 0..(Len(opts) - 1), NEW s, Preferred(s, k)
  PROVE  Preferred(Taken(s, Values, opts[k + 1]), k + 1)
<1> DEFINE o == opts[k + 1]
           t == Taken(s, Values, o)
<1>1. /\ k \in Nat /\ k + 1 \in DOMAIN opts /\ DOMAIN opts = 1..Len(opts) /\ Len(opts) \in Nat
      /\ \A j \in DOMAIN opts : j \in Nat /\ opts[j].weight \in Nat /\ opts[j].wildcard \in BOOLEAN
  BY OptionTyped
<1>2. \A j \in 1..k : j \in 1..k + 1 /\ j <= k /\ j \in DOMAIN opts
  BY <1>1
<1>3. k + 1 \in 1..k + 1
  BY <1>1
<1>4. CASE s.over \/ o.weight = 0
  <2>1. t = [matches |-> s.matches, over |-> TRUE]
    BY <1>4 DEF Taken
  <2>2. \E j \in 1..k + 1 : opts[j].weight = 0 \/ (opts[j].wildcard /\ j <= k)
    BY <1>2, <1>3, <1>4 DEF Preferred
  <2>3. WeighedBy(k + 1) = WeighedBy(k)
    BY <2>2, NoMore
  <2> QED
    BY <2>1, <2>2, <2>3 DEF Preferred
<1>5. CASE ~ s.over /\ o.weight # 0
  <2> DEFINE ms == s.matches
             all == Gather(Values, o, ms)[Len(Values)]
  <2>1. t = [matches |-> all, over |-> o.wildcard]
    BY <1>5 DEF Taken
  <2>2. Found(ms) /\ ToSet(ms) = WeighedBy(k) /\ o.weight > 0
    BY <1>1, <1>5 DEF Preferred
  <2>3. ASSUME NEW v \in ToSet(Values), Matches(o, v), v \notin ToSet(ms)
        PROVE  Best(v) = Standing(o)
    <3>1. ASSUME NEW j \in Matching(v), ~ (k + 1 <= j) PROVE FALSE
      <4>1. j \in DOMAIN opts /\ j <= k + 1 /\ j <= k
        BY <1>1, <3>1 DEF Matching
      <4>2. Before(Standing(opts[j]), Standing(o))
        BY <1>1, <4>1, OrderIs
      <4>3. opts[j].weight > 0
        BY <1>1, <2>2, <4>1, <4>2 DEF Before, Standing
      <4> QED
        BY <2>2, <2>3, <3>1, <4>1, <4>3 DEF WeighedBy
    <3>2. IsFirst(k + 1, v)
      BY <1>1, <2>3, <3>1 DEF IsFirst, Matching
    <3> QED
      BY <3>2, BestIs
  <2>4. ASSUME NEW u \in ToSet(ms) PROVE Before(Best(u), Standing(o))
    <3>1. PICK j \in Matching(u) : j <= k
      BY <2>2 DEF WeighedBy
    <3>2. PICK h \in DOMAIN opts : IsFirst(h, u) /\ h <= j
      BY FirstIs
    <3>3. Best(u) = Standing(opts[h])
      BY <3>2, BestIs
    <3>4. h <= k + 1
      BY <1>1, <3>1, <3>2 DEF Matching
    <3> QED
      BY <1>1, <3>3, <3>4, OrderIs
  <2>5. Before(Standing(o), Standing(o))
    BY <1>1, OrderIs
  <2> HIDE DEF o, ms
  <2>6. Found(all) /\ ToSet(all) = ToSet(ms) \cup {v \in ToSet(Values) : Matches(o, v)}
    <3>1. \A u \in ToSet(ms), v \in ToSet(Values) :
            Matches(o, v) /\ v \notin ToSet(ms) => Before(Best(u), Best(v))
      BY <2>3, <2>4
    <3>2. \A u, v \in ToSet(Values) :
            Matches(o, u) /\ u \notin ToSet(ms) /\ Matches(o, v) /\ v \notin ToSet(ms)
              => Before(Best(u), Best(v))
      BY <2>3, <2>5
    <3> QED
      BY <2>2, <3>1, <3>2, Gathered
  <2>7. WeighedBy(k + 1) = WeighedBy(k) \cup {v \in ToSet(Values) : Matches(o, v)}
    <3>1. ASSUME NEW v \in WeighedBy(k + 1) PROVE v \in WeighedBy(k) \/ Matches(o, v)
      <4>1. PICK h \in Matching(v) : h <= k + 1 /\ opts[h].weight > 0
        BY DEF WeighedBy
      <4>2. h <= k \/ h = k + 1
        BY <1>1, <4>1 DEF Matching
      <4> QED
        BY <4>1, <4>2 DEF WeighedBy, Matching, o
    <3>2. ASSUME NEW v \in ToSet(Values), Matches(o, v) PROVE v \in WeighedBy(k + 1)
      BY <1>1, <2>2, <3>2 DEF WeighedBy, Matching, o
    <3>3. ASSUME NEW v \in WeighedBy(k) PROVE v \in WeighedBy(k + 1)
      <4>1. PICK h \in Matching(v) : h <= k /\ opts[h].weight > 0
        BY DEF WeighedBy
      <4>2. h <= k + 1
        BY <1>1, <4>1 DEF Matching
      <4> QED
        BY <4>1, <4>2 DEF WeighedBy
    <3>4. WeighedBy(k + 1) \subseteq ToSet(Values)
      BY DEF WeighedBy
    <3> QED
      BY <3>1, <3>2, <3>3, <3>4
  <2>8. o.wildcard \in BOOLEAN /\ (o.wildcard => \E j \in 1..k + 1 : opts[j].wildcard)
    BY <1>1, <1>3 DEF o
  <2>9. t.matches = all /\ t.over = o.wildcard
    BY <2>1
  <2> HIDE DEF all, t
  <2>10. Preferred(t, k + 1)
    BY <2>2, <2>6, <2>7, <2>8, <2>9 DEF Preferred
  <2> QED
    BY <2>10 DEF t, o
<1> QED
  BY <1>1, <1>4, <1>5 DEF Preferred

\* FindPreferred takes the values with a weight, in the order of what the header says.
LEMMA PreferredIs ==
  ASSUME Asked
  PROVE  LET found == FindPreferred(Values)
         IN  Found(found) /\ ToSet(found) = {v \in ToSet(Values) : Weighed(v)}
<1> DEFINE n == Len(opts)
           after == Prefer(Values)
           T == {k \in 0..n : Preferred(after[k], k)}
<1>1. n \in Nat /\ DOMAIN opts = 1..n /\ opts # <<>>
  <2>1. \E k \in DOMAIN opts : TRUE
    BY NotEmpty
  <2> QED
    BY <2>1, OptionTyped
<1>2. /\ after[0] = [matches |-> <<>>, over |-> FALSE]
      /\ \A k \in 1..n : after[k] = Taken(after[k - 1], Values, opts[k])
  BY PreferIs
<1> HIDE DEF after
<1>3. 0 \in T
  <2>1. Found(<<>>) /\ ToSet(<<>>) = {}
    BY EmptySeq DEF Found, IsInjective, ToSet
  <2>2. \A v : \A j \in Matching(v) : ~ (j <= 0)
    BY <1>1 DEF Matching
  <2>3. WeighedBy(0) = {}
    BY <2>2 DEF WeighedBy
  <2>4. after[0].matches = <<>> /\ after[0].over = FALSE
    BY <1>2
  <2>5. Preferred(after[0], 0)
    BY <2>1, <2>3, <2>4 DEF Preferred
  <2> QED
    BY <1>1, <2>5
<1>4. ASSUME NEW k \in 0..(n - 1), k \in T PROVE k + 1 \in T
  <2>1. k + 1 \in 1..n /\ k + 1 \in 0..n /\ (k + 1) - 1 = k
    BY <1>1
  <2>2. after[k + 1] = Taken(after[k], Values, opts[k + 1])
    BY <1>2, <2>1
  <2>3. Preferred(after[k], k)
    BY <1>4
  <2>4. Preferred(after[k + 1], k + 1)
    BY <2>2, <2>3, PreferredNext
  <2> QED
    BY <2>1, <2>4
<1>5. Preferred(after[n], n)
  <2> HIDE DEF T
  <2>1. 0..n \subseteq T
    BY <1>1, <1>3, <1>4, InductTo
  <2>2. n \in T
    BY <1>1, <2>1
  <2> QED
    BY <2>2 DEF T
<1>6. FindPreferred(Values) = after[n].matches
  BY <1>1 DEF FindPreferred, after
<1>7. \A v : \A j \in Matching(v) : j <= n
  BY <1>1 DEF Matching
<1>8. WeighedBy(n) = {v \in ToSet(Values) : Weighed(v)}
  BY <1>7 DEF WeighedBy, Weighed
<1> QED
  BY <1>5, <1>6, <1>8 DEF Preferred

\* Without a header every value is preferred.
LEMMA AnythingGoes ==
  ASSUME header.parts = <<>>, opts = <<>>, acceptStage = "parsed"
  PROVE  PreferenceRight
<1>1. FindPreferred(Values) = Values
  BY DEF FindPreferred
<1>2. \A v : Best(v) = <<One, 0>>
  BY DEF Best
<1>3. One > 0
  BY DEF One
<1>4. \A v : Accepts(v)
  BY DEF Accepts
<1>5. ~ IdentityOnly
  BY DEF IdentityOnly
<1>6. \A v \in ToSet(Values) : InStringSlice(Values, v)
  BY InFound
<1>7. \A v : RfcAccepts(v) /\ ~ ZeroOverridden(v) /\ ~ Latin1Taken(v) /\ ~ IdentityUnlisted(v)
  <2>1. ToSet(header.parts) = {}
    BY EmptySeq DEF ToSet
  <2>2. \A v : Covering(v) = {}
    BY <2>1 DEF Covering
  <2> QED
    BY <2>2 DEF RfcAccepts, ZeroOverridden, Latin1Taken, IdentityUnlisted, Heavy
<1> QED
  BY <1>1, <1>2, <1>3, <1>4, <1>5, <1>6, <1>7 DEF PreferenceRight

\* An option with a weight stands for a part with one, or for latin 1.
LEMMA WeighedIs ==
  ASSUME Asked, NEW v
  PROVE  Weighed(v) <=> (Implied /\ v = latin1) \/ Heavy(Covering(v))
<1>1. One > 0
  BY DEF One
<1>2. Weighed(v) <=> \E t \in Told(v) : t[1] > 0
  <2>1. \A k \in DOMAIN opts : Standing(opts[k])[1] = opts[k].weight
    BY DEF Standing
  <2>2. Matching(v) \subseteq DOMAIN opts
    BY DEF Matching
  <2>3. \A t : t \in Told(v) <=> \E k \in Matching(v) : t = Standing(opts[k])
    BY ToldIs
  <2> QED
    BY <2>1, <2>2, <2>3 DEF Weighed
<1>3. ASSUME NEW p \in Covering(v), Weight(p.qs) > 0 PROVE \E t \in Told(v) : t[1] > 0
  <2>1. <<Weight(p.qs), Covers(p, v)>> \in Told(v)
    BY DEF Told, Covering
  <2> QED
    BY <1>3, <2>1
<1>4. ASSUME NEW t \in Told(v), t[1] > 0, ~ (Implied /\ v = latin1) PROVE Heavy(Covering(v))
  <2>1. PICK p \in ToSet(header.parts) : t = <<Weight(p.qs), Covers(p, v)>> /\ Covers(p, v) >= 0
    BY <1>4 DEF Told
  <2> QED
    BY <1>4, <2>1 DEF Covering, Heavy
<1>5. ASSUME Implied, v = latin1 PROVE \E t \in Told(v) : t[1] > 0
  <2>1. <<One, 2>> \in Told(v)
    BY <1>5 DEF Told
  <2> QED
    BY <1>1, <2>1
<1> QED
  BY <1>2, <1>3, <1>4, <1>5 DEF Heavy

\* The values with a weight are those the RFC has acceptable, but for the three cases.
LEMMA RfcIs ==
  ASSUME Asked, NEW v
  PROVE  (Weighed(v) <=> RfcAccepts(v))
           <=> ~ (ZeroOverridden(v) \/ Latin1Taken(v) \/ IdentityUnlisted(v))
<1>1. header.parts # <<>>
  BY DEF Asked
<1>2. Heavy(Foremost(v)) => Heavy(Covering(v))
  BY DEF Heavy, Foremost
<1>3. CASE Covering(v) = {}
  <2>1. ~ Heavy(Covering(v))
    BY <1>3 DEF Heavy
  <2>2. Implied /\ v = latin1 <=> header.key = "Accept-Charset" /\ v = latin1
    <3>1. ASSUME NEW k \in DOMAIN header.parts, header.parts[k].name = latin1, v = latin1,
                 header.key = "Accept-Charset"
          PROVE  FALSE
      <4> DEFINE p == header.parts[k]
      <4>1. p \in ToSet(header.parts)
        BY DEF ToSet
      <4>2. ~ IsWildcard(p.name)
        BY <3>1, AcceptAssumption DEF IsWildcard
      <4>3. Covers(p, v) = 2
        BY <3>1, <4>2 DEF Covers
      <4> HIDE DEF p
      <4>4. p \in Covering(v)
        BY <4>1, <4>3 DEF Covering
      <4> QED
        BY <1>3, <4>4
    <3> QED
      BY <3>1 DEF Implied
  <2> QED
    BY <1>1, <1>2, <1>3, <2>1, <2>2, WeighedIs
       DEF RfcAccepts, ZeroOverridden, Latin1Taken, IdentityUnlisted
<1>4. CASE Covering(v) # {}
  BY <1>1, <1>2, <1>4, WeighedIs DEF RfcAccepts, ZeroOverridden, Latin1Taken, IdentityUnlisted
<1> QED
  BY <1>3, <1>4

LEMMA AskedRight ==
  ASSUME Asked
  PROVE  PreferenceRight
<1> DEFINE found == FindPreferred(Values)
<1>1. Found(found) /\ ToSet(found) = {v \in ToSet(Values) : Weighed(v)}
  BY PreferredIs
<1>2. \A v \in ToSet(Values) : Weighed(v) <=> Best(v)[1] > 0
  BY WeightIs DEF Weighed
<1>3. \A v \in ToSet(Values) : InStringSlice(found, v) <=> Weighed(v)
  BY <1>1, InFound
<1> HIDE DEF found
<1>4. ToSet(found) = {v \in ToSet(Values) : Best(v)[1] > 0}
  BY <1>1, <1>2
<1>5. ASSUME NEW v \in ToSet(Values)
      PROVE  IF IdentityOnly THEN Accepts(v) => InStringSlice(found, v)
                             ELSE Accepts(v) <=> InStringSlice(found, v)
  BY <1>3, AcceptsIs
<1>6. ASSUME NEW v \in ToSet(Values)
      PROVE  (InStringSlice(found, v) <=> RfcAccepts(v))
               <=> ~ (ZeroOverridden(v) \/ Latin1Taken(v) \/ IdentityUnlisted(v))
  BY <1>3, RfcIs
<1> QED
  BY <1>1, <1>4, <1>5, <1>6 DEF PreferenceRight, Found, Before, found

LEMMA AcceptInvRight ==
  ASSUME AcceptInv
  PROVE  PreferenceRight
<1>1. CASE acceptStage = "parsed" /\ header.parts # <<>> /\ AllListed /\ InOrder
  <2>1. Asked
    BY <1>1 DEF AcceptInv, Asked
  <2> QED
    BY <2>1, AskedRight
<1>2. CASE acceptStage = "parsed" /\ header.parts = <<>> /\ opts = <<>>
  BY <1>2, AnythingGoes
<1>3. CASE acceptStage # "parsed"
  BY <1>3 DEF PreferenceRight
<1> QED
  BY <1>1, <1>2, <1>3 DEF AcceptInv

\* The values that are preferred of a header are those the heaviest part that covers them gives
\* a weight, in the order of what it says of them; they are those that RFC 2616 has acceptable
\* but for an overridden zero, latin 1 under "*" and identity that is not listed.  Accepts
\* takes the same, unless identity is listed with a weight: then no more.  For any header
\* with weights that are numbers and not negative: Parse, FindPreferred and Accepts.
THEOREM ValuesPreferred == AcceptSpec => []PreferenceRight
<1>1. AcceptInit => AcceptInv
  BY AcceptStart
<1>2. AcceptInv /\ [AcceptNext]_acceptVars => AcceptInv'
  <2> SUFFICES ASSUME AcceptInv, [AcceptNext]_acceptVars PROVE AcceptInv'
    OBVIOUS
  <2>1. CASE UNCHANGED acceptVars
    BY <2>1 DEF acceptVars, AcceptInv, PartsListed, AllListed, InOrder, SaysPart, Says, Implied,
                IsWildcard
  <2> QED
    BY <2>1, PartStep, CharsetStep, SortStep DEF AcceptNext
<1>3. AcceptInv => PreferenceRight
  BY AcceptInvRight
<1> QED
  BY <1>1, <1>2, <1>3, PTL DEF AcceptSpec

----------------------------------------------------------------------
(* LZF *)

\* What the cells from o to e - 1 stand for is the input from byte d to byte f.
LiteralUnit(in, code, o, d, e, f) ==
  /\ code[o] \in 0..Hi - 1
  /\ e = o + code[o] + 2 /\ f = d + code[o] + 1
  /\ \A j \in 1..code[o] + 1 : code[o + j] = in[d + j]

Reference(in, code, o, d, e, f, length, offset) ==
  /\ offset < MaxOffset /\ offset < d
  /\ f = d + length + 2
  /\ \A j \in 1..length + 2 : in[d + j] = in[d + j - (offset + 1)]
  /\ \/ /\ length < Long /\ e = o + 2
        /\ code[o] = Control(length, offset \div Lo) /\ code[o + 1] = offset % Lo
     \/ /\ length >= Long /\ length - Long < Lo /\ e = o + 3
        /\ code[o] = Control(Long, offset \div Lo)
        /\ code[o + 1] = length - Long /\ code[o + 2] = offset % Lo

Unit(in, code, o, d, e, f) ==
  \/ LiteralUnit(in, code, o, d, e, f)
  \/ \E length \in Nat \ {0}, offset \in Nat : Reference(in, code, o, d, e, f, length, offset)

\* The units one after the other lead from the first cell to the end o of the cells, and from
\* the first byte to the end d of what was read; P has where they start, as <<cell, byte>>.
Chain(in, code, P, o, d) ==
  /\ P \subseteq (Nat \X Nat) /\ <<4, 0>> \in P /\ <<o, d>> \in P
  /\ \A p \in P : 4 <= p[1] /\ p[1] <= o /\ p[2] <= d
  /\ \A p \in P : p # <<o, d>> => \E q \in P : Unit(in, code, p[1], p[2], q[1], q[2])

Coded(in, code, o, d) == \E P : Chain(in, code, P, o, d)

LEMMA UnitGrows ==
  ASSUME NEW in, NEW code, NEW o \in Nat, NEW d \in Nat, NEW e, NEW f, Unit(in, code, o, d, e, f)
  PROVE  e \in Nat /\ f \in Nat /\ o < e /\ d < f
BY LzfAssumption DEF Unit, LiteralUnit, Reference

\* A unit depends on its own cells only.
LEMMA UnitKept ==
  ASSUME NEW in, NEW code, NEW o \in Nat, NEW d \in Nat, NEW e, NEW f, Unit(in, code, o, d, e, f),
         NEW new, \A c \in o..e - 1 : new[c] = code[c]
  PROVE  Unit(in, new, o, d, e, f)
<1>0. e \in Nat /\ o < e
  BY UnitGrows
<1>1. CASE LiteralUnit(in, code, o, d, e, f)
  <2>1. code[o] \in Nat /\ new[o] = code[o] /\ e = o + code[o] + 2
    BY <1>0, <1>1, LzfAssumption DEF LiteralUnit
  <2>2. \A j \in 1..code[o] + 1 : o + j \in o..e - 1
    BY <2>1
  <2>3. \A j \in 1..code[o] + 1 : new[o + j] = code[o + j]
    BY <2>2
  <2> QED
    BY <1>1, <2>1, <2>3 DEF LiteralUnit, Unit
<1>2. CASE \E length \in Nat \ {0}, offset \in Nat : Reference(in, code, o, d, e, f, length, offset)
  <2>1. PICK length \in Nat \ {0}, offset \in Nat : Reference(in, code, o, d, e, f, length, offset)
    BY <1>2
  <2>2. e \in {o + 2, o + 3}
    BY <2>1 DEF Reference
  <2>3. new[o] = code[o] /\ new[o + 1] = code[o + 1] /\ (e = o + 3 => new[o + 2] = code[o + 2])
    BY <2>2
  <2>4. Reference(in, new, o, d, e, f, length, offset)
    BY <2>1, <2>3 DEF Reference
  <2> QED
    BY <2>4 DEF Unit
<1> QED
  BY <1>1, <1>2 DEF Unit

LEMMA CodedNat ==
  ASSUME NEW in, NEW code, NEW o, NEW d, Coded(in, code, o, d)
  PROVE  o \in Nat /\ d \in Nat /\ 4 <= o
BY DEF Coded, Chain

LEMMA CodedKept ==
  ASSUME NEW in, NEW code, NEW o, NEW d, Coded(in, code, o, d), NEW new, \A c \in 4..o - 1 : new[c] = code[c]
  PROVE  Coded(in, new, o, d)
<1>1. PICK P : Chain(in, code, P, o, d)
  BY DEF Coded
<1>2. o \in Nat
  BY CodedNat
<1>3. ASSUME NEW p \in P, p # <<o, d>>
      PROVE  \E q \in P : Unit(in, new, p[1], p[2], q[1], q[2])
  <2>1. PICK q \in P : Unit(in, code, p[1], p[2], q[1], q[2])
    BY <1>1, <1>3 DEF Chain
  <2>2. p[1] \in Nat /\ p[2] \in Nat /\ 4 <= p[1] /\ q[1] \in Nat /\ q[1] <= o
    BY <1>1 DEF Chain
  <2>3. \A c \in p[1]..q[1] - 1 : new[c] = code[c]
    BY <1>2, <2>2
  <2>4. Unit(in, new, p[1], p[2], q[1], q[2])
    BY <2>1, <2>2, <2>3, UnitKept
  <2> QED
    BY <2>4
<1>4. Chain(in, new, P, o, d)
  BY <1>1, <1>3 DEF Chain
<1> QED
  BY <1>4 DEF Coded

LEMMA CodedMore ==
  ASSUME NEW in, NEW code, NEW o, NEW d, Coded(in, code, o, d), NEW new, \A c \in 4..o - 1 : new[c] = code[c],
         NEW e, NEW f, Unit(in, new, o, d, e, f)
  PROVE  Coded(in, new, e, f)
<1>0. o \in Nat /\ d \in Nat /\ 4 <= o
  BY CodedNat
<1>1. e \in Nat /\ f \in Nat /\ o < e /\ d < f
  BY <1>0, UnitGrows
<1>2. PICK P : Chain(in, new, P, o, d)
  BY CodedKept DEF Coded
<1> DEFINE R == P \cup {<<e, f>>}
<1>3. R \subseteq (Nat \X Nat) /\ <<4, 0>> \in R /\ <<e, f>> \in R
  BY <1>1, <1>2 DEF Chain
<1>4. ASSUME NEW p \in R PROVE 4 <= p[1] /\ p[1] <= e /\ p[2] <= f
  <2>1. CASE p \in P
    <3>1. p[1] \in Nat /\ p[2] \in Nat /\ 4 <= p[1] /\ p[1] <= o /\ p[2] <= d
      BY <1>2, <2>1 DEF Chain
    <3> QED
      BY <1>0, <1>1, <3>1
  <2>2. CASE p = <<e, f>>
    BY <1>0, <1>1, <2>2
  <2> QED
    BY <2>1, <2>2
<1>5. ASSUME NEW p \in R, p # <<e, f>>
      PROVE  \E q \in R : Unit(in, new, p[1], p[2], q[1], q[2])
  <2>1. CASE p = <<o, d>>
    <3>1. <<e, f>> \in R /\ Unit(in, new, p[1], p[2], <<e, f>>[1], <<e, f>>[2])
      BY <2>1
    <3> HIDE DEF R
    <3> QED
      BY <3>1
  <2>2. CASE p # <<o, d>>
    BY <1>2, <1>5, <2>2 DEF Chain
  <2> QED
    BY <2>1, <2>2
<1> HIDE DEF R
<1>6. Chain(in, new, R, e, f)
  BY <1>3, <1>4, <1>5 DEF Chain
<1> QED
  BY <1>6 DEF Coded

\* Literals are closed by the control byte before them.
LEMMA Literals ==
  ASSUME NEW in, NEW code, NEW o, NEW d, Coded(in, code, o, d), NEW new, NEW k \in 1..Hi,
         \A c \in 4..o - 1 : new[c] = code[c],
         new[o] = k - 1, \A j \in 1..k : new[o + j] = in[d + j]
  PROVE  Coded(in, new, o + k + 1, d + k)
<1>0. o \in Nat /\ d \in Nat /\ Hi \in Nat
  BY CodedNat, LzfAssumption
<1>1. LiteralUnit(in, new, o, d, o + k + 1, d + k)
  BY <1>0 DEF LiteralUnit
<1> QED
  BY <1>1, CodedMore DEF Unit

----------------------------------------------------------------------------
(* Compress *)

\* What the cells before the reserved one stand for, and the literals behind it, are the input
\* so far.
Packing ==
  /\ InputLength > 4 /\ cut = FALSE /\ decoded = <<>>
  /\ iidx \in Nat /\ oidx \in Nat /\ literal \in 0..Hi - 1
  /\ output \in [4..InputLength + 3 -> Nat]
  /\ Coded(input, output, oidx - literal - 1, iidx - literal)
  /\ \A j \in 1..literal : output[oidx - literal - 1 + j] = input[iidx - literal + j]

\* The table has positions before this one.
ScanInv ==
  /\ iidx <= InputLength - 2 /\ hval \in Int
  /\ table \in [0..TableSize - 1 -> Nat]
  /\ \A slot \in 0..TableSize - 1 : table[slot] = 0 \/ table[slot] < iidx

\* The last two bytes find their cells.
Ending ==
  \/ iidx = InputLength - 2 /\ oidx <= InputLength + 1
  \/ iidx = InputLength - 1 /\ oidx <= InputLength + 3 /\ (oidx = InputLength + 3 => literal = 0)
  \/ iidx = InputLength /\ oidx - literal - 1 <= InputLength + 3

\* The cells are those of an encoding of the input, or the first of them, and the decoder
\* is where a unit starts, with what is before it.
Unpacking ==
  /\ \E full, P, o, last :
       /\ Chain(input, full, P, o, InputLength)
       /\ last \in 3..o - 1 /\ (~ cut => last = o - 1)
       /\ output = [c \in 4..last |-> full[c]]
       /\ <<iidx, Len(decoded)>> \in P
  /\ decoded \in Seq(0..255)
  /\ Len(decoded) <= InputLength /\ \A j \in 1..Len(decoded) : decoded[j] = input[j]

LzfInv ==
  /\ input \in Inputs
  /\ cut \in BOOLEAN
  /\ \/ lzfStage = "scan" /\ Packing /\ ScanInv
     \/ lzfStage = "tail" /\ Packing /\ Ending
     \/ lzfStage \in {"encoded", "decode"} /\ Unpacking
     \/ lzfStage = "ok" /\ Unpacking /\ iidx >= CodedLength
     \/ lzfStage = "bad" /\ Unpacking /\ cut
     \/ lzfStage = "nil" /\ decoded = <<>>

\* An input that is too long is refused, and no other is encoded.
Admitted == lzfStage = "nil" \/ InputLength < MaxSize

LEMMA InputTyped ==
  ASSUME input \in Inputs
  PROVE  /\ InputLength \in Nat /\ input \in Seq(0..255) /\ DOMAIN input = 1..InputLength
         /\ \A j \in 0..InputLength - 1 : In(j) \in 0..255 /\ In(j) = input[j + 1]
<1>1. input \in Seq(0..255)
  BY LzfAssumption
<1>2. InputLength \in Nat /\ DOMAIN input = 1..InputLength
  BY <1>1 DEF InputLength
<1>3. ASSUME NEW j \in 0..InputLength - 1 PROVE input[j + 1] \in 0..255
  <2>1. j + 1 \in 1..Len(input)
    BY <1>2 DEF InputLength
  <2> QED
    BY <1>1, <2>1, ElementOfSeq
<1> QED
  BY <1>1, <1>2, <1>3 DEF In

LEMMA PackingOidx ==
  ASSUME Packing
  PROVE  /\ oidx - literal - 1 \in Nat /\ iidx - literal \in Nat
         /\ oidx - literal - 1 >= 4 /\ literal \in Nat /\ literal < Hi /\ Hi \in Nat
BY CodedNat, LzfAssumption DEF Packing

LEMMA MinOf ==
  ASSUME NEW S, S \subseteq Nat, S # {}
  PROVE  Min(S) \in S /\ \A x \in S : Min(S) <= x
<1>1. \E x \in S : \A y \in S : x <= y
  BY Least
<1> QED
  BY <1>1 DEF Min

LEMMA SlotTyped ==
  ASSUME NEW h \in Int
  PROVE  Slot(h) \in 0..TableSize - 1
<1>1. h \div 256 \in Int
  BY DivMod
<1>2. ((h \div 256) - (5 * h)) \in Int
  BY <1>1
<1> HIDE <1>1
<1>3. ((h \div 256) - (5 * h)) % TableSize \in 0..TableSize - 1
  BY <1>2, LzfAssumption, DivMod
<1> QED
  BY <1>3 DEF Slot

LEMMA ShiftTyped ==
  ASSUME NEW h \in Int, NEW byte \in Int
  PROVE  Shift(h, byte) \in Int
BY DEF Shift

LEMMA OrTyped ==
  ASSUME NEW byte1 \in Int, NEW byte2 \in Int
  PROVE  Or(byte1, byte2) \in Int
BY DEF Or

\* What comes again, at least three and as many as the fields of a reference hold.
LEMMA MatchLengthRight ==
  ASSUME input \in Inputs, iidx \in Nat, NEW backref \in Nat, Repeats(backref)
  PROVE  /\ MatchLength(backref) \in 3..InputLength - iidx - 2
         /\ MatchLength(backref) <= Lo + Long + 1
         /\ \A l \in 0..MatchLength(backref) - 1 : In(backref + l) = In(iidx + l)
<1> DEFINE max == Min({InputLength - iidx - 2, MaxBackref})
           S == {l \in 3..InputLength : l >= max \/ In(backref + l) # In(iidx + l)}
<1>0. InputLength \in Nat /\ InputLength > iidx + 4 /\ Lo \in Nat /\ Lo > 0 /\ Long \in Nat /\ Long > 0
  BY InputTyped, LzfAssumption DEF Repeats
<1>1. MaxBackref \in Nat /\ MaxBackref >= 3 /\ MaxBackref = Lo + Long + 1
  BY <1>0 DEF MaxBackref
<1>2. max \in 3..InputLength /\ max <= InputLength - iidx - 2 /\ max <= MaxBackref
  <2>1. {InputLength - iidx - 2, MaxBackref} \subseteq Nat
    BY <1>0, <1>1
  <2>2. max \in {InputLength - iidx - 2, MaxBackref}
        /\ \A x \in {InputLength - iidx - 2, MaxBackref} : max <= x
    BY <2>1, MinOf
  <2> HIDE DEF max
  <2> QED
    BY <1>0, <1>1, <2>2
<1> HIDE DEF max
<1>3. max \in S /\ S \subseteq Nat
  BY <1>2
<1>4. Min(S) \in S /\ \A x \in S : Min(S) <= x
  BY <1>3, MinOf
<1>5. MatchLength(backref) = Min(S)
  BY DEF MatchLength, max
<1> DEFINE L == Min(S)
<1>6. L \in 3..InputLength /\ L <= max
  BY <1>3, <1>4
<1>7. ASSUME NEW l \in 0..L - 1 PROVE In(backref + l) = In(iidx + l)
  <2>1. CASE l < 3
    BY <2>1 DEF Repeats
  <2>2. CASE l >= 3
    <3>1. l \notin S
      BY <1>4, <1>6
    <3>2. l \in 3..InputLength
      BY <1>0, <1>6, <2>2
    <3> QED
      BY <3>1, <3>2
  <2> QED
    BY <1>6, <2>1, <2>2
<1> HIDE DEF L, S
<1> QED
  BY <1>0, <1>1, <1>2, <1>5, <1>6, <1>7 DEF L

\* Bytes that fit are written, and the control byte with them.
LEMMA Emitted ==
  ASSUME Packing, InputLength \in Nat, NEW spot \in Nat, NEW bytes \in Seq(Nat), NEW count \in Nat,
         Emit(spot, bytes, count), spot >= 4, spot + Len(bytes) <= InputLength + 4,
         count # 0 => oidx - literal - 1 <= InputLength + 3 /\ oidx - literal - 1 < spot
  PROVE  /\ lzfStage' = lzfStage /\ output' \in [4..InputLength + 3 -> Nat]
         /\ \A b \in 1..Len(bytes) : output'[spot + b - 1] = bytes[b]
         /\ count # 0 => output'[oidx - literal - 1] = count - 1
         /\ \A c \in 4..spot - 1 : c <= InputLength + 3 /\ (count = 0 \/ c # oidx - literal - 1)
                                   => output'[c] = output[c]
<1> DEFINE D == 4..InputLength + 3
           room == spot..spot + Len(bytes) - 1
           control == IF count = 0 THEN {} ELSE {oidx - literal - 1}
<1>0. /\ output \in [D -> Nat] /\ DOMAIN output = D /\ Len(bytes) \in Nat
      /\ oidx - literal - 1 \in Nat /\ oidx - literal - 1 >= 4
  <2>1. Len(bytes) \in Nat
    OBVIOUS
  <2>2. output \in [D -> Nat]
    BY DEF Packing
  <2> HIDE DEF D
  <2> QED
    BY <2>1, <2>2, PackingOidx
<1>1. room \cup control \subseteq D
  BY <1>0
<1>2. /\ output' = [c \in D |-> IF c \in room THEN bytes[c - spot + 1]
                                ELSE IF c \in control THEN count - 1 ELSE output[c]]
      /\ lzfStage' = lzfStage
  <2> HIDE DEF D
  <2> QED
    BY <1>0, <1>1 DEF Emit
<1>3. ASSUME NEW c \in room PROVE c - spot + 1 \in 1..Len(bytes) /\ bytes[c - spot + 1] \in Nat
  <2>1. c - spot + 1 \in 1..Len(bytes)
    BY <1>0
  <2> QED
    BY <2>1, ElementOfSeq
<1>4. output' \in [D -> Nat]
  <2>1. ASSUME NEW c \in D
        PROVE  (IF c \in room THEN bytes[c - spot + 1]
                ELSE IF c \in control THEN count - 1 ELSE output[c]) \in Nat
    <3>1. CASE c \in room
      BY <1>3, <3>1
    <3>2. CASE c \notin room
      <4>1. output[c] \in Nat
        BY <1>0, <2>1
      <4>2. c \in control => count - 1 \in Nat
        OBVIOUS
      <4> QED
        BY <3>2, <4>1, <4>2
    <3> QED
      BY <3>1, <3>2
  <2> HIDE DEF D, room, control
  <2> QED
    BY <1>2, <2>1
<1>5. ASSUME NEW b \in 1..Len(bytes) PROVE output'[spot + b - 1] = bytes[b]
  <2>1. spot + b - 1 \in room /\ (spot + b - 1) - spot + 1 = b
    BY <1>0
  <2>2. spot + b - 1 \in D
    BY <1>1, <2>1
  <2> HIDE DEF D, room, control
  <2> QED
    BY <1>2, <2>1, <2>2
<1>6. ASSUME count # 0 PROVE output'[oidx - literal - 1] = count - 1
  <2>1. oidx - literal - 1 \in D /\ oidx - literal - 1 \notin room /\ oidx - literal - 1 \in control
    BY <1>0, <1>1, <1>6
  <2> HIDE DEF D, room, control
  <2> QED
    BY <1>2, <2>1
<1>7. ASSUME NEW c \in 4..spot - 1, c <= InputLength + 3, count = 0 \/ c # oidx - literal - 1
      PROVE  output'[c] = output[c]
  <2>1. c \in D /\ c \notin room /\ c \notin control
    BY <1>0, <1>7
  <2> HIDE DEF D, room, control
  <2> QED
    BY <1>2, <2>1
<1> QED
  BY <1>2, <1>4, <1>5, <1>6, <1>7

LEMMA PutByteStep ==
  ASSUME input \in Inputs, Packing, PutByte, iidx < InputLength, oidx <= InputLength + 3
  PROVE  Packing' /\ lzfStage' = lzfStage /\ input' = input
<1> DEFINE o == oidx - literal - 1
           d == iidx - literal
           count == IF literal + 1 = Hi THEN Hi ELSE 0
<1>0. /\ o \in Nat /\ o >= 4 /\ d \in Nat /\ literal \in Nat /\ literal < Hi /\ Hi \in Nat
      /\ iidx \in Nat /\ oidx \in Nat /\ InputLength \in Nat /\ Coded(input, output, o, d)
      /\ \A l \in 1..literal : output[o + l] = input[d + l]
      /\ o = oidx - literal - 1 /\ d = iidx - literal
  BY PackingOidx, InputTyped DEF Packing
<1>1. In(iidx) \in Nat /\ In(iidx) = input[iidx + 1]
  <2>1. iidx \in 0..InputLength - 1
    BY <1>0
  <2>2. In(iidx) \in 0..255 /\ In(iidx) = input[iidx + 1]
    BY <2>1, InputTyped
  <2> QED
    BY <2>2
<1>2. Emit(oidx, <<In(iidx)>>, count)
  BY DEF PutByte, MaxLiteral
<1>3. <<In(iidx)>> \in Seq(Nat) /\ Len(<<In(iidx)>>) = 1 /\ <<In(iidx)>>[1] = In(iidx)
  BY <1>1
<1>4. count \in Nat /\ (count # 0 => o <= InputLength + 3 /\ o < oidx)
  BY <1>0
<1> DEFINE bytes == <<In(iidx)>>
<1> HIDE DEF count, o, d
<1>5. /\ lzfStage' = lzfStage /\ output' \in [4..InputLength + 3 -> Nat]
      /\ \A b \in 1..Len(bytes) : output'[oidx + b - 1] = bytes[b]
      /\ count # 0 => output'[oidx - literal - 1] = count - 1
      /\ \A c \in 4..oidx - 1 : c <= InputLength + 3 /\ (count = 0 \/ c # oidx - literal - 1)
                                  => output'[c] = output[c]
  <2> HIDE DEF bytes
  <2>1. bytes \in Seq(Nat) /\ Len(bytes) = 1 /\ Emit(oidx, bytes, count)
    BY <1>2, <1>3 DEF bytes
  <2>2. /\ oidx >= 4 /\ oidx + Len(bytes) <= InputLength + 4
        /\ count # 0 => oidx - literal - 1 <= InputLength + 3 /\ oidx - literal - 1 < oidx
    BY <1>0, <1>4, <2>1
  <2> QED
    BY <1>0, <1>4, <2>1, <2>2, Emitted
<1>6. output'[oidx] = input[iidx + 1]
  BY <1>0, <1>1, <1>3, <1>5
<1>7. \A c \in 4..o - 1 : output'[c] = output[c]
  BY <1>0, <1>5
<1>8. \A l \in 1..literal + 1 : output'[o + l] = input[d + l]
  <2> TAKE l \in 1..literal + 1
  <2>1. CASE l <= literal
    <3>1. o + l \in 4..oidx - 1 /\ o + l # o /\ l \in 1..literal
      BY <1>0, <2>1
    <3> QED
      BY <1>0, <1>5, <3>1
  <2>2. CASE l = literal + 1
    <3>1. o + l = oidx /\ d + l = iidx + 1
      BY <1>0, <2>2
    <3> QED
      BY <1>6, <3>1
  <2> QED
    BY <1>0, <2>1, <2>2
<1>9. /\ input' = input /\ cut' = cut /\ decoded' = decoded /\ iidx' = iidx + 1
      /\ oidx' = IF literal + 1 = Hi THEN oidx + 2 ELSE oidx + 1
      /\ literal' = IF literal + 1 = Hi THEN 0 ELSE literal + 1
  BY DEF PutByte, MaxLiteral
<1>10. InputLength' = InputLength
  BY <1>9 DEF InputLength
<1>11. CASE literal + 1 = Hi
  <2>1. Coded(input', output', o + Hi + 1, d + Hi)
    <3>1. \A l \in 1..Hi : output'[o + l] = input[d + l]
      BY <1>8, <1>11
    <3>2. output'[o] = Hi - 1
      BY <1>0, <1>5, <1>11 DEF count
    <3>3. Hi \in 1..Hi
      BY <1>0, LzfAssumption
    <3> QED
      BY <1>0, <1>7, <1>9, <3>1, <3>2, <3>3, Literals
  <2>2. oidx' = oidx + 2 /\ literal' = 0 /\ oidx' - literal' - 1 = o + Hi + 1
        /\ iidx' - literal' = d + Hi
    BY <1>0, <1>9, <1>11
  <2> QED
    BY <1>5, <1>0, <1>9, <1>10, <2>2, <2>1 DEF Packing
<1>12. CASE literal + 1 # Hi
  <2>1. Coded(input', output', o, d)
    BY <1>0, <1>7, <1>9, CodedKept
  <2>2. /\ literal' = literal + 1 /\ oidx' - literal' - 1 = o /\ iidx' - literal' = d
        /\ oidx' \in Nat /\ literal' \in 0..Hi - 1 /\ iidx' \in Nat
    BY <1>0, <1>9, <1>12
  <2> QED
    BY <1>5, <1>0, <1>8, <1>9, <1>10, <2>2, <2>1 DEF Packing
<1> QED
  BY <1>5, <1>9, <1>11, <1>12

\* The slot of the hash at this position holds an earlier one.
LEMMA CandidateEarlier ==
  ASSUME input \in Inputs, Packing, ScanInv, iidx < InputLength - 2
  PROVE  /\ Hashed \in Int /\ Slot(Hashed) \in 0..TableSize - 1
         /\ Candidate \in Nat /\ (Candidate = 0 \/ Candidate < iidx)
<1>1. iidx + 2 \in 0..InputLength - 1
  BY InputTyped DEF Packing
<1>2. In(iidx + 2) \in 0..255
  BY <1>1, InputTyped
<1>3. In(iidx + 2) \in Int
  BY <1>2
<1>4. Hashed \in Int
  BY <1>3, ShiftTyped DEF Hashed, ScanInv
<1>5. Slot(Hashed) \in 0..TableSize - 1
  BY <1>4, SlotTyped
<1> QED
  BY <1>4, <1>5 DEF Candidate, ScanInv

\* A position that is entered is less than the next ones.
LEMMA TableStep ==
  ASSUME NEW f \in [0..TableSize - 1 -> Nat], NEW b \in Nat, NEW slot, NEW pos \in Nat, pos < b,
         \A x \in 0..TableSize - 1 : f[x] = 0 \/ f[x] < b
  PROVE  /\ [f EXCEPT ![slot] = pos] \in [0..TableSize - 1 -> Nat]
         /\ \A x \in 0..TableSize - 1 :
              [f EXCEPT ![slot] = pos][x] = 0 \/ [f EXCEPT ![slot] = pos][x] < b
OBVIOUS

LEMMA TabledStep ==
  ASSUME Packing, ScanInv, NEW b \in Nat, iidx < b
  PROVE  /\ Tabled \in [0..TableSize - 1 -> Nat]
         /\ \A x \in 0..TableSize - 1 : Tabled[x] = 0 \/ Tabled[x] < b
<1>1. iidx \in Nat /\ table \in [0..TableSize - 1 -> Nat]
  BY DEF Packing, ScanInv
<1>2. \A x \in 0..TableSize - 1 : table[x] = 0 \/ table[x] < b
  BY <1>1 DEF ScanInv
<1> QED
  BY <1>1, <1>2, TableStep DEF Tabled

LEMMA LiteralStep ==
  ASSUME input \in Inputs, Packing, ScanInv, Literal, lzfStage = "scan", decoded = <<>>
  PROVE  \/ lzfStage' = "scan" /\ Packing' /\ ScanInv' /\ input' = input
         \/ lzfStage' = "nil" /\ decoded' = decoded /\ input' = input
<1>1. CASE oidx >= InputLength - 4
  BY <1>1 DEF Literal, GiveUp
<1>2. CASE ~ (oidx >= InputLength - 4)
  <2>1. PutByte /\ hval' = Hashed /\ table' = Tabled /\ iidx < InputLength - 2
    BY <1>2 DEF Literal, Scanning
  <2>2. iidx \in Nat /\ oidx \in Nat /\ InputLength \in Nat
    BY InputTyped DEF Packing
  <2>3. Packing' /\ lzfStage' = lzfStage /\ input' = input
    BY <1>2, <2>1, <2>2, PutByteStep
  <2>4. iidx' = iidx + 1 /\ InputLength' = InputLength
    BY <2>1, <2>3 DEF PutByte, InputLength
  <2>5. Hashed \in Int
    BY <2>1, CandidateEarlier
  <2>6. /\ Tabled \in [0..TableSize - 1 -> Nat]
        /\ \A x \in 0..TableSize - 1 : Tabled[x] = 0 \/ Tabled[x] < iidx + 1
    BY <2>2, TabledStep
  <2>7. ScanInv'
    BY <2>1, <2>2, <2>4, <2>5, <2>6 DEF ScanInv
  <2> QED
    BY <2>3, <2>7
<1> QED
  BY <1>1, <1>2

LEMMA ReferenceStep ==
  ASSUME input \in Inputs, Packing, ScanInv, BackReference, lzfStage = "scan"
  PROVE  \/ lzfStage' = "scan" /\ Packing' /\ ScanInv' /\ input' = input
         \/ lzfStage' = "nil" /\ decoded' = decoded /\ input' = input
<1> DEFINE L == MatchLength(Candidate)
           length == L - 2
           offset == iidx - Candidate - 1
           spot == IF literal = 0 THEN oidx - 1 ELSE oidx
           to == iidx + length + 2
           ref == IF length < Long THEN <<Control(length, offset \div Lo), offset % Lo>>
                  ELSE <<Control(Long, offset \div Lo), (length - Long) % Lo, offset % Lo>>
           h1 == Or(In(to - 2), In(to - 1)) * 256 + In(to)
           h2 == Shift(h1, In(to + 1))
           more == to < InputLength - 2
           o == oidx - literal - 1
           d == iidx - literal
<1>1. CASE spot >= InputLength
  BY <1>1 DEF BackReference, GiveUp
<1>2. CASE ~ (spot >= InputLength)
  <2>1. /\ Emit(spot, ref, literal)
        /\ iidx' = to /\ oidx' = spot + Len(ref) + 1 /\ literal' = 0
        /\ hval' = IF more THEN h2 ELSE Hashed
        /\ table' = IF more THEN [Tabled EXCEPT ![Slot(h1)] = to - 2, ![Slot(h2)] = to - 1]
                    ELSE Tabled
        /\ input' = input /\ cut' = cut /\ decoded' = decoded
    BY <1>2 DEF BackReference
  <2>2. /\ iidx < InputLength - 2 /\ Repeats(Candidate)
    BY DEF BackReference, Scanning
  <2>3. /\ o \in Nat /\ o >= 4 /\ d \in Nat /\ literal \in Nat /\ literal < Hi /\ Hi \in Nat
        /\ iidx \in Nat /\ oidx \in Nat /\ InputLength \in Nat /\ Coded(input, output, o, d)
        /\ \A l \in 1..literal : output[o + l] = input[d + l]
        /\ o = oidx - literal - 1 /\ d = iidx - literal
        /\ output \in [4..InputLength + 3 -> Nat]
    BY PackingOidx, InputTyped DEF Packing
  <2>4. Candidate \in Nat /\ Candidate > 0 /\ Candidate < iidx /\ offset < MaxOffset
    BY <2>2, CandidateEarlier DEF Repeats, InReach
  <2>5. /\ L \in 3..InputLength - iidx - 2 /\ L <= Lo + Long + 1
        /\ \A l \in 0..L - 1 : In(Candidate + l) = In(iidx + l)
    BY <2>2, <2>3, <2>4, MatchLengthRight
  <2>6. Lo \in Nat /\ Lo > 0 /\ Long \in Nat /\ Long > 0
    BY LzfAssumption
  <2> DEFINE cand == Candidate
  <2>7. /\ cand \in Nat /\ cand > 0 /\ cand < iidx /\ offset = iidx - cand - 1
        /\ \A l \in 0..L - 1 : In(cand + l) = In(iidx + l)
    BY <2>4, <2>5
  <2> HIDE DEF cand, L
  <2>8. offset \in Nat /\ offset < iidx /\ length \in Nat \ {0} /\ to = iidx + L /\ length = L - 2
    BY <2>3, <2>5, <2>7
  <2>9. spot >= 4 /\ spot \in Nat /\ spot < InputLength /\ (literal # 0 => o < spot)
    BY <1>2, <2>3
  <2> HIDE DEF o, d
  <2>10. PICK q \in Nat, r \in 0..Lo - 1 : offset \div Lo = q /\ offset % Lo = r
    BY <2>6, <2>8, DivMod
  <2>11. length >= Long => (length - Long) % Lo = length - Long /\ length - Long < Lo
    <3> SUFFICES ASSUME length >= Long PROVE (length - Long) % Lo = length - Long /\ length - Long < Lo
      OBVIOUS
    <3>1. length - Long \in Nat /\ length - Long < Lo
      BY <2>5, <2>6, <2>8
    <3> HIDE DEF length
    <3> QED
      BY <2>6, <3>1, ModSmall
  <2> HIDE DEF offset, length
  <2>12. ref \in Seq(Nat) /\ Len(ref) = IF length < Long THEN 2 ELSE 3
    <3>1. Control(length, q) \in Nat /\ Control(Long, q) \in Nat
      <4>1. Hi * length \in Nat /\ Hi * Long \in Nat
        BY <2>3, <2>6, <2>8
      <4> QED
        BY <2>10, <4>1 DEF Control
    <3>2. CASE length < Long
      BY <2>10, <3>1, <3>2
    <3>3. CASE ~ (length < Long)
      <4>1. length - Long \in Nat
        BY <2>6, <2>8, <3>3
      <4> QED
        BY <2>8, <2>6, <2>10, <2>11, <3>1, <3>3, <4>1
    <3> QED
      BY <3>2, <3>3
  <2>13. /\ lzfStage' = lzfStage /\ output' \in [4..InputLength + 3 -> Nat]
         /\ \A b \in 1..Len(ref) : output'[spot + b - 1] = ref[b]
         /\ literal # 0 => output'[oidx - literal - 1] = literal - 1
         /\ \A c \in 4..spot - 1 : c <= InputLength + 3 /\ (literal = 0 \/ c # oidx - literal - 1)
                                   => output'[c] = output[c]
    <3> HIDE DEF ref, spot
    <3>1. spot + Len(ref) <= InputLength + 4
      BY <2>9, <2>12, <2>3
    <3>2. literal # 0 => oidx - literal - 1 <= InputLength + 3 /\ oidx - literal - 1 < spot
      BY <2>3, <2>9
    <3> QED
      BY <2>1, <2>3, <2>9, <2>12, <3>1, <3>2, Emitted
  <2>14. Coded(input, output', spot, iidx)
    <3>1. CASE literal = 0
      <4>1. spot = o /\ iidx = d
        BY <2>3, <3>1
      <4>2. \A c \in 4..o - 1 : output'[c] = output[c]
        BY <2>3, <2>9, <2>13, <3>1, <4>1
      <4> QED
        BY <2>3, <4>1, <4>2, CodedKept
    <3>2. CASE literal # 0
      <4>1. spot = o + literal + 1 /\ iidx = d + literal /\ literal \in 1..Hi
        BY <2>3, <3>2
      <4>2. \A c \in 4..o - 1 : output'[c] = output[c]
        BY <2>3, <2>9, <2>13, <4>1
      <4>3. output'[o] = literal - 1
        BY <2>3, <2>13, <3>2
      <4>4. ASSUME NEW l \in 1..literal PROVE output'[o + l] = input[d + l]
        <5>1. o + l \in 4..spot - 1 /\ o + l # o /\ o + l <= InputLength + 3
          BY <2>3, <2>9, <4>1
        <5> QED
          BY <2>3, <2>13, <5>1
      <4> HIDE DEF spot
      <4> QED
        BY <2>3, <4>1, <4>2, <4>3, <4>4, Literals
    <3> QED
      BY <3>1, <3>2
  <2>15. \A l \in 1..length + 2 : input[iidx + l] = input[iidx + l - (offset + 1)]
    <3> TAKE l \in 1..length + 2
    <3>1. l - 1 \in 0..L - 1 /\ l \in Nat
      BY <2>3, <2>5, <2>8
    <3>2. In(cand + (l - 1)) = In(iidx + (l - 1))
      BY <2>7, <3>1
    <3>3. cand + (l - 1) + 1 = iidx + l - (offset + 1) /\ iidx + (l - 1) + 1 = iidx + l
      BY <2>3, <2>7, <3>1
    <3> QED
      BY <3>2, <3>3 DEF In
  <2> DEFINE e == spot + Len(ref)
  <2>16. Reference(input, output', spot, iidx, e, to, length, offset)
    <3>1. /\ offset < MaxOffset /\ offset < iidx /\ to = iidx + length + 2
      BY <2>4, <2>8, <2>3, <2>5 DEF offset
    <3>2. CASE length < Long
      <4>1. ref = <<Control(length, offset \div Lo), offset % Lo>> /\ Len(ref) = 2
        BY <3>2, <2>12
      <4> HIDE DEF ref, spot
      <4>2. output'[spot + 1 - 1] = ref[1] /\ output'[spot + 2 - 1] = ref[2]
        BY <2>13, <4>1
      <4>3. spot + 1 - 1 = spot /\ spot + 2 - 1 = spot + 1
        BY <2>9
      <4> QED
        BY <2>15, <3>1, <3>2, <4>1, <4>2, <4>3 DEF Reference
    <3>3. CASE ~ (length < Long)
      <4>1. ref = <<Control(Long, offset \div Lo), length - Long, offset % Lo>> /\ Len(ref) = 3
            /\ length >= Long /\ length - Long < Lo
        BY <3>3, <2>6, <2>8, <2>11, <2>12
      <4> HIDE DEF ref, spot
      <4>2. output'[spot + 1 - 1] = ref[1] /\ output'[spot + 2 - 1] = ref[2] /\ output'[spot + 3 - 1] = ref[3]
        BY <2>13, <4>1
      <4>3. spot + 1 - 1 = spot /\ spot + 2 - 1 = spot + 1 /\ spot + 3 - 1 = spot + 2
        BY <2>9
      <4> QED
        BY <2>15, <3>1, <3>3, <4>1, <4>2, <4>3 DEF Reference
    <3> QED
      BY <3>2, <3>3
  <2>17. Coded(input, output', e, to)
    <3>1. Unit(input, output', spot, iidx, e, to)
      BY <2>8, <2>16 DEF Unit
    <3> HIDE DEF e, to, spot
    <3> QED
      BY <2>14, <3>1, CodedMore
  <2>18. /\ oidx' = e + 1 /\ literal' = 0 /\ iidx' = to /\ e \in Nat /\ to \in Nat
         /\ oidx' - literal' - 1 = e /\ iidx' - literal' = to
    <3>1. e \in Nat /\ to \in Nat
      BY <2>17, CodedNat
    <3> HIDE DEF e, to
    <3>2. oidx' = e + 1 /\ literal' = 0 /\ iidx' = to
      BY <2>1 DEF e
    <3> QED
      BY <3>1, <3>2
  <2>19. InputLength' = InputLength
    BY <2>1 DEF InputLength
  <2>20. Packing'
    <3> HIDE DEF e, to
    <3>1. literal' \in 0..Hi - 1 /\ oidx' \in Nat
      BY <2>3, <2>18
    <3>2. Coded(input', output', oidx' - literal' - 1, iidx' - literal')
      BY <2>1, <2>17, <2>18
    <3>3. \A l \in 1..literal' : output'[oidx' - literal' - 1 + l] = input'[iidx' - literal' + l]
      BY <2>18
    <3> QED
      BY <2>1, <2>13, <2>18, <2>19, <3>1, <3>2, <3>3 DEF Packing
  <2>21. ScanInv'
    <3>1. to <= InputLength - 2 /\ to >= iidx + 3 /\ to \in Nat
      BY <2>3, <2>5, <2>8
    <3>2. Hashed \in Int
      BY <2>2, CandidateEarlier
    <3>3. /\ Tabled \in [0..TableSize - 1 -> Nat]
          /\ \A x \in 0..TableSize - 1 : Tabled[x] = 0 \/ Tabled[x] < to
      BY <2>3, <3>1, TabledStep
    <3>4. CASE more
      <4> HIDE DEF to
      <4>1. /\ In(to - 2) \in 0..255 /\ In(to - 1) \in 0..255 /\ In(to) \in 0..255
            /\ In(to + 1) \in 0..255
        <5>1. to - 2 \in 0..InputLength - 1 /\ to - 1 \in 0..InputLength - 1
              /\ to \in 0..InputLength - 1 /\ to + 1 \in 0..InputLength - 1
          BY <2>3, <3>1, <3>4
        <5> QED
          BY <5>1, InputTyped
      <4>2. h1 \in Int
        <5>1. In(to - 2) \in Int /\ In(to - 1) \in Int /\ In(to) \in Int
          BY <4>1
        <5>2. Or(In(to - 2), In(to - 1)) \in Int
          BY <5>1, OrTyped
        <5> QED
          BY <5>1, <5>2
      <4> HIDE DEF h1
      <4>3. h2 \in Int
        <5>1. In(to + 1) \in Int
          BY <4>1
        <5> QED
          BY <4>2, <5>1, ShiftTyped
      <4> HIDE DEF h2
      <4> DEFINE f1 == [Tabled EXCEPT ![Slot(h1)] = to - 2]
                 f2 == [f1 EXCEPT ![Slot(h2)] = to - 1]
      <4>4. /\ f1 \in [0..TableSize - 1 -> Nat]
            /\ \A x \in 0..TableSize - 1 : f1[x] = 0 \/ f1[x] < to
        <5>1. to - 2 \in Nat /\ to - 2 < to
          BY <2>3, <3>1
        <5> QED
          BY <3>1, <3>3, <5>1, TableStep
      <4> HIDE DEF f1
      <4>5. /\ f2 \in [0..TableSize - 1 -> Nat]
            /\ \A x \in 0..TableSize - 1 : f2[x] = 0 \/ f2[x] < to
        <5>1. to - 1 \in Nat /\ to - 1 < to
          BY <2>3, <3>1
        <5> QED
          BY <3>1, <4>4, <5>1, TableStep
      <4>6. table' = f2 /\ hval' = h2
        BY <2>1, <3>4 DEF f1
      <4> HIDE DEF f2
      <4> QED
        BY <2>18, <2>19, <3>1, <4>3, <4>5, <4>6 DEF ScanInv
    <3>5. CASE ~ more
      <4>1. table' = Tabled /\ hval' = Hashed
        BY <2>1, <3>5
      <4> HIDE DEF to
      <4> QED
        BY <2>18, <2>19, <3>1, <3>2, <3>3, <4>1 DEF ScanInv
    <3> QED
      BY <3>4, <3>5
  <2> QED
    BY <2>1, <2>13, <2>20, <2>21
<1> QED
  BY <1>1, <1>2

LEMMA EndScanStep ==
  ASSUME input \in Inputs, Packing, ScanInv, EndScan
  PROVE  /\ \/ lzfStage' = "tail" /\ Packing' /\ Ending'
            \/ lzfStage' = "nil" /\ decoded' = <<>>
         /\ input' = input
<1>1. /\ input' = input /\ iidx' = iidx /\ oidx' = oidx /\ output' = output /\ cut' = cut
      /\ decoded' = decoded /\ literal' = literal
  BY DEF EndScan, scratch
<1>2. InputLength' = InputLength
  BY <1>1 DEF InputLength
<1>3. Packing'
  BY <1>1, <1>2 DEF Packing
<1>4. decoded' = <<>>
  BY <1>1 DEF Packing
<1>5. ASSUME lzfStage' # "nil" PROVE lzfStage' = "tail" /\ Ending'
  <2>1. lzfStage' = "tail" /\ ~ (oidx - 1 > InputLength)
    BY <1>5 DEF EndScan
  <2>2. iidx = InputLength - 2
    BY InputTyped DEF EndScan, ScanInv, Packing
  <2>3. oidx <= InputLength + 1
    BY <2>1, InputTyped DEF Packing
  <2> QED
    BY <1>1, <1>2, <2>1, <2>2, <2>3 DEF Ending
<1> QED
  BY <1>1, <1>3, <1>4, <1>5

LEMMA TailByteStep ==
  ASSUME input \in Inputs, Packing, Ending, TailByte
  PROVE  lzfStage' = "tail" /\ Packing' /\ Ending' /\ input' = input
<1>1. /\ iidx \in Nat /\ oidx \in Nat /\ literal \in 0..Hi - 1 /\ Hi \in Nat /\ Hi > 1
      /\ InputLength \in Nat
  BY InputTyped, LzfAssumption DEF Packing
<1>2. iidx < InputLength /\ PutByte /\ lzfStage = "tail" /\ oidx <= InputLength + 3
  BY <1>1 DEF TailByte, Ending
<1>3. Packing' /\ lzfStage' = lzfStage /\ input' = input
  BY <1>1, <1>2, PutByteStep
<1>4. /\ InputLength' = InputLength /\ iidx' = iidx + 1
      /\ oidx' = IF literal + 1 = Hi THEN oidx + 2 ELSE oidx + 1
      /\ literal' = IF literal + 1 = Hi THEN 0 ELSE literal + 1
  BY <1>2, <1>3 DEF PutByte, MaxLiteral, InputLength
<1>5. CASE iidx = InputLength - 2
  <2>1. oidx <= InputLength + 1
    BY <1>1, <1>5 DEF Ending
  <2>2. iidx' = InputLength - 1 /\ oidx' <= InputLength + 3 /\ (oidx' = InputLength + 3 => literal' = 0)
    BY <1>1, <1>4, <1>5, <2>1
  <2> QED
    BY <1>2, <1>3, <1>4, <2>2 DEF Ending
<1>6. CASE iidx = InputLength - 1
  <2>1. oidx <= InputLength + 3 /\ (oidx = InputLength + 3 => literal = 0)
    BY <1>1, <1>6 DEF Ending
  <2>2. iidx' = InputLength /\ oidx' - literal' - 1 <= InputLength + 3
    BY <1>1, <1>4, <1>6, <2>1
  <2> QED
    BY <1>2, <1>3, <1>4, <2>2 DEF Ending
<1> QED
  BY <1>1, <1>2, <1>5, <1>6 DEF Ending

LEMMA EndTailStep ==
  ASSUME input \in Inputs, Packing, Ending, EndTail
  PROVE  lzfStage' = "encoded" /\ Unpacking' /\ input' = input /\ cut' = cut
<1> DEFINE o == oidx - literal - 1
           d == iidx - literal
           end == IF literal = 0 THEN oidx - 1 ELSE oidx
           full == [j \in 4..end - 1 |-> IF j = o THEN literal - 1 ELSE output[j]]
<1>1. /\ o \in Nat /\ o >= 4 /\ d \in Nat /\ literal \in Nat /\ literal < Hi /\ Hi \in Nat
      /\ iidx \in Nat /\ oidx \in Nat /\ InputLength \in Nat /\ Coded(input, output, o, d)
      /\ \A l \in 1..literal : output[o + l] = input[d + l]
      /\ o = oidx - literal - 1 /\ d = iidx - literal /\ decoded = <<>> /\ cut = FALSE
  BY PackingOidx, InputTyped DEF Packing
<1>2. iidx = InputLength /\ ~ (o > InputLength + 3)
  <2>1. iidx = InputLength
    BY DEF EndTail
  <2> QED
    BY <1>1, <2>1 DEF Ending
<1>3. /\ lzfStage' = "encoded" /\ output' = full /\ iidx' = 4 /\ input' = input
      /\ decoded' = decoded /\ cut' = cut
  BY <1>2 DEF EndTail
<1>4. end \in Nat /\ end >= 4
  BY <1>1
<1> HIDE DEF o, d
<1>5. Coded(input, full, end, InputLength)
  <2>1. CASE literal = 0
    <3>1. end = o /\ InputLength = d
      BY <1>1, <1>2, <2>1
    <3>2. \A c \in 4..o - 1 : full[c] = output[c]
      BY <1>1, <3>1
    <3> HIDE DEF end, full
    <3> QED
      BY <1>1, <3>1, <3>2, CodedKept
  <2>2. CASE literal # 0
    <3>1. end = o + literal + 1 /\ InputLength = d + literal /\ literal \in 1..Hi
      <4>1. end = oidx
        BY <2>2
      <4>2. o = oidx - literal - 1 /\ d = iidx - literal /\ iidx = InputLength
        BY <1>1, <1>2
      <4> HIDE DEF end, full
      <4>3. oidx = o + literal + 1 /\ InputLength = d + literal
        BY <1>1, <4>2
      <4>4. literal \in 1..Hi
        BY <1>1, <2>2
      <4> QED
        BY <4>1, <4>3, <4>4
    <3>2. full[o] = literal - 1 /\ \A c \in 4..o - 1 : full[c] = output[c]
      BY <1>1, <3>1
    <3>3. ASSUME NEW l \in 1..literal PROVE full[o + l] = input[d + l]
      <4>1. o + l \in 4..end - 1 /\ o + l # o
        <5>1. o \in Nat /\ o >= 4 /\ literal \in Nat
          BY <1>1
        <5>2. l \in Nat /\ 1 <= l /\ l <= literal
          BY <5>1
        <5> HIDE DEF end
        <5> QED
          BY <3>1, <5>1, <5>2
      <4> HIDE DEF end
      <4> QED
        BY <1>1, <4>1
    <3> HIDE DEF end, full
    <3> QED
      BY <1>1, <3>1, <3>2, <3>3, Literals
  <2> QED
    BY <2>1, <2>2
<1>6. PICK P : Chain(input, full, P, end, InputLength)
  BY <1>5 DEF Coded
<1>7. <<4, 0>> \in P
  BY <1>6 DEF Chain
<1>8. full = [c \in 4..end - 1 |-> full[c]]
  OBVIOUS
<1> HIDE DEF end, full
<1>9. InputLength' = InputLength
  BY <1>3 DEF InputLength
<1>10. decoded' \in Seq(0..255) /\ Len(decoded') = 0
  BY <1>1, <1>3
<1>11. end - 1 \in 3..end - 1
  BY <1>4
<1>12. \E f, Q, e, last :
         /\ Chain(input', f, Q, e, InputLength')
         /\ last \in 3..e - 1 /\ (~ cut' => last = e - 1)
         /\ output' = [c \in 4..last |-> f[c]]
         /\ <<iidx', Len(decoded')>> \in Q
  BY <1>3, <1>6, <1>7, <1>8, <1>9, <1>10, <1>11
<1>13. Len(decoded') <= InputLength' /\ \A x \in 1..Len(decoded') : decoded'[x] = input'[x]
  BY <1>1, <1>9, <1>10
<1>14. Unpacking'
  BY <1>10, <1>12, <1>13 DEF Unpacking
<1> QED
  BY <1>3, <1>14

----------------------------------------------------------------------------
(* Decompress *)

\* What a copy from the bytes written writes, which may be what it has just written.
LEMMA CopyRight ==
  ASSUME NEW d \in Nat, NEW offset \in Nat, offset < d, NEW count \in Nat,
         \A x \in 1..d : decoded[x] = input[x], Len(decoded) = d,
         \A x \in 1..count : input[d + x] = input[d + x - (offset + 1)]
  PROVE  \A x \in 1..count : Copy(d - offset - 1, count)[x] = input[d + x]
<1> DEFINE q == offset + 1
           b == d - offset - 1
           T == {x \in 0..count : \A y \in 1..x : input[b + 1 + ((y - 1) % q)] = input[d + y]}
<1>0. q \in Nat /\ q > 0 /\ b \in Nat /\ b + q = d
  OBVIOUS
<1>1. 0 \in T
  OBVIOUS
<1> HIDE DEF q, b
<1>2. ASSUME NEW x \in 0..count - 1, x \in T PROVE x + 1 \in T
  <2>1. input[b + 1 + (x % q)] = input[d + (x + 1)]
    <3>1. CASE x < q
      <4>1. x % q = x
        BY <1>0, <3>1, ModSmall
      <4>2. input[d + (x + 1)] = input[d + (x + 1) - q]
        BY DEF q
      <4>3. d + (x + 1) - q = b + 1 + x
        BY <1>0
      <4> QED
        BY <4>1, <4>2, <4>3
    <3>2. CASE x >= q
      <4> DEFINE y == x - q + 1
      <4>1. y \in 1..x /\ y - 1 \in Nat /\ (y - 1) + q = x
        BY <1>0, <3>2
      <4>2. input[b + 1 + ((y - 1) % q)] = input[d + y]
        BY <1>2, <4>1
      <4>3. x % q = (y - 1) % q
        BY <1>0, <4>1, ModAgain
      <4>4. input[d + (x + 1)] = input[d + (x + 1) - q]
        BY DEF q
      <4>5. d + (x + 1) - q = d + y
        BY <1>0
      <4> QED
        BY <4>2, <4>3, <4>4, <4>5
    <3> QED
      BY <1>0, <3>1, <3>2
  <2>2. ASSUME NEW y \in 1..x + 1 PROVE input[b + 1 + ((y - 1) % q)] = input[d + y]
    <3>1. CASE y \in 1..x
      BY <1>2, <3>1
    <3>2. CASE y = x + 1
      <4>1. y - 1 = x
        BY <3>2
      <4> QED
        BY <2>1, <3>2, <4>1
    <3> QED
      BY <3>1, <3>2
  <2> QED
    BY <2>2
<1>3. 0..count \subseteq T
  <2> HIDE DEF T
  <2> QED
    BY <1>1, <1>2, InductTo
<1>4. ASSUME NEW x \in 1..count PROVE Copy(b, count)[x] = input[d + x]
  <2>1. count \in T
    BY <1>3
  <2>2. input[b + 1 + ((x - 1) % q)] = input[d + x]
    BY <2>1
  <2>3. x - 1 \in Int
    OBVIOUS
  <2>4. (x - 1) % q \in 0..q - 1
    BY <1>0, <2>3, DivMod
  <2>5. b + 1 + ((x - 1) % q) \in 1..d
    BY <1>0, <2>4
  <2>6. Copy(b, count)[x] = decoded[b + 1 + ((x - 1) % (Len(decoded) - b))]
    BY DEF Copy
  <2>7. Len(decoded) - b = q
    BY <1>0
  <2> QED
    BY <2>2, <2>5, <2>6, <2>7
<1> QED
  BY <1>4 DEF b

\* The cell and the byte where the decoder is, between the first cells and the end.
At(full, P, o, last) ==
  /\ Chain(input, full, P, o, InputLength)
  /\ last \in 3..o - 1 /\ (~ cut => last = o - 1)
  /\ output = [c \in 4..last |-> full[c]]
  /\ <<iidx, Len(decoded)>> \in P

LEMMA AtFacts ==
  ASSUME input \in Inputs, Unpacking, NEW full, NEW P, NEW o, NEW last, At(full, P, o, last)
  PROVE  /\ o \in Nat /\ last \in Nat /\ iidx \in Nat /\ Len(decoded) \in Nat /\ iidx >= 4
         /\ CodedLength = last + 1 /\ last < o
         /\ \A c \in 4..last : c \in DOMAIN output /\ output[c] = full[c]
         /\ iidx >= CodedLength /\ ~ cut => Len(decoded) = InputLength
         /\ iidx < CodedLength => \E q \in P : Unit(input, full, iidx, Len(decoded), q[1], q[2])
<1>1. o \in Nat /\ iidx \in Nat /\ Len(decoded) \in Nat /\ iidx >= 4 /\ iidx <= o
  <2>1. <<iidx, Len(decoded)>> \in Nat \X Nat /\ <<o, InputLength>> \in Nat \X Nat
    BY DEF At, Chain
  <2>2. 4 <= <<iidx, Len(decoded)>>[1] /\ <<iidx, Len(decoded)>>[1] <= o
    BY DEF At, Chain
  <2> QED
    BY <2>1, <2>2
<1>2. last \in 3..o - 1 /\ last \in Nat /\ (~ cut => last = o - 1)
  BY <1>1 DEF At
<1>3. DOMAIN output = 4..last /\ \A c \in 4..last : output[c] = full[c]
  BY DEF At
<1>4. CodedLength = last + 1
  <2>1. Cardinality(4..last) = IF 4 > last THEN 0 ELSE last - 4 + 1
    BY <1>2, FS_Interval
  <2>2. Cardinality(4..last) = last - 3
    BY <1>2, <2>1
  <2> QED
    BY <1>2, <1>3, <2>2 DEF CodedLength
<1>5. ASSUME <<iidx, Len(decoded)>> # <<o, InputLength>>
      PROVE  /\ \E q \in P : Unit(input, full, iidx, Len(decoded), q[1], q[2])
             /\ iidx < o
  <2>1. PICK q \in P : Unit(input, full, iidx, Len(decoded), q[1], q[2])
    BY <1>5 DEF At, Chain
  <2>2. q[1] \in Nat /\ q[1] <= o
    BY DEF At, Chain
  <2>3. iidx < q[1]
    BY <1>1, <2>1, UnitGrows
  <2> QED
    BY <1>1, <2>1, <2>2, <2>3
<1>6. iidx >= CodedLength /\ ~ cut => Len(decoded) = InputLength
  BY <1>1, <1>2, <1>4, <1>5
<1>7. iidx < CodedLength => \E q \in P : Unit(input, full, iidx, Len(decoded), q[1], q[2])
  BY <1>1, <1>2, <1>4, <1>5
<1> QED
  BY <1>1, <1>2, <1>3, <1>4, <1>6, <1>7

\* What a unit writes takes the decoder to the next one.
LEMMA GoStep ==
  ASSUME input \in Inputs, Unpacking, NEW full, NEW P, NEW o, NEW last, At(full, P, o, last),
         NEW q \in P, NEW bytes, NEW count \in Nat, bytes \in [1..count -> Int],
         q[2] = Len(decoded) + count, Go(q[1], bytes),
         \A x \in 1..count : bytes[x] = input[Len(decoded) + x],
         input' = input, output' = output, cut' = cut
  PROVE  Unpacking'
<1> DEFINE d == Len(decoded)
<1>1. d \in Nat /\ InputLength \in Nat /\ q \in Nat \X Nat /\ q[2] <= InputLength /\ q = <<q[1], q[2]>>
  BY AtFacts, InputTyped DEF At, Chain
<1>2. d + count <= InputLength
  BY <1>1
<1>3. bytes \in Seq(0..255) /\ Len(bytes) = count
  <2>1. ASSUME NEW x \in 1..count PROVE bytes[x] \in 0..255
    <3>1. d + x \in 1..Len(input)
      BY <1>1, <1>2 DEF InputLength
    <3>2. input[d + x] \in 0..255
      BY <3>1, InputTyped, ElementOfSeq
    <3> QED
      BY <3>2
  <2>2. bytes \in [1..count -> 0..255]
    BY <2>1
  <2> QED
    BY <2>2
<1>4. decoded' = decoded \o bytes /\ iidx' = q[1]
  BY DEF Go
<1>5. decoded \in Seq(0..255) /\ \A x \in 1..d : decoded[x] = input[x]
  BY DEF Unpacking
<1>6. /\ decoded' \in Seq(0..255) /\ Len(decoded') = d + count
      /\ \A x \in 1..d + count : decoded'[x] = IF x <= d THEN decoded[x] ELSE bytes[x - d]
  BY <1>3, <1>4, <1>5, ConcatProperties
<1>7. \A x \in 1..d + count : decoded'[x] = input[x]
  <2> TAKE x \in 1..d + count
  <2>1. CASE x <= d
    BY <1>1, <1>5, <1>6, <2>1
  <2>2. CASE ~ (x <= d)
    <3>1. x - d \in 1..count /\ d + (x - d) = x
      BY <1>1, <2>2
    <3> HIDE DEF d
    <3> QED
      BY <1>6, <2>2, <3>1 DEF d
  <2> QED
    BY <2>1, <2>2
<1>8. InputLength' = InputLength
  BY DEF InputLength
<1>9. <<iidx', Len(decoded')>> = q
  BY <1>1, <1>4, <1>6
<1>10. \E f, Q, e, l :
         /\ Chain(input', f, Q, e, InputLength')
         /\ l \in 3..e - 1 /\ (~ cut' => l = e - 1)
         /\ output' = [c \in 4..l |-> f[c]]
         /\ <<iidx', Len(decoded')>> \in Q
  BY <1>8, <1>9 DEF At
<1>11. Len(decoded') <= InputLength' /\ \A x \in 1..Len(decoded') : decoded'[x] = input'[x]
  BY <1>2, <1>6, <1>7, <1>8
<1> QED
  BY <1>6, <1>10, <1>11 DEF Unpacking

LEMMA DecodeLiteralStep ==
  ASSUME input \in Inputs, Unpacking, DecodeLiteral
  PROVE  \/ lzfStage' = "decode" /\ Unpacking'
         \/ lzfStage' = "bad" /\ Unpacking' /\ cut
<1>1. PICK full, P, o, last : At(full, P, o, last)
  BY DEF Unpacking, At
<1> DEFINE d == Len(decoded)
<1>2. /\ o \in Nat /\ last \in Nat /\ iidx \in Nat /\ d \in Nat /\ iidx >= 4
      /\ CodedLength = last + 1 /\ last < o
      /\ \A c \in 4..last : c \in DOMAIN output /\ output[c] = full[c]
      /\ iidx < CodedLength /\ InputLength \in Nat /\ Hi \in Nat
  BY <1>1, AtFacts, InputTyped, LzfAssumption DEF DecodeLiteral
<1>3. PICK q \in P : Unit(input, full, iidx, d, q[1], q[2])
  BY <1>1, <1>2, AtFacts
<1>4. /\ q \in Nat \X Nat /\ q[1] \in Nat /\ q[2] \in Nat /\ q[1] <= o /\ q[2] <= InputLength
      /\ (~ cut => last = o - 1)
  BY <1>1 DEF At, Chain
<1>5. full[iidx] = output[iidx] /\ ctrl = output[iidx] /\ ctrl < Hi
  BY <1>2 DEF ctrl, DecodeLiteral
<1>6. LiteralUnit(input, full, iidx, d, q[1], q[2])
  <2> SUFFICES ASSUME NEW length \in Nat \ {0}, NEW offset \in Nat,
                      Reference(input, full, iidx, d, q[1], q[2], length, offset)
               PROVE  FALSE
    BY <1>3 DEF Unit
  <2>1. PICK l \in Nat \ {0} : full[iidx] = Control(l, offset \div Lo)
    BY LzfAssumption DEF Reference
  <2>2. offset \div Lo \in Int /\ offset \div Lo >= 0
    BY LzfAssumption, DivMod
  <2>3. Hi * l >= Hi
    BY <1>2
  <2> DEFINE low == offset \div Lo
             product == Hi * l
  <2>4. low \in Int /\ low >= 0 /\ product >= Hi /\ product \in Int /\ full[iidx] = low + product
    BY <1>2, <2>1, <2>2, <2>3 DEF Control
  <2> HIDE DEF low, product
  <2> QED
    BY <1>2, <1>5, <2>4
<1>7. /\ ctrl \in 0..Hi - 1 /\ q[1] = iidx + ctrl + 2 /\ q[2] = d + ctrl + 1
      /\ \A l \in 1..ctrl + 1 : full[iidx + l] = input[d + l]
  BY <1>5, <1>6 DEF LiteralUnit
<1>8. input' = input /\ output' = output /\ cut' = cut
  BY DEF DecodeLiteral
<1>9. CASE d + ctrl + 1 > InputLength \/ iidx + ctrl + 2 > CodedLength
  <2>1. lzfStage' = "bad" /\ iidx' = iidx /\ decoded' = decoded
    BY <1>9 DEF DecodeLiteral, Fail
  <2>2. cut
    BY <1>2, <1>4, <1>7, <1>9
  <2>3. Unpacking'
    BY <1>8, <2>1 DEF Unpacking, InputLength
  <2> QED
    BY <2>1, <2>2, <2>3
<1>10. CASE ~ (d + ctrl + 1 > InputLength \/ iidx + ctrl + 2 > CodedLength)
  <2> DEFINE bytes == [l \in 1..ctrl + 1 |-> output[iidx + l]]
  <2>1. Go(q[1], bytes) /\ lzfStage' = "decode"
    BY <1>7, <1>10 DEF DecodeLiteral, Go
  <2>2. ASSUME NEW l \in 1..ctrl + 1 PROVE bytes[l] = input[d + l] /\ input[d + l] \in Int
    <3>1. iidx + l \in 4..last
      BY <1>2, <1>7, <1>10
    <3>2. d + l \in 1..Len(input)
      BY <1>2, <1>4, <1>7 DEF InputLength
    <3>3. input[d + l] \in 0..255
      BY <3>2, InputTyped, ElementOfSeq
    <3>4. bytes[l] = output[iidx + l]
      OBVIOUS
    <3>5. output[iidx + l] = full[iidx + l]
      BY <1>2, <3>1
    <3>6. full[iidx + l] = input[d + l]
      BY <1>7
    <3> HIDE DEF bytes, d
    <3> QED
      BY <3>3, <3>4, <3>5, <3>6
  <2>3. ctrl + 1 \in Nat /\ bytes \in [1..ctrl + 1 -> Int]
    <3>1. ctrl \in Nat
      BY <1>2, <1>7
    <3>2. \A l \in 1..ctrl + 1 : output[iidx + l] \in Int
      BY <2>2
    <3> QED
      BY <3>1, <3>2
  <2>4. q[2] = d + (ctrl + 1) /\ \A l \in 1..ctrl + 1 : bytes[l] = input[d + l]
    BY <1>2, <1>7, <2>2
  <2> HIDE DEF bytes
  <2>5. Unpacking'
    BY <1>1, <1>8, <2>1, <2>3, <2>4, GoStep
  <2> QED
    BY <2>1, <2>5
<1> QED
  BY <1>9, <1>10

\* A control byte has its two fields.
LEMMA ControlFields ==
  ASSUME NEW length \in Nat, NEW low \in 0..Hi - 1
  PROVE  Control(length, low) \div Hi = length /\ Control(length, low) % Hi = low
BY LzfAssumption, DivModOf DEF Control

LEMMA DecodeReferenceStep ==
  ASSUME input \in Inputs, Unpacking, DecodeReference
  PROVE  \/ lzfStage' = "decode" /\ Unpacking'
         \/ lzfStage' = "bad" /\ Unpacking' /\ cut
<1>1. PICK full, P, o, last : At(full, P, o, last)
  BY DEF Unpacking, At
<1> DEFINE d == Len(decoded)
<1>2. /\ o \in Nat /\ last \in Nat /\ iidx \in Nat /\ d \in Nat /\ iidx >= 4
      /\ CodedLength = last + 1 /\ last < o
      /\ \A c \in 4..last : c \in DOMAIN output /\ output[c] = full[c]
      /\ iidx < CodedLength /\ InputLength \in Nat /\ Hi \in Nat /\ Hi > 0
      /\ Lo \in Nat /\ Lo > 0 /\ Long \in Nat /\ Long > 0
  BY <1>1, AtFacts, InputTyped, LzfAssumption DEF DecodeReference
<1>3. PICK q \in P : Unit(input, full, iidx, d, q[1], q[2])
  BY <1>1, <1>2, AtFacts
<1>4. /\ q \in Nat \X Nat /\ q[1] \in Nat /\ q[2] \in Nat /\ q[1] <= o /\ q[2] <= InputLength
      /\ (~ cut => last = o - 1)
  BY <1>1 DEF At, Chain
<1>5. full[iidx] = output[iidx] /\ ctrl = output[iidx] /\ ctrl >= Hi
  BY <1>2 DEF ctrl, DecodeReference
<1>6. ~ LiteralUnit(input, full, iidx, d, q[1], q[2])
  BY <1>2, <1>5 DEF LiteralUnit
<1>7. PICK count \in Nat \ {0}, offset \in Nat :
        Reference(input, full, iidx, d, q[1], q[2], count, offset)
  BY <1>3, <1>6 DEF Unit
<1> DEFINE high == offset \div Lo
           low == offset % Lo
           long == count >= Long
           field == IF long THEN Long ELSE count
<1>8. /\ high \in 0..Hi - 1 /\ low \in 0..Lo - 1 /\ offset = low + (Lo * high)
      /\ high * Lo = Lo * high /\ high * Lo \in Nat
  <2>1. offset < Hi * Lo
    BY <1>7 DEF Reference, MaxOffset
  <2>2. high < Hi
    BY <1>2, <2>1, DivLess
  <2>3. /\ low \in 0..Lo - 1 /\ high \in Int /\ offset = low + (Lo * high) /\ high >= 0
    BY <1>2, DivMod
  <2> HIDE DEF high, low
  <2>4. high * Lo = Lo * high /\ high * Lo \in Nat
    BY <1>2, <2>3
  <2> QED
    BY <1>2, <2>2, <2>3, <2>4
<1>9. /\ full[iidx] = Control(field, high) /\ field \in Nat
      /\ long => /\ q[1] = iidx + 3 /\ full[iidx + 1] = count - Long /\ full[iidx + 2] = low
      /\ ~ long => q[1] = iidx + 2 /\ full[iidx + 1] = low
  BY <1>2, <1>7 DEF Reference
<1>10. ctrl \div Hi = field /\ ctrl % Hi = high
  <2> HIDE DEF high, field
  <2>1. ctrl = Control(field, high) /\ field \in Nat
    BY <1>5, <1>9
  <2> QED
    BY <1>8, <2>1, ControlFields
<1> DEFINE extended == ctrl \div Hi = Long
           spot == IF extended THEN iidx + 2 ELSE iidx + 1
           length == ctrl \div Hi + IF extended THEN output[iidx + 1] ELSE 0
           upper == Len(decoded) - (ctrl % Hi) * Lo - 1
           backref == upper - output[spot]
<1>11. extended <=> long
  <2>1. field = Long <=> long
    BY <1>2
  <2> HIDE DEF field, long
  <2> QED
    BY <1>10, <2>1
<1>12. spot = q[1] - 1 /\ spot > iidx /\ spot \in Nat
  <2> HIDE DEF extended, long
  <2> QED
    BY <1>2, <1>4, <1>9, <1>11
<1>13. /\ d = Len(decoded) /\ offset < d /\ q[2] = d + count + 2 /\ count \in Nat
       /\ \A l \in 1..count + 2 : input[d + l] = input[d + l - (offset + 1)]
  BY <1>7 DEF Reference
<1>14. upper = d - (high * Lo) - 1 /\ upper >= 0 /\ upper \in Int
  <2>1. upper = d - (high * Lo) - 1
    BY <1>10
  <2> DEFINE t == high * Lo
  <2> HIDE DEF upper, high, low
  <2>2. t \in Nat /\ low \in Nat /\ offset = low + t /\ offset < d /\ d \in Nat
    BY <1>2, <1>8, <1>13
  <2>3. upper = (d - t) - 1
    BY <2>1
  <2> HIDE DEF t
  <2>4. upper = (d - t) - 1 /\ upper >= 0 /\ upper \in Int
    BY <2>2, <2>3
  <2> QED
    BY <2>4 DEF t
<1>15. input' = input /\ output' = output /\ cut' = cut
  BY DEF DecodeReference
<1>16. /\ lzfStage = "decode"
       /\ IF spot >= CodedLength THEN Fail("bad")
          ELSE IF Len(decoded) + length + 2 > InputLength THEN Fail("bad")
          ELSE IF upper < 0 THEN Fail("panic")
          ELSE IF backref < 0 THEN Fail("bad")
          ELSE Go(spot + 1, Copy(backref, length + 2))
  BY DEF DecodeReference
<1>17. CASE spot >= CodedLength
  <2> HIDE DEF spot
  <2>1. lzfStage' = "bad" /\ iidx' = iidx /\ decoded' = decoded
    BY <1>16, <1>17 DEF Fail
  <2>2. cut
    BY <1>2, <1>4, <1>12, <1>17
  <2>3. Unpacking'
    BY <1>15, <2>1 DEF Unpacking, InputLength
  <2> QED
    BY <2>1, <2>2, <2>3
<1>18. CASE ~ (spot >= CodedLength)
  <2>1. spot \in 4..last /\ iidx + 1 \in 4..last
    <3> HIDE DEF spot
    <3> QED
      BY <1>2, <1>12, <1>18
  <2>2. output[spot] = low
    <3> HIDE DEF extended, low, long
    <3>1. output[spot] = full[spot] /\ spot \in Nat
      BY <1>2, <2>1
    <3> QED
      BY <1>9, <1>11, <3>1
  <2>3. length = count
    <3>1. output[iidx + 1] = full[iidx + 1]
      BY <1>2, <2>1
    <3>2. CASE long
      <4>1. extended /\ output[iidx + 1] = count - Long /\ ctrl \div Hi = Long
        BY <1>9, <1>11, <3>1, <3>2
      <4> HIDE DEF extended
      <4> QED
        BY <1>2, <1>13, <4>1
    <3>3. CASE ~ long
      <4>1. ~ extended /\ ctrl \div Hi = count
        BY <1>10, <1>11, <3>3
      <4> HIDE DEF extended
      <4> QED
        BY <1>13, <4>1
    <3> QED
      BY <3>2, <3>3
  <2> HIDE DEF spot, length, high, low, field, long, extended
  <2>4. backref = d - offset - 1 /\ backref >= 0
    <3> HIDE DEF upper
    <3>1. backref = upper - low
      BY <2>2
    <3> HIDE DEF backref
    <3> QED
      BY <1>2, <1>8, <1>13, <1>14, <3>1
  <2> HIDE DEF upper, backref
  <2>5. ~ (Len(decoded) + length + 2 > InputLength)
    BY <1>2, <1>4, <1>13, <2>3
  <2>6. Go(spot + 1, Copy(backref, length + 2))
    BY <1>14, <1>16, <1>18, <2>4, <2>5
  <2> DEFINE bytes == Copy(d - offset - 1, count + 2)
  <2>7. Go(q[1], bytes)
    <3>1. spot + 1 = q[1]
      BY <1>4, <1>12
    <3> QED
      BY <2>3, <2>4, <2>6, <3>1
  <2>8. \A l \in 1..count + 2 : bytes[l] = input[d + l]
    <3>1. \A x \in 1..d : decoded[x] = input[x]
      BY DEF Unpacking
    <3>2. count + 2 \in Nat /\ offset \in Nat /\ offset < d
      BY <1>7, <1>13
    <3>3. \A x \in 1..count + 2 : input[d + x] = input[d + x - (offset + 1)]
      BY <1>13
    <3> HIDE DEF d
    <3>4. d \in Nat /\ Len(decoded) = d
      BY <1>2, <1>13
    <3> QED
      BY <3>1, <3>2, <3>3, <3>4, CopyRight
  <2>9. bytes \in [1..count + 2 -> Int]
    <3>1. ASSUME NEW l \in 1..count + 2 PROVE bytes[l] \in Int
      <4>1. d + l \in 1..Len(input)
        BY <1>2, <1>4, <1>13 DEF InputLength
      <4>2. input[d + l] \in 0..255
        BY <4>1, InputTyped, ElementOfSeq
      <4> HIDE DEF bytes
      <4> QED
        BY <2>8, <4>2
    <3>2. bytes = [l \in 1..count + 2 |-> bytes[l]]
      BY DEF Copy
    <3> HIDE DEF bytes
    <3> QED
      BY <3>1, <3>2
  <2> HIDE DEF bytes
  <2>10. Unpacking'
    <3>1. count + 2 \in Nat /\ q[2] = d + (count + 2)
      BY <1>2, <1>13
    <3> QED
      BY <1>1, <1>15, <2>7, <2>8, <2>9, <3>1, GoStep
  <2>11. lzfStage' = "decode"
    BY <1>16, <2>7 DEF Go
  <2> QED
    BY <2>10, <2>11
<1> QED
  BY <1>17, <1>18

\* A shorter output has the first cells of the same encoding.
LEMMA CutStep ==
  ASSUME input \in Inputs, Unpacking, Cut
  PROVE  Unpacking' /\ lzfStage' = "encoded" /\ input' = input /\ cut' = TRUE
<1>1. PICK full, P, o, last : At(full, P, o, last)
  BY DEF Unpacking, At
<1>2. o \in Nat /\ last \in Nat /\ last < o /\ DOMAIN output = 4..last
      /\ \A c \in 4..last : output[c] = full[c]
  BY <1>1, AtFacts DEF At
<1>3. PICK j \in 4..last : output' = [c \in 4..j |-> output[c]]
  BY <1>2 DEF Cut, Restrict
<1>4. output' = [c \in 4..j |-> full[c]]
  BY <1>2, <1>3
<1>5. input' = input /\ iidx' = iidx /\ decoded' = decoded /\ cut' = TRUE /\ lzfStage' = "encoded"
  BY DEF Cut
<1>6. j \in 3..o - 1
  BY <1>2
<1>7. InputLength' = InputLength
  BY <1>5 DEF InputLength
<1>8. \E f, Q, e, l :
         /\ Chain(input', f, Q, e, InputLength')
         /\ l \in 3..e - 1 /\ (~ cut' => l = e - 1)
         /\ output' = [c \in 4..l |-> f[c]]
         /\ <<iidx', Len(decoded')>> \in Q
  BY <1>1, <1>4, <1>5, <1>6, <1>7 DEF At
<1>9. decoded' \in Seq(0..255) /\ Len(decoded') <= InputLength'
      /\ \A x \in 1..Len(decoded') : decoded'[x] = input'[x]
  BY <1>5, <1>7 DEF Unpacking
<1> QED
  BY <1>5, <1>8, <1>9 DEF Unpacking

LEMMA UnpackingSame ==
  ASSUME Unpacking, input' = input, output' = output, cut' = cut, iidx' = iidx, decoded' = decoded
  PROVE  Unpacking' /\ CodedLength' = CodedLength
<1>1. InputLength' = InputLength /\ CodedLength' = CodedLength
  BY DEF InputLength, CodedLength
<1> QED
  BY <1>1 DEF Unpacking

\* Before the first byte.
LEMMA LzfStart ==
  ASSUME LzfInit
  PROVE  LzfInv
<1>1. input \in Inputs /\ cut = FALSE /\ decoded = <<>>
  BY DEF LzfInit
<1>2. CASE InputLength <= 4 \/ InputLength >= MaxSize
  BY <1>1, <1>2 DEF LzfInit, LzfInv
<1>3. CASE ~ (InputLength <= 4 \/ InputLength >= MaxSize)
  <2>1. InputLength \in Nat /\ InputLength > 4 /\ In(1) \in 0..255 /\ Hi \in Nat /\ Hi > 1
        /\ TableSize \in Nat
    <3>1. InputLength \in Nat /\ 1 \in 0..InputLength - 1
      BY <1>1, <1>3, InputTyped
    <3> QED
      BY <1>1, <1>3, <3>1, InputTyped, LzfAssumption
  <2>2. /\ iidx = 0 /\ oidx = 5 /\ literal = 0 /\ lzfStage = "scan" /\ hval \in Int
        /\ table = [slot \in 0..TableSize - 1 |-> 0]
        /\ output = [j \in 4..InputLength + 3 |-> 0]
    BY <1>3, <2>1 DEF LzfInit
  <2>3. Chain(input, output, {<<4, 0>>}, 4, 0)
    BY DEF Chain
  <2>4. Coded(input, output, oidx - literal - 1, iidx - literal)
    <3>1. oidx - literal - 1 = 4 /\ iidx - literal = 0
      BY <2>2
    <3> QED
      BY <2>3, <3>1 DEF Coded
  <2>5. Packing
    BY <1>1, <2>1, <2>2, <2>4 DEF Packing
  <2>6. ScanInv
    BY <2>1, <2>2 DEF ScanInv
  <2> QED
    BY <1>1, <2>2, <2>5, <2>6 DEF LzfInv
<1> QED
  BY <1>2, <1>3

LEMMA AdmittedStep ==
  ASSUME LzfInv, Admitted, [LzfNext]_lzfVars
  PROVE  Admitted'
<1>1. CASE \/ BackReference \/ Literal \/ EndScan \/ TailByte \/ EndTail
           \/ Deliver \/ Cut \/ DecodeLiteral \/ DecodeReference \/ EndDecode
  <2>1. lzfStage # "nil"
    BY <1>1 DEF BackReference, Literal, EndScan, TailByte, EndTail, Deliver, Cut, DecodeLiteral,
                DecodeReference, EndDecode, Scanning
  <2>2. input' = input
    BY <1>1 DEF BackReference, Literal, EndScan, TailByte, EndTail, Deliver, Cut, DecodeLiteral,
                DecodeReference, EndDecode, GiveUp, PutByte
  <2> QED
    BY <2>1, <2>2 DEF Admitted, InputLength
<1>2. CASE UNCHANGED lzfVars
  BY <1>2 DEF lzfVars, Admitted, InputLength
<1> QED
  BY <1>1, <1>2 DEF LzfNext

LEMMA LzfStep ==
  ASSUME LzfInv, Admitted, [LzfNext]_lzfVars
  PROVE  LzfInv'
<1>0. input \in Inputs /\ cut \in BOOLEAN
  BY DEF LzfInv
<1>1. CASE BackReference
  <2>1. lzfStage = "scan" /\ Packing /\ ScanInv
    BY <1>1 DEF LzfInv, BackReference, Scanning
  <2>2. \/ lzfStage' = "scan" /\ Packing' /\ ScanInv' /\ input' = input
        \/ lzfStage' = "nil" /\ decoded' = decoded /\ input' = input
    BY <1>0, <1>1, <2>1, ReferenceStep
  <2>3. decoded = <<>> /\ cut' = cut
    BY <1>1, <2>1 DEF Packing, BackReference, GiveUp
  <2> QED
    BY <1>0, <2>2, <2>3 DEF LzfInv
<1>2. CASE Literal
  <2>1. lzfStage = "scan" /\ Packing /\ ScanInv
    BY <1>2 DEF LzfInv, Literal, Scanning
  <2>2. decoded = <<>>
    BY <2>1 DEF Packing
  <2>3. \/ lzfStage' = "scan" /\ Packing' /\ ScanInv' /\ input' = input
        \/ lzfStage' = "nil" /\ decoded' = decoded /\ input' = input
    BY <1>0, <1>2, <2>1, <2>2, LiteralStep
  <2>4. cut' = cut
    BY <1>2 DEF Literal, PutByte, GiveUp
  <2> QED
    BY <1>0, <2>2, <2>3, <2>4 DEF LzfInv
<1>3. CASE EndScan
  <2>1. Packing /\ ScanInv /\ cut' = cut
    BY <1>3 DEF LzfInv, EndScan
  <2>2. /\ \/ lzfStage' = "tail" /\ Packing' /\ Ending'
           \/ lzfStage' = "nil" /\ decoded' = <<>>
        /\ input' = input
    BY <1>0, <1>3, <2>1, EndScanStep
  <2> QED
    BY <1>0, <2>1, <2>2 DEF LzfInv
<1>4. CASE TailByte
  <2>1. Packing /\ Ending /\ cut' = cut
    BY <1>4 DEF LzfInv, TailByte, PutByte
  <2>2. lzfStage' = "tail" /\ Packing' /\ Ending' /\ input' = input
    BY <1>0, <1>4, <2>1, TailByteStep
  <2> QED
    BY <1>0, <2>1, <2>2 DEF LzfInv
<1>5. CASE EndTail
  <2>1. Packing /\ Ending
    BY <1>5 DEF LzfInv, EndTail
  <2>2. lzfStage' = "encoded" /\ Unpacking' /\ input' = input /\ cut' = cut
    BY <1>0, <1>5, <2>1, EndTailStep
  <2> QED
    BY <1>0, <2>2 DEF LzfInv
<1>6. CASE Deliver
  <2>1. Unpacking /\ lzfStage' = "decode" /\ input' = input /\ output' = output /\ cut' = cut
        /\ iidx' = iidx /\ decoded' = decoded
    <3>1. ~ (InputLength >= MaxSize)
      BY <1>0, <1>6, InputTyped, SizeAssumption DEF Admitted, Deliver
    <3> QED
      BY <1>6, <3>1 DEF LzfInv, Deliver
  <2>2. Unpacking'
    BY <2>1, UnpackingSame
  <2> QED
    BY <1>0, <2>1, <2>2 DEF LzfInv
<1>7. CASE Cut
  <2>1. Unpacking
    BY <1>7 DEF LzfInv, Cut
  <2>2. Unpacking' /\ lzfStage' = "encoded" /\ input' = input /\ cut' = TRUE
    BY <1>0, <1>7, <2>1, CutStep
  <2> QED
    BY <1>0, <2>2 DEF LzfInv
<1>8. CASE DecodeLiteral
  <2>1. Unpacking /\ input' = input /\ cut' = cut
    BY <1>8 DEF LzfInv, DecodeLiteral
  <2>2. \/ lzfStage' = "decode" /\ Unpacking'
        \/ lzfStage' = "bad" /\ Unpacking' /\ cut
    BY <1>0, <1>8, <2>1, DecodeLiteralStep
  <2> QED
    BY <1>0, <2>1, <2>2 DEF LzfInv
<1>9. CASE DecodeReference
  <2>1. Unpacking /\ input' = input /\ cut' = cut
    BY <1>9 DEF LzfInv, DecodeReference
  <2>2. \/ lzfStage' = "decode" /\ Unpacking'
        \/ lzfStage' = "bad" /\ Unpacking' /\ cut
    BY <1>0, <1>9, <2>1, DecodeReferenceStep
  <2> QED
    BY <1>0, <2>1, <2>2 DEF LzfInv
<1>10. CASE EndDecode
  <2>1. Unpacking /\ input' = input /\ output' = output /\ cut' = cut
        /\ iidx' = iidx /\ decoded' = decoded /\ lzfStage' = "ok" /\ iidx >= CodedLength
    BY <1>10 DEF LzfInv, EndDecode
  <2>2. Unpacking' /\ CodedLength' = CodedLength
    BY <2>1, UnpackingSame
  <2> QED
    BY <1>0, <2>1, <2>2 DEF LzfInv
<1>11. CASE UNCHANGED lzfVars
  <2>1. /\ input' = input /\ lzfStage' = lzfStage /\ iidx' = iidx /\ oidx' = oidx
        /\ literal' = literal /\ table' = table /\ hval' = hval /\ output' = output
        /\ cut' = cut /\ decoded' = decoded
    BY <1>11 DEF lzfVars
  <2>2. InputLength' = InputLength
    BY <2>1 DEF InputLength
  <2>3. (Packing => Packing') /\ (ScanInv => ScanInv') /\ (Ending => Ending')
    BY <2>1, <2>2 DEF Packing, ScanInv, Ending
  <2>4. Unpacking => Unpacking' /\ CodedLength' = CodedLength
    BY <2>1, UnpackingSame
  <2> QED
    BY <1>0, <2>1, <2>3, <2>4 DEF LzfInv
<1> QED
  BY <1>1, <1>2, <1>3, <1>4, <1>5, <1>6, <1>7, <1>8, <1>9, <1>10, <1>11 DEF LzfNext

LEMMA LzfRight ==
  ASSUME LzfInv
  PROVE  RoundTrip
<1>1. input \in Inputs /\ input \in Seq(0..255)
  BY InputTyped DEF LzfInv
<1>2. lzfStage # "panic" /\ (lzfStage = "bad" => cut)
  BY DEF LzfInv
<1>3. decoded = <<>> \/ Unpacking
  BY DEF LzfInv, Packing
<1>4. /\ decoded \in Seq(0..255) /\ Len(decoded) \in Nat /\ Len(decoded) <= Len(input)
      /\ \A x \in 1..Len(decoded) : decoded[x] = input[x]
  <2>1. CASE decoded = <<>>
    BY <1>1, <2>1
  <2>2. CASE Unpacking
    BY <1>1, <2>2 DEF Unpacking, InputLength
  <2> QED
    BY <1>3, <2>1, <2>2
<1>5. IsPrefix(decoded, input)
  <2>1. SubSeq(decoded, 1, Len(decoded)) = SubSeq(input, 1, Len(decoded))
    BY <1>1, <1>4
  <2> QED
    BY <1>4, <2>1 DEF IsPrefix
<1>6. ASSUME lzfStage = "ok", ~ cut PROVE decoded = input
  <2>1. Unpacking /\ iidx >= CodedLength
    BY <1>6 DEF LzfInv
  <2>2. PICK full, P, o, last : At(full, P, o, last)
    BY <2>1 DEF Unpacking, At
  <2>3. Len(decoded) = Len(input)
    BY <1>1, <1>6, <2>1, <2>2, AtFacts DEF InputLength
  <2> QED
    BY <1>1, <1>4, <2>3
<1> QED
  BY <1>2, <1>5, <1>6 DEF RoundTrip

\* lzf/lzf.go: what Compress returns Decompress turns into the input again, without an index
\* out of its array on either side; of an output that lost its end it writes the bytes that
\* were in the input, or returns nil.  For inputs of any length, and any sizes of the fields
\* of a reference and of the table.
THEOREM CompressedComesBack == LzfSpec => []RoundTrip
<1>1. LzfInit => LzfInv /\ Admitted
  <2>1. ASSUME LzfInit PROVE Admitted
    <3>1. input \in Inputs
      BY <2>1 DEF LzfInit
    <3>2. InputLength \in Nat /\ MaxSize \in Nat
      BY <3>1, InputTyped, SizeAssumption
    <3> QED
      BY <2>1, <3>2 DEF LzfInit, Admitted
  <2> QED
    BY <2>1, LzfStart
<1>2. LzfInv /\ Admitted /\ [LzfNext]_lzfVars => (LzfInv /\ Admitted)'
  BY LzfStep, AdmittedStep
<1>3. LzfInv => RoundTrip
  BY LzfRight
<1> QED
  BY <1>1, <1>2, <1>3, PTL DEF LzfSpec

----------------------------------------------------------------------------
(* URL *)

\* What grows at every place.
LEMMA Rising ==
  ASSUME NEW m \in Nat, NEW f \in [1..m + 1 -> Int], \A k \in 1..m : f[k] < f[k + 1],
         NEW a \in 1..m + 1, NEW b \in 1..m + 1, a <= b
  PROVE  f[a] + (b - a) <= f[b]
<1> DEFINE T == {x \in 0..b - a : f[a] + x <= f[a + x]}
<1>1. 0 \in T
  OBVIOUS
<1>2. ASSUME NEW x \in 0..(b - a) - 1, x \in T PROVE x + 1 \in T
  <2>1. a + x \in 1..m /\ (a + x) + 1 = a + (x + 1) /\ a + (x + 1) \in 1..m + 1
    OBVIOUS
  <2>2. f[a + x] < f[a + (x + 1)] /\ f[a + x] \in Int /\ f[a + (x + 1)] \in Int
    BY <2>1
  <2>3. f[a] \in Int /\ f[a] + x <= f[a + x]
    BY <1>2
  <2>4. f[a] + (x + 1) <= f[a + (x + 1)]
    BY <2>2, <2>3
  <2> QED
    BY <2>4
<1> HIDE DEF T
<1>3. b - a \in Nat
  OBVIOUS
<1>4. b - a \in T
  <2>1. 0..b - a \subseteq T
    BY <1>1, <1>2, <1>3, InductTo
  <2>2. b - a \in 0..b - a
    BY <1>3
  <2> QED
    BY <2>1, <2>2
<1>5. a + (b - a) = b
  OBVIOUS
<1> QED
  BY <1>4, <1>5 DEF T

\* How many cells a byte takes when it is quoted.
Size(c) == IF ~ IsSpace(c) /\ Escapes(c) THEN 3 ELSE 1

\* Where the bytes of the source are written to.
Steps(pos, m) ==
  /\ pos \in [1..m + 1 -> Nat] /\ pos[1] = 1
  /\ \A k \in 1..m : pos[k + 1] = pos[k] + Size(source[k])

\* The cells of a byte.
Cells(t, o, c) ==
  IF IsSpace(c) THEN t[o] = Plus
  ELSE IF Escapes(c) THEN /\ t[o] = Percent
                          /\ t[o + 1] = HexDigit(c \div 16) /\ t[o + 2] = HexDigit(c % 16)
  ELSE t[o] = c

\* What stands for a byte, whoever wrote it.
Codes(t, o, c, e) ==
  \/ t[o] = c /\ c # Percent /\ ~ (plus /\ c = Plus) /\ e = o + 1
  \/ t[o] = Plus /\ c = Space /\ plus /\ e = o + 1
  \/ /\ t[o] = Percent /\ t[o + 1] = HexDigit(c \div 16) /\ t[o + 2] = HexDigit(c % 16)
     /\ e = o + 3

Coding(pos) ==
  /\ pos \in [1..Len(source) + 1 -> Nat] /\ pos[1] = 1 /\ pos[Len(source) + 1] = Len(chars) + 1
  /\ \A k \in 1..Len(source) : Codes(chars, pos[k], source[k], pos[k + 1])

Encoded == \E pos : Coding(pos)

Span(c) == IF c = Percent THEN 3 ELSE 1

\* Where the first m turns of the loops of urlUnescape are.
Way(pos, m) ==
  /\ pos \in [1..m + 1 -> Nat] /\ pos[1] = 1
  /\ \A k \in 1..m : /\ pos[k] <= Len(chars) /\ pos[k + 1] = pos[k] + Span(chars[pos[k]])
                     /\ chars[pos[k]] = Percent => WellFormed(pos[k])

Same(c) == c # Percent /\ ~ (plus /\ c = Plus)

Counting ==
  /\ chars = source /\ at \in Nat /\ at <= Len(source) /\ hexes \in Nat /\ marked \in BOOLEAN
  /\ \E pos : Steps(pos, at) /\ pos[at + 1] = (at + (2 * hexes)) + 1
  /\ hexes = 0 /\ ~ marked => \A k \in 1..at : ~ Escapes(source[k])

Writing ==
  /\ chars = source /\ at \in Nat /\ at <= Len(source) /\ cells \in Seq(Int) /\ filled \in Nat
  /\ \E pos : /\ Steps(pos, Len(source)) /\ pos[Len(source) + 1] = Len(cells) + 1
              /\ filled + 1 = pos[at + 1]
              /\ \A k \in 1..at : Cells(cells, pos[k], source[k])
  /\ \A c \in 1..filled : cells[c] \in 0..255

Checking ==
  /\ chars \in Seq(0..255) /\ at \in Nat /\ at <= Len(chars) /\ hexes \in Nat /\ marked \in BOOLEAN
  /\ \E m \in Nat : \E pos :
       /\ Way(pos, m) /\ at + 1 = pos[m + 1] /\ at = m + (2 * hexes)
       /\ hexes = 0 /\ ~ marked => \A k \in 1..m : Same(chars[pos[k]])
  /\ DOMAIN cells = {}
  /\ Faithful => Encoded

Unquoting ==
  /\ chars \in Seq(0..255) /\ at \in Nat /\ filled \in Nat /\ cells \in Seq(Int)
  /\ filled <= Len(cells)
  /\ \E pos : /\ Way(pos, Len(cells)) /\ pos[Len(cells) + 1] = Len(chars) + 1
              /\ at + 1 = pos[filled + 1]
  /\ \A c \in 1..filled : cells[c] \in 0..255
  /\ Faithful => Encoded /\ \A c \in 1..filled : cells[c] = source[c]

UrlInv ==
  /\ source \in Seq(0..255) /\ plus \in BOOLEAN
  /\ \/ urlStage = "count" /\ Counting
     \/ urlStage = "write" /\ Writing
     \/ urlStage = "check" /\ Checking
     \/ urlStage = "read" /\ Unquoting
     \/ /\ urlStage = "ok" /\ cells \in Seq(0..255) /\ chars \in Seq(0..255)
        /\ Faithful => cells = source
     \/ urlStage = "bad" /\ ~ Faithful

----------------------------------------------------------------------------
(* Bytes *)

LEMMA SeqTyped ==
  ASSUME NEW T, NEW S, NEW s \in Seq(T), \A x \in 1..Len(s) : s[x] \in S
  PROVE  s \in Seq(S)
<1> DEFINE n == Len(s)
<1>1. n \in Nat /\ s = [x \in 1..n |-> s[x]]
  OBVIOUS
<1>2. s \in [1..n -> S]
  BY <1>1
<1> HIDE DEF n
<1> QED
  BY <1>1, <1>2

LEMMA Digits ==
  ASSUME NEW d \in 0..15
  PROVE  ishex(HexDigit(d)) /\ unhex(HexDigit(d)) = d /\ HexDigit(d) \in 0..255
BY DEF ishex, HexDigit, unhex

LEMMA Halves ==
  ASSUME NEW c \in 0..255
  PROVE  c \div 16 \in 0..15 /\ c % 16 \in 0..15 /\ ((c \div 16) * 16) + (c % 16) = c
OBVIOUS

LEMMA Unhexed ==
  ASSUME NEW c, ishex(c)
  PROVE  unhex(c) \in 0..15
BY DEF ishex, unhex

\* What is not escaped unquoting does not change.
LEMMA RawSame ==
  ASSUME Faithful, NEW c \in 0..255, ~ Escapes(c)
  PROVE  Same(c)
<1>1. CASE safe = QuoteSafe
  BY <1>1 DEF Escapes, shouldEscape, Percent, Plus, Same
<1>2. CASE safe # QuoteSafe
  BY <1>2 DEF Escapes, shouldEscapeCustom, Percent, Plus, Faithful, Same
<1> QED
  BY <1>1, <1>2

\* What is written for a byte stands for it, if nothing is safe that unquoting changes.
LEMMA CellsCode ==
  ASSUME Faithful, NEW t, NEW o, NEW c \in 0..255, Cells(t, o, c)
  PROVE  Codes(t, o, c, o + Size(c))
<1>1. CASE IsSpace(c)
  BY <1>1 DEF Cells, Codes, Size, IsSpace
<1>2. CASE ~ IsSpace(c) /\ Escapes(c)
  BY <1>2 DEF Cells, Codes, Size
<1>3. CASE ~ IsSpace(c) /\ ~ Escapes(c)
  <2>1. t[o] = c /\ Size(c) = 1
    BY <1>3 DEF Cells, Size
  <2>2. Same(c)
    BY <1>3, RawSame
  <2> QED
    BY <2>1, <2>2 DEF Codes, Same
<1> QED
  BY <1>1, <1>2, <1>3

\* What ReadByte makes of the cells from o on.
ReadAt(o) ==
  IF chars[o] = Percent THEN unhex(chars[o + 1]) * 16 + unhex(chars[o + 2])
  ELSE IF chars[o] = Plus THEN IF plus THEN Space ELSE Plus ELSE chars[o]

LEMMA CodesRead ==
  ASSUME NEW c \in 0..255, NEW o \in Nat, NEW e \in Nat, e <= Len(chars) + 1, Len(chars) \in Nat,
         Codes(chars, o, c, e)
  PROVE  ReadAt(o) = c /\ e = o + Span(chars[o]) /\ (chars[o] = Percent => WellFormed(o))
<1>1. CASE chars[o] = c /\ c # Percent /\ ~ (plus /\ c = Plus) /\ e = o + 1
  BY <1>1 DEF ReadAt, Span
<1>2. CASE chars[o] = Plus /\ c = Space /\ plus /\ e = o + 1
  BY <1>2 DEF ReadAt, Span, Plus, Percent
<1>3. CASE /\ chars[o] = Percent /\ chars[o + 1] = HexDigit(c \div 16)
           /\ chars[o + 2] = HexDigit(c % 16) /\ e = o + 3
  <2>1. /\ c \div 16 \in 0..15 /\ c % 16 \in 0..15 /\ ((c \div 16) * 16) + (c % 16) = c
    BY Halves
  <2>2. /\ ishex(chars[o + 1]) /\ unhex(chars[o + 1]) = c \div 16
        /\ ishex(chars[o + 2]) /\ unhex(chars[o + 2]) = c % 16
    BY <1>3, <2>1, Digits
  <2>3. ReadAt(o) = unhex(chars[o + 1]) * 16 + unhex(chars[o + 2])
    BY <1>3 DEF ReadAt
  <2>4. ReadAt(o) = c
    BY <2>1, <2>2, <2>3
  <2>5. WellFormed(o)
    BY <1>3, <2>2 DEF WellFormed
  <2> QED
    BY <1>3, <2>4, <2>5 DEF Span
<1> QED
  BY <1>1, <1>2, <1>3 DEF Codes

LEMMA ReadByteTyped ==
  ASSUME chars \in Seq(0..255), NEW o \in 1..Len(chars), chars[o] = Percent => WellFormed(o)
  PROVE  ReadAt(o) \in 0..255
<1>1. chars[o] \in 0..255
  BY ElementOfSeq
<1>2. CASE chars[o] = Percent
  <2>1. unhex(chars[o + 1]) \in 0..15 /\ unhex(chars[o + 2]) \in 0..15
    BY <1>2, Unhexed DEF WellFormed
  <2>2. ReadAt(o) = unhex(chars[o + 1]) * 16 + unhex(chars[o + 2])
    BY <1>2 DEF ReadAt
  <2>3. \A d, e \in 0..15 : d * 16 + e \in 0..255
    OBVIOUS
  <2> QED
    BY <2>1, <2>2, <2>3
<1>3. CASE chars[o] # Percent
  BY <1>1, <1>3 DEF ReadAt, Space, Plus
<1> QED
  BY <1>2, <1>3

----------------------------------------------------------------------------
(* Places *)

LEMMA StepsRise ==
  ASSUME NEW m \in Nat, NEW pos, Steps(pos, m), NEW a \in 1..m + 1, NEW b \in 1..m + 1, a <= b
  PROVE  pos[a] \in Nat /\ pos[b] \in Nat /\ pos[a] >= 1 /\ pos[a] + (b - a) <= pos[b]
<1>1. pos \in [1..m + 1 -> Nat] /\ pos[1] = 1
  BY DEF Steps
<1>2. \A k \in 1..m : pos[k] < pos[k + 1]
  BY <1>1 DEF Steps, Size
<1>3. pos \in [1..m + 1 -> Int] /\ 1 \in 1..m + 1 /\ 1 <= a
  BY <1>1
<1>4. pos[a] + (b - a) <= pos[b]
  BY <1>2, <1>3, Rising
<1>5. pos[1] + (a - 1) <= pos[a]
  BY <1>2, <1>3, Rising
<1> QED
  BY <1>1, <1>4, <1>5

LEMMA WayRises ==
  ASSUME NEW m \in Nat, NEW pos, Way(pos, m), NEW a \in 1..m + 1, NEW b \in 1..m + 1, a <= b
  PROVE  pos[a] \in Nat /\ pos[b] \in Nat /\ pos[a] >= 1 /\ pos[a] + (b - a) <= pos[b]
<1>1. pos \in [1..m + 1 -> Nat] /\ pos[1] = 1
  BY DEF Way
<1>2. ASSUME NEW k \in 1..m PROVE pos[k] < pos[k + 1]
  <2>1. pos[k + 1] = pos[k] + Span(chars[pos[k]])
    BY DEF Way
  <2>2. pos[k] \in Nat /\ Span(chars[pos[k]]) \in {1, 3}
    BY <1>1 DEF Span
  <2> QED
    BY <2>1, <2>2
<1>3. pos \in [1..m + 1 -> Int] /\ 1 \in 1..m + 1 /\ 1 <= a
  BY <1>1
<1>4. pos[a] + (b - a) <= pos[b]
  BY <1>2, <1>3, Rising
<1>5. pos[1] + (a - 1) <= pos[a]
  BY <1>2, <1>3, Rising
<1> QED
  BY <1>1, <1>4, <1>5

LEMMA CodingRises ==
  ASSUME NEW pos, Coding(pos), source \in Seq(0..255),
         NEW a \in 1..Len(source) + 1, NEW b \in 1..Len(source) + 1, a <= b
  PROVE  pos[a] \in Nat /\ pos[b] \in Nat /\ pos[a] >= 1 /\ pos[a] + (b - a) <= pos[b]
<1>0. Len(source) \in Nat
  OBVIOUS
<1>1. pos \in [1..Len(source) + 1 -> Nat] /\ pos[1] = 1
  BY DEF Coding
<1>2. ASSUME NEW k \in 1..Len(source) PROVE pos[k] < pos[k + 1]
  <2>1. Codes(chars, pos[k], source[k], pos[k + 1])
    BY DEF Coding
  <2>2. pos[k] \in Nat
    BY <1>1
  <2> QED
    BY <2>1, <2>2 DEF Codes
<1>3. pos \in [1..Len(source) + 1 -> Int] /\ 1 \in 1..Len(source) + 1 /\ 1 <= a
  BY <1>0, <1>1
<1>4. pos[a] + (b - a) <= pos[b]
  BY <1>0, <1>2, <1>3, Rising
<1>5. pos[1] + (a - 1) <= pos[a]
  BY <1>0, <1>2, <1>3, Rising
<1> QED
  BY <1>1, <1>4, <1>5

\* The loops of urlUnescape go from one quoted byte to the next.
LEMMA WayIsCoding ==
  ASSUME source \in Seq(0..255), chars \in Seq(0..255), NEW full, Coding(full),
         NEW m \in Nat, NEW pos, Way(pos, m), NEW k \in 1..m + 1
  PROVE  k <= Len(source) + 1 /\ pos[k] = full[k]
<1> DEFINE n == Len(source)
           T == {x \in 0..m : x <= n /\ pos[x + 1] = full[x + 1]}
<1>1. n \in Nat /\ Len(chars) \in Nat
  OBVIOUS
<1>2. 0 \in T
  BY <1>1 DEF Way, Coding
<1>3. ASSUME NEW x \in 0..m - 1, x \in T PROVE x + 1 \in T
  <2>1. x + 1 \in 1..m /\ pos[x + 1] <= Len(chars) /\ pos[x + 1] = full[x + 1] /\ x <= n
    BY <1>3 DEF Way
  <2>2. x + 1 # n + 1
    BY <1>1, <2>1 DEF Coding
  <2>3. x + 1 \in 1..n /\ (x + 1) + 1 \in 1..n + 1
    BY <1>1, <2>1, <2>2
  <2>4. Codes(chars, full[x + 1], source[x + 1], full[(x + 1) + 1])
    BY <2>3 DEF Coding
  <2>5. full[x + 1] \in Nat /\ full[(x + 1) + 1] \in Nat /\ source[x + 1] \in 0..255
    <3>1. full \in [1..n + 1 -> Nat]
      BY DEF Coding
    <3>2. x + 1 \in 1..n + 1
      BY <1>1, <2>3
    <3> QED
      BY <2>3, <3>1, <3>2, ElementOfSeq
  <2>6. full[(x + 1) + 1] <= Len(chars) + 1
    <3>1. full[n + 1] = Len(chars) + 1
      BY DEF Coding
    <3>2. full[(x + 1) + 1] + ((n + 1) - ((x + 1) + 1)) <= full[n + 1]
      <4>1. n + 1 \in 1..n + 1 /\ (x + 1) + 1 <= n + 1
        BY <1>1, <2>3
      <4> QED
        BY <2>3, <4>1, CodingRises
    <3> QED
      BY <1>1, <2>3, <2>5, <3>1, <3>2
  <2>7. full[(x + 1) + 1] = full[x + 1] + Span(chars[full[x + 1]])
    BY <1>1, <2>4, <2>5, <2>6, CodesRead
  <2>8. pos[(x + 1) + 1] = pos[x + 1] + Span(chars[pos[x + 1]])
    BY <2>1 DEF Way
  <2> QED
    BY <1>3, <2>1, <2>3, <2>7, <2>8
<1> HIDE DEF T
<1>4. k - 1 \in T
  <2>1. k - 1 \in 0..m
    OBVIOUS
  <2> QED
    BY <1>2, <1>3, <2>1, InductTo
<1>5. k - 1 <= n /\ pos[(k - 1) + 1] = full[(k - 1) + 1] /\ (k - 1) + 1 = k
  BY <1>4 DEF T
<1> QED
  BY <1>1, <1>5

----------------------------------------------------------------------------
(* Steps *)

LEMMA PutStep ==
  ASSUME cells \in Seq(Int), filled \in Nat, NEW bytes \in Seq(Int), NEW k,
         filled + Len(bytes) <= Len(cells), Put(bytes, k)
  PROVE  /\ urlStage' = urlStage /\ at' = at + k /\ filled' = filled + Len(bytes)
         /\ UNCHANGED <<source, safe, plus, chars>>
         /\ cells' \in Seq(Int) /\ Len(cells') = Len(cells)
         /\ \A c \in 1..filled : cells'[c] = cells[c]
         /\ \A x \in 1..Len(bytes) : cells'[filled + x] = bytes[x]
<1> DEFINE b == Len(bytes)
           N == Len(cells)
<1>1. b \in Nat /\ N \in Nat /\ DOMAIN cells = 1..N /\ filled + b <= N
  OBVIOUS
<1>2. /\ urlStage' = urlStage /\ at' = at + k /\ filled' = filled + b
      /\ UNCHANGED <<source, safe, plus, chars>>
      /\ cells' = [c \in 1..N |-> IF c \in filled + 1..filled + b THEN bytes[c - filled] ELSE cells[c]]
  BY <1>1 DEF Put
<1>3. ASSUME NEW c \in 1..N, c \in filled + 1..filled + b PROVE bytes[c - filled] \in Int
  <2>1. c - filled \in 1..Len(bytes)
    BY <1>1, <1>3
  <2> QED
    BY <2>1, ElementOfSeq
<1>4. cells' \in [1..N -> Int]
  BY <1>1, <1>2, <1>3
<1>5. cells' \in Seq(Int) /\ Len(cells') = N
  BY <1>1, <1>4
<1>6. \A c \in 1..filled : cells'[c] = cells[c]
  BY <1>1, <1>2
<1>7. ASSUME NEW x \in 1..b PROVE cells'[filled + x] = bytes[x]
  <2>1. filled + x \in 1..N /\ filled + x \in filled + 1..filled + b /\ (filled + x) - filled = x
    BY <1>1
  <2> HIDE DEF b, N
  <2> QED
    BY <1>2, <2>1
<1> QED
  BY <1>2, <1>5, <1>6, <1>7

\* Checking starts.
LEMMA BeginCheck ==
  ASSUME NEW s \in Seq(0..255), Begin(s, 0, "check"), Faithful' => Encoded'
  PROVE  urlStage' = "check" /\ Checking'
<1>1. /\ chars' = s /\ at' = 0 /\ urlStage' = "check" /\ hexes' = 0 /\ marked' = FALSE
      /\ cells' = [c \in 1..0 |-> Unset]
  BY DEF Begin
<1> DEFINE pos == [x \in 1..0 + 1 |-> 1]
<1>2. pos \in [1..0 + 1 -> Nat] /\ pos[1] = 1 /\ pos[0 + 1] = 1
  OBVIOUS
<1> HIDE DEF pos
<1>3. Way(pos, 0)'
  BY <1>2 DEF Way
<1>4. at' + 1 = pos[0 + 1] /\ at' = 0 + (2 * hexes') /\ 0 \in Nat
      /\ \A x \in 1..0 : Same(chars[pos[x]])'
  BY <1>1, <1>2
<1>5. \E m \in Nat : \E p :
        /\ Way(p, m)' /\ at' + 1 = p[m + 1] /\ at' = m + (2 * hexes')
        /\ hexes' = 0 /\ ~ marked' => \A k \in 1..m : Same(chars[p[k]])'
  BY <1>3, <1>4
<1>6. chars' \in Seq(0..255) /\ at' \in Nat /\ at' <= Len(chars') /\ hexes' \in Nat
      /\ marked' \in BOOLEAN /\ DOMAIN cells' = {}
  <2>1. Len(s) \in Nat /\ 1..0 = {} /\ 0 \in Nat /\ 0 <= Len(s)
    OBVIOUS
  <2>2. marked' \in BOOLEAN
    BY <1>1
  <2> QED
    BY <1>1, <2>1, <2>2
<1> QED
  BY <1>1, <1>5, <1>6 DEF Checking

LEMMA CountByteStep ==
  ASSUME source \in Seq(0..255), Counting, CountByte
  PROVE  urlStage' = "count" /\ Counting' /\ UNCHANGED <<source, plus>>
<1> DEFINE c == char
           hex == Escapes(c) /\ ~ IsSpace(c)
           mark == Escapes(c) /\ IsSpace(c)
<1>1. /\ chars = source /\ at \in Nat /\ at < Len(source) /\ hexes \in Nat /\ marked \in BOOLEAN
      /\ Len(source) \in Nat /\ urlStage = "count"
      /\ hexes = 0 /\ ~ marked => \A k \in 1..at : ~ Escapes(source[k])
  BY DEF Counting, CountByte, AtByte
<1>2. PICK pos : Steps(pos, at) /\ pos[at + 1] = (at + (2 * hexes)) + 1
  BY DEF Counting
<1>3. /\ at' = at + 1 /\ hexes' = (IF hex THEN hexes + 1 ELSE hexes) /\ marked' = (marked \/ mark)
      /\ UNCHANGED <<source, safe, plus, urlStage, chars, cells, filled>>
  BY DEF CountByte, Counted
<1>4. c = source[at + 1]
  BY <1>1 DEF char
<1>0. PICK m : m = at + 1
  OBVIOUS
<1>00. PICK next : next = [k \in 1..m + 1 |-> IF k <= m THEN pos[k] ELSE pos[m] + Size(c)]
  OBVIOUS
<1>5. Size(c) = IF hex THEN 3 ELSE 1
  BY DEF Size
<1>6. pos \in [1..at + 1 -> Nat] /\ pos[1] = 1 /\ \A k \in 1..at : pos[k + 1] = pos[k] + Size(source[k])
  BY <1>2 DEF Steps
<1> HIDE DEF c
<1>7. next \in [1..m + 1 -> Nat] /\ next[1] = 1
  BY <1>0, <1>1, <1>00, <1>5, <1>6
<1>8. ASSUME NEW k \in 1..m PROVE next[k + 1] = next[k] + Size(source[k])
  <2>1. CASE k <= at
    <3>1. k \in 1..at /\ k + 1 <= m /\ k + 1 \in 1..m + 1 /\ k \in 1..m + 1 /\ k <= m
      BY <1>0, <1>1, <2>1
    <3> QED
      BY <1>6, <1>00, <3>1
  <2>2. CASE k = m
    <3>1. ~ (k + 1 <= m) /\ k + 1 \in 1..m + 1 /\ k \in 1..m + 1 /\ k <= m
      BY <1>0, <1>1, <2>2
    <3> QED
      BY <1>0, <1>4, <1>00, <2>2, <3>1
  <2> QED
    BY <1>0, <1>1, <2>1, <2>2
<1>9. next[m + 1] = (m + (2 * hexes')) + 1
  <2>1. next[m + 1] = pos[at + 1] + Size(c)
    BY <1>0, <1>00, <1>1
  <2> HIDE DEF hex
  <2> QED
    BY <1>0, <1>1, <1>2, <1>3, <1>5, <2>1
<1>10. \A d : Size(d)' = Size(d) /\ Escapes(d)' = Escapes(d)
  BY <1>3 DEF Size, Escapes, IsSpace, shouldEscapeCustom, shouldEscape
<1>11. Steps(next, m)'
  BY <1>3, <1>7, <1>8, <1>10 DEF Steps
<1>12. ASSUME hexes' = 0, ~ marked', NEW k \in 1..m PROVE ~ Escapes(source[k])
  <2>1. hexes = 0 /\ ~ marked /\ ~ hex /\ ~ mark
    <3>1. ~ marked /\ ~ mark
      BY <1>3, <1>12
    <3> HIDE DEF hex, mark
    <3>2. ~ hex /\ hexes = 0
      BY <1>1, <1>3, <1>12
    <3> QED
      BY <3>1, <3>2
  <2>2. ~ Escapes(source[at + 1])
    BY <1>4, <2>1
  <2>3. k \in 1..at \/ k = at + 1
    BY <1>0, <1>1
  <2> QED
    BY <1>0, <1>1, <2>1, <2>2, <2>3
<1>13. (\E p : Steps(p, at) /\ p[at + 1] = (at + (2 * hexes)) + 1)'
  BY <1>0, <1>3, <1>9, <1>11
<1>14. (hexes = 0 /\ ~ marked => \A k \in 1..at : ~ Escapes(source[k]))'
  BY <1>0, <1>3, <1>10, <1>12
<1>15. chars' = source' /\ at' \in Nat /\ at' <= Len(source') /\ hexes' \in Nat /\ marked' \in BOOLEAN
  <2>1. marked' \in BOOLEAN
    BY <1>1, <1>3
  <2> HIDE DEF hex, mark
  <2> QED
    BY <1>1, <1>3, <2>1
<1> QED
  BY <1>1, <1>3, <1>13, <1>14, <1>15 DEF Counting

LEMMA EndCountStep ==
  ASSUME source \in Seq(0..255), plus \in BOOLEAN, Counting, EndCount
  PROVE  /\ \/ urlStage' = "check" /\ Checking'
            \/ urlStage' = "write" /\ Writing'
         /\ UNCHANGED <<source, plus>>
<1> DEFINE n == Len(source)
<1>1. /\ chars = source /\ at = n /\ n \in Nat /\ hexes \in Nat /\ source \in Seq(0..255)
      /\ hexes = 0 /\ ~ marked => \A k \in 1..n : ~ Escapes(source[k])
  BY DEF Counting, EndCount, AtEnd
<1>2. UNCHANGED <<source, safe, plus>>
  BY DEF EndCount, Begin
<1>3. CASE hexes = 0 /\ ~ marked
  <2>1. Begin(chars, 0, "check") /\ chars' = chars
    BY <1>3 DEF EndCount, Begin
  <2>2. Faithful' => Encoded'
    <3> SUFFICES ASSUME Faithful PROVE Encoded'
      BY <1>2 DEF Faithful
    <3>1. PICK pos : pos = [k \in 1..n + 1 |-> k]
      OBVIOUS
    <3>2. ASSUME NEW k \in 1..n PROVE Codes(source, pos[k], source[k], pos[k + 1])
      <4>1. source[k] \in 0..255 /\ ~ Escapes(source[k])
        BY <1>1, <1>3, ElementOfSeq
      <4>2. Same(source[k])
        BY <4>1, RawSame
      <4>3. pos[k] = k /\ pos[k + 1] = k + 1
        BY <1>1, <3>1
      <4> QED
        BY <4>2, <4>3 DEF Codes, Same
    <3>3. pos \in [1..n + 1 -> Nat] /\ pos[1] = 1 /\ pos[n + 1] = n + 1
      BY <1>1, <3>1
    <3>4. Coding(pos)'
      BY <1>1, <1>2, <2>1, <3>2, <3>3 DEF Coding, Codes
    <3> QED
      BY <3>4 DEF Encoded
  <2>3. chars \in Seq(0..255)
    BY <1>1
  <2> QED
    BY <1>2, <2>1, <2>2, <2>3, BeginCheck
<1>4. CASE ~ (hexes = 0 /\ ~ marked)
  <2>1. Begin(chars, Len(chars) + 2 * hexes, "write")
    BY <1>4 DEF EndCount
  <2>2. PICK total \in Nat : total = n + (2 * hexes)
    BY <1>1
  <2>3. /\ chars' = chars /\ at' = 0 /\ filled' = 0 /\ urlStage' = "write"
        /\ cells' = [c \in 1..total |-> Unset]
    BY <1>1, <2>1, <2>2 DEF Begin
  <2>4. cells' \in Seq(Int) /\ Len(cells') = total
    BY <2>3 DEF Unset
  <2>5. PICK pos : Steps(pos, n) /\ pos[n + 1] = (n + (2 * hexes)) + 1
    BY <1>1 DEF Counting
  <2>6. \A d : Size(d)' = Size(d)
    BY <1>2 DEF Size, Escapes, IsSpace, shouldEscapeCustom, shouldEscape
  <2>7. Steps(pos, n)'
    BY <1>2, <2>5, <2>6 DEF Steps
  <2>8. pos[Len(source)' + 1] = Len(cells') + 1 /\ pos[1] = 1
    BY <1>2, <2>2, <2>4, <2>5 DEF Steps
  <2>9. Steps(pos, Len(source))'
    BY <2>7
  <2>10. /\ chars' = source' /\ at' \in Nat /\ at' <= Len(source') /\ filled' \in Nat
         /\ filled' + 1 = pos[at' + 1] /\ 1..filled' = {} /\ 1..at' = {}
    BY <1>1, <1>2, <2>3, <2>8
  <2>11. (\E p : /\ Steps(p, Len(source)) /\ p[Len(source) + 1] = Len(cells) + 1
                 /\ filled + 1 = p[at + 1]
                 /\ \A k \in 1..at : Cells(cells, p[k], source[k]))'
    BY <2>8, <2>9, <2>10
  <2> QED
    BY <1>2, <2>3, <2>4, <2>10, <2>11 DEF Writing
<1> QED
  BY <1>2, <1>3, <1>4

LEMMA CellsKept ==
  ASSUME NEW t, NEW u, NEW o \in Nat, NEW c, Cells(t, o, c), \A x \in o..(o + Size(c)) - 1 : u[x] = t[x]
  PROVE  Cells(u, o, c)
<1>1. CASE IsSpace(c) \/ ~ Escapes(c)
  <2>1. Size(c) = 1
    BY <1>1 DEF Size
  <2>2. u[o] = t[o]
    BY <2>1
  <2> QED
    BY <1>1, <2>2 DEF Cells
<1>2. CASE ~ IsSpace(c) /\ Escapes(c)
  <2>1. Size(c) = 3
    BY <1>2 DEF Size
  <2>2. u[o] = t[o] /\ u[o + 1] = t[o + 1] /\ u[o + 2] = t[o + 2]
    BY <2>1
  <2> QED
    BY <1>2, <2>2 DEF Cells
<1> QED
  BY <1>1, <1>2

\* What WriteByte puts.
LEMMA PutBytes ==
  ASSUME source \in Seq(0..255), WriteByte, chars = source, at \in Nat
  PROVE  \E bytes \in Seq(0..255) :
           /\ Put(bytes, 1) /\ Len(bytes) = Size(char)
           /\ \A t, o : (\A x \in 1..Len(bytes) : t[o + x] = bytes[x]) /\ o \in Nat
                          => Cells(t, o + 1, char)
<1> DEFINE c == char
<1>1. c \in 0..255
  <2>1. at + 1 \in 1..Len(source)
    BY DEF WriteByte, AtByte
  <2> QED
    BY <2>1, ElementOfSeq DEF char
<1> HIDE DEF c
<1>2. CASE IsSpace(c)
  <2>1. Put(<<Plus>>, 1) /\ <<Plus>> \in Seq(0..255) /\ Len(<<Plus>>) = 1 /\ Size(c) = 1
    BY <1>2 DEF c, WriteByte, Size, Plus
  <2>2. ASSUME NEW t, NEW o \in Nat, \A x \in 1..1 : t[o + x] = <<Plus>>[x] PROVE Cells(t, o + 1, c)
    BY <1>2, <2>2 DEF Cells
  <2> QED
    BY <2>1, <2>2 DEF c
<1>3. CASE ~ IsSpace(c) /\ Escapes(c)
  <2>1. Put(Hex(c), 1) /\ Len(Hex(c)) = 3 /\ Size(c) = 3
    BY <1>3 DEF c, WriteByte, Size, Hex
  <2>2. Hex(c) \in Seq(0..255)
    <3>1. c \div 16 \in 0..15 /\ c % 16 \in 0..15
      BY <1>1, Halves
    <3>2. HexDigit(c \div 16) \in 0..255 /\ HexDigit(c % 16) \in 0..255
      BY <3>1, Digits
    <3> QED
      BY <3>2 DEF Hex, Percent
  <2>3. ASSUME NEW t, NEW o \in Nat, \A x \in 1..3 : t[o + x] = Hex(c)[x] PROVE Cells(t, o + 1, c)
    <3>1. /\ t[o + 1] = Percent /\ t[o + 2] = HexDigit(c \div 16) /\ t[o + 3] = HexDigit(c % 16)
      BY <2>3 DEF Hex
    <3>2. o + 2 = (o + 1) + 1 /\ o + 3 = (o + 1) + 2
      OBVIOUS
    <3> QED
      BY <1>3, <3>1, <3>2 DEF Cells
  <2> QED
    BY <2>1, <2>2, <2>3 DEF c
<1>4. CASE ~ IsSpace(c) /\ ~ Escapes(c)
  <2>1. Put(<<c>>, 1) /\ <<c>> \in Seq(0..255) /\ Len(<<c>>) = 1 /\ Size(c) = 1
    BY <1>1, <1>4 DEF c, WriteByte, Size
  <2>2. ASSUME NEW t, NEW o \in Nat, \A x \in 1..1 : t[o + x] = <<c>>[x] PROVE Cells(t, o + 1, c)
    BY <1>4, <2>2 DEF Cells
  <2> QED
    BY <2>1, <2>2 DEF c
<1> QED
  BY <1>2, <1>3, <1>4

LEMMA WriteByteStep ==
  ASSUME source \in Seq(0..255), Writing, WriteByte
  PROVE  urlStage' = "write" /\ Writing' /\ UNCHANGED <<source, plus>>
<1> DEFINE n == Len(source)
<1>1. /\ chars = source /\ at \in Nat /\ at < n /\ n \in Nat /\ cells \in Seq(Int) /\ filled \in Nat
      /\ \A c \in 1..filled : cells[c] \in 0..255
      /\ urlStage = "write" /\ char = source[at + 1] /\ Len(cells) \in Nat
  BY DEF Writing, WriteByte, AtByte, char
<1>2. PICK pos : /\ Steps(pos, n) /\ pos[n + 1] = Len(cells) + 1 /\ filled + 1 = pos[at + 1]
                 /\ \A k \in 1..at : Cells(cells, pos[k], source[k])
  BY DEF Writing
<1>3. PICK bytes \in Seq(0..255) :
        /\ Put(bytes, 1) /\ Len(bytes) = Size(char)
        /\ \A t, o : (\A x \in 1..Len(bytes) : t[o + x] = bytes[x]) /\ o \in Nat
                       => Cells(t, o + 1, char)
  BY <1>1, PutBytes
<1>4. pos[at + 2] = pos[at + 1] + Len(bytes) /\ Len(bytes) \in Nat
  <2>1. at + 1 \in 1..n /\ (at + 1) + 1 = at + 2
    BY <1>1
  <2> QED
    BY <1>1, <1>2, <1>3, <2>1 DEF Steps
<1>5. filled + Len(bytes) <= Len(cells)
  <2>1. at + 2 \in 1..n + 1 /\ n + 1 \in 1..n + 1 /\ at + 2 <= n + 1
    BY <1>1
  <2>2. pos[at + 2] + ((n + 1) - (at + 2)) <= pos[n + 1] /\ pos[at + 2] \in Nat
    BY <1>1, <1>2, <2>1, StepsRise
  <2> QED
    BY <1>1, <1>2, <1>4, <2>1, <2>2
<1>6. /\ urlStage' = urlStage /\ at' = at + 1 /\ filled' = filled + Len(bytes)
      /\ UNCHANGED <<source, safe, plus, chars>>
      /\ cells' \in Seq(Int) /\ Len(cells') = Len(cells)
      /\ \A c \in 1..filled : cells'[c] = cells[c]
      /\ \A x \in 1..Len(bytes) : cells'[filled + x] = bytes[x]
  <2>1. bytes \in Seq(Int)
    <3>1. ASSUME NEW x \in 1..Len(bytes) PROVE bytes[x] \in Int
      <4>1. bytes[x] \in 0..255
        BY ElementOfSeq
      <4>2. 0..255 \subseteq Int
        OBVIOUS
      <4> QED
        BY <4>1, <4>2
    <3> QED
      BY <3>1, SeqTyped
  <2> QED
    BY <1>1, <1>3, <1>5, <2>1, PutStep
<1>7. \A c : Size(c)' = Size(c)
  BY <1>6 DEF Size, Escapes, IsSpace, shouldEscapeCustom, shouldEscape
<1>8. Steps(pos, n)'
  BY <1>2, <1>6, <1>7 DEF Steps
<1>9. ASSUME NEW k \in 1..at + 1 PROVE Cells(cells', pos[k], source[k])
  <2>1. CASE k = at + 1
    BY <1>1, <1>2, <1>3, <1>6, <2>1
  <2>2. CASE k \in 1..at
    <3>1. k \in 1..n /\ k + 1 \in 1..n + 1 /\ at + 1 \in 1..n + 1 /\ k + 1 <= at + 1 /\ k \in 1..n + 1
      BY <1>1, <2>2
    <3>2. pos[k + 1] + ((at + 1) - (k + 1)) <= pos[at + 1] /\ pos[k + 1] \in Nat
      BY <1>1, <1>2, <3>1, StepsRise
    <3>3. pos[k] \in Nat /\ pos[k] >= 1
      <4>1. k <= at + 1
        BY <2>2
      <4> QED
        BY <1>1, <1>2, <3>1, <4>1, StepsRise
    <3>4. pos[k + 1] = pos[k] + Size(source[k])
      BY <1>2, <3>1 DEF Steps
    <3>5. pos[k + 1] <= filled + 1
      BY <1>1, <1>2, <3>1, <3>2
    <3>6. \A x \in pos[k]..(pos[k] + Size(source[k])) - 1 : cells'[x] = cells[x]
      <4>1. Size(source[k]) \in Nat
        BY DEF Size
      <4>2. \A x \in pos[k]..(pos[k] + Size(source[k])) - 1 : x \in 1..filled
        BY <1>1, <3>3, <3>4, <3>5, <4>1
      <4> QED
        BY <1>6, <4>2
    <3> QED
      BY <1>2, <2>2, <3>3, <3>6, CellsKept
  <2> QED
    BY <1>1, <2>1, <2>2
<1>10. \A c \in 1..filled' : cells'[c] \in 0..255
  <2> TAKE c \in 1..filled'
  <2>1. CASE c <= filled
    <3>1. c \in 1..filled
      BY <1>1, <1>4, <1>6, <2>1
    <3> QED
      BY <1>1, <1>6, <3>1
  <2>2. CASE ~ (c <= filled)
    <3>1. c - filled \in 1..Len(bytes) /\ filled + (c - filled) = c
      BY <1>1, <1>4, <1>6, <2>2
    <3>2. bytes[c - filled] \in 0..255
      BY <3>1, ElementOfSeq
    <3>3. cells'[filled + (c - filled)] = bytes[c - filled]
      BY <1>6, <3>1
    <3> QED
      BY <3>1, <3>2, <3>3
  <2> QED
    BY <2>1, <2>2
<1>11. filled' + 1 = pos[at' + 1] /\ filled' \in Nat /\ at' \in Nat /\ at' <= n
  <2>1. at' + 1 = at + 2
    BY <1>1, <1>6
  <2>2. filled' + 1 = (filled + 1) + Len(bytes)
    BY <1>1, <1>4, <1>6
  <2> QED
    BY <1>1, <1>2, <1>4, <1>6, <2>1, <2>2
<1>12. (\E p : /\ Steps(p, Len(source)) /\ p[Len(source) + 1] = Len(cells) + 1
               /\ filled + 1 = p[at + 1]
               /\ \A k \in 1..at : Cells(cells, p[k], source[k]))'
  <2>1. (\A k \in 1..at : Cells(cells, pos[k], source[k]))'
    <3>1. at' = at + 1 /\ source' = source
      BY <1>6
    <3>2. \A c : (Size(c)' = Size(c)) /\ (Escapes(c)' <=> Escapes(c)) /\ (IsSpace(c)' <=> IsSpace(c))
      BY <1>6 DEF Size, Escapes, IsSpace, shouldEscapeCustom, shouldEscape
    <3> QED
      BY <1>9, <3>1, <3>2 DEF Cells
  <2>2. Steps(pos, Len(source))' /\ pos[Len(source') + 1] = Len(cells') + 1
    BY <1>2, <1>6, <1>8
  <2> QED
    BY <1>11, <2>1, <2>2
<1> QED
  BY <1>1, <1>6, <1>10, <1>11, <1>12 DEF Writing

LEMMA EndWriteStep ==
  ASSUME source \in Seq(0..255), Writing, EndWrite
  PROVE  urlStage' = "check" /\ Checking' /\ UNCHANGED <<source, plus>>
<1> DEFINE n == Len(source)
<1>1. /\ chars = source /\ at = n /\ n \in Nat /\ cells \in Seq(Int) /\ filled \in Nat
      /\ \A c \in 1..filled : cells[c] \in 0..255
      /\ Begin(cells, 0, "check") /\ UNCHANGED <<source, safe, plus>> /\ chars' = cells
  BY DEF Writing, EndWrite, AtEnd, Begin
<1>2. PICK pos : /\ Steps(pos, n) /\ pos[n + 1] = Len(cells) + 1 /\ filled + 1 = pos[at + 1]
                 /\ \A k \in 1..at : Cells(cells, pos[k], source[k])
  BY DEF Writing
<1>3. filled = Len(cells)
  BY <1>1, <1>2
<1>4. cells \in Seq(0..255)
  BY <1>1, <1>3, SeqTyped
<1>5. ASSUME Faithful' PROVE Encoded'
  <2>1. Faithful
    BY <1>1, <1>5 DEF Faithful
  <2>2. ASSUME NEW k \in 1..n PROVE Codes(cells, pos[k], source[k], pos[k + 1])
    <3>1. source[k] \in 0..255 /\ Cells(cells, pos[k], source[k])
      BY <1>1, <1>2, ElementOfSeq
    <3>2. pos[k + 1] = pos[k] + Size(source[k])
      BY <1>2 DEF Steps
    <3> QED
      BY <2>1, <3>1, <3>2, CellsCode
  <2>3. pos \in [1..n + 1 -> Nat] /\ pos[1] = 1
    BY <1>2 DEF Steps
  <2>4. Coding(pos)'
    BY <1>1, <1>2, <2>2, <2>3 DEF Coding, Codes
  <2> QED
    BY <2>4 DEF Encoded
<1> QED
  BY <1>1, <1>4, <1>5, BeginCheck

\* One turn more.
LEMMA WayMore ==
  ASSUME chars \in Seq(0..255), NEW m \in Nat, NEW pos, Way(pos, m), pos[m + 1] <= Len(chars),
         chars[pos[m + 1]] = Percent => WellFormed(pos[m + 1])
  PROVE  \E next : /\ Way(next, m + 1) /\ next[m + 2] = pos[m + 1] + Span(chars[pos[m + 1]])
                   /\ \A k \in 1..m + 1 : next[k] = pos[k]
<1> DEFINE e == pos[m + 1] + Span(chars[pos[m + 1]])
<1>1. PICK next : next = [k \in 1..(m + 1) + 1 |-> IF k <= m + 1 THEN pos[k] ELSE e]
  OBVIOUS
<1>2. /\ pos \in [1..m + 1 -> Nat] /\ pos[1] = 1
      /\ \A k \in 1..m : /\ pos[k] <= Len(chars) /\ pos[k + 1] = pos[k] + Span(chars[pos[k]])
                         /\ chars[pos[k]] = Percent => WellFormed(pos[k])
  BY DEF Way
<1>3. e \in Nat
  BY <1>2 DEF Span
<1>4. next[m + 2] = e
  <2> HIDE DEF e
  <2> QED
    BY <1>1
<1>5. \A k \in 1..m + 1 : next[k] = pos[k]
  BY <1>1
<1>6. next \in [1..(m + 1) + 1 -> Nat]
  <2> HIDE DEF e
  <2> QED
    BY <1>1, <1>2, <1>3
<1>7. ASSUME NEW k \in 1..m + 1
      PROVE  /\ next[k] <= Len(chars) /\ next[k + 1] = next[k] + Span(chars[next[k]])
             /\ chars[next[k]] = Percent => WellFormed(next[k])
  <2>1. CASE k = m + 1
    BY <1>4, <1>5, <2>1
  <2>2. CASE k \in 1..m
    <3>1. k + 1 \in 1..m + 1
      BY <2>2
    <3> QED
      BY <1>2, <1>5, <2>2, <3>1
  <2> QED
    BY <2>1, <2>2
<1>8. Way(next, m + 1)
  BY <1>1, <1>2, <1>6, <1>7 DEF Way
<1> QED
  BY <1>4, <1>5, <1>8

\* The byte of the source that the turn of a loop of urlUnescape is at.
LEMMA CodeAt ==
  ASSUME source \in Seq(0..255), chars \in Seq(0..255), NEW full, Coding(full),
         NEW m \in Nat, NEW pos, Way(pos, m), NEW k \in 1..m + 1, pos[k] <= Len(chars)
  PROVE  /\ k \in 1..Len(source) /\ pos[k] \in Nat
         /\ \E e \in Nat : e <= Len(chars) + 1 /\ Codes(chars, pos[k], source[k], e)
<1> DEFINE n == Len(source)
<1>1. n \in Nat /\ Len(chars) \in Nat
  OBVIOUS
<1>2. k <= n + 1 /\ pos[k] = full[k]
  BY WayIsCoding
<1>3. full \in [1..n + 1 -> Nat] /\ full[n + 1] = Len(chars) + 1
  BY DEF Coding
<1>4. k \in 1..n
  BY <1>1, <1>2, <1>3
<1>5. Codes(chars, full[k], source[k], full[k + 1])
  BY <1>4 DEF Coding
<1>6. full[k + 1] \in Nat /\ full[k + 1] + ((n + 1) - (k + 1)) <= full[n + 1]
  <2>1. k + 1 \in 1..n + 1 /\ n + 1 \in 1..n + 1 /\ k + 1 <= n + 1
    BY <1>1, <1>4
  <2> QED
    BY <2>1, CodingRises
<1>7. full[k + 1] <= Len(chars) + 1
  BY <1>1, <1>3, <1>4, <1>6
<1>8. pos[k] \in Nat
  BY DEF Way
<1> QED
  BY <1>2, <1>4, <1>5, <1>6, <1>7, <1>8

LEMMA CheckByteStep ==
  ASSUME source \in Seq(0..255), plus \in BOOLEAN, Checking, CheckByte
  PROVE  /\ \/ urlStage' = "check" /\ Checking'
            \/ urlStage' = "bad" /\ ~ Faithful'
         /\ UNCHANGED <<source, plus>>
<1>1. /\ chars \in Seq(0..255) /\ at \in Nat /\ at < Len(chars) /\ hexes \in Nat /\ marked \in BOOLEAN
      /\ DOMAIN cells = {} /\ urlStage = "check" /\ Len(chars) \in Nat /\ char = chars[at + 1]
  BY DEF Checking, CheckByte, AtByte, char
<1>20. PICK m \in Nat :
         \E pos : /\ Way(pos, m) /\ at + 1 = pos[m + 1] /\ at = m + (2 * hexes)
                  /\ hexes = 0 /\ ~ marked => \A k \in 1..m : Same(chars[pos[k]])
  BY DEF Checking
<1>2. PICK pos :
        /\ Way(pos, m) /\ at + 1 = pos[m + 1] /\ at = m + (2 * hexes)
        /\ hexes = 0 /\ ~ marked => \A k \in 1..m : Same(chars[pos[k]])
  BY <1>20
<1>3. UNCHANGED <<source, safe, plus>>
  BY DEF CheckByte, Begin, Counted
<1>4. CASE char = Percent /\ ~ WellFormed(at + 1)
  <2>1. urlStage' = "bad"
    BY <1>4 DEF CheckByte, Begin
  <2>2. ASSUME Faithful PROVE FALSE
    <3>1. PICK full : Coding(full)
      BY <2>2 DEF Checking, Encoded
    <3>2. pos[m + 1] <= Len(chars)
      BY <1>1, <1>2
    <3>20. m + 1 \in 1..m + 1
      OBVIOUS
    <3>3. m + 1 \in 1..Len(source) /\ pos[m + 1] \in Nat
      BY <1>1, <1>2, <3>1, <3>2, <3>20, CodeAt
    <3>4. PICK e \in Nat : e <= Len(chars) + 1 /\ Codes(chars, pos[m + 1], source[m + 1], e)
      BY <1>1, <1>2, <3>1, <3>2, <3>20, CodeAt
    <3>5. source[m + 1] \in 0..255
      BY <3>3, ElementOfSeq
    <3>6. chars[pos[m + 1]] = Percent => WellFormed(pos[m + 1])
      BY <1>1, <3>3, <3>4, <3>5, CodesRead
    <3> QED
      BY <1>1, <1>2, <1>4, <3>6
  <2>3. ~ Faithful'
    BY <1>3, <2>2 DEF Faithful
  <2> QED
    BY <1>3, <2>1, <2>3
<1>5. CASE ~ (char = Percent /\ ~ WellFormed(at + 1))
  <2> DEFINE hex == char = Percent
             mark == char = Plus /\ plus
  <2>1. Counted(Span(char), hex, mark)
    <3>1. Percent # Plus
      BY DEF Percent, Plus
    <3>2. CASE hex
      <4>1. mark = FALSE /\ hex = TRUE /\ Span(char) = 3
        BY <3>1, <3>2 DEF Span
      <4> QED
        BY <1>5, <3>1, <3>2, <4>1 DEF CheckByte
    <3>3. CASE ~ hex
      <4>1. hex = FALSE /\ Span(char) = 1
        BY <3>3 DEF Span
      <4> QED
        BY <3>3, <4>1 DEF CheckByte
    <3> QED
      BY <3>2, <3>3
  <2>2. /\ at' = at + Span(char) /\ hexes' = (IF hex THEN hexes + 1 ELSE hexes)
        /\ marked' = (marked \/ mark)
        /\ UNCHANGED <<source, safe, plus, urlStage, chars, cells, filled>>
    BY <2>1 DEF Counted
  <2>3. PICK next : /\ Way(next, m + 1) /\ next[m + 2] = pos[m + 1] + Span(chars[pos[m + 1]])
                    /\ \A k \in 1..m + 1 : next[k] = pos[k]
    <3>1. pos[m + 1] <= Len(chars) /\ (chars[pos[m + 1]] = Percent => WellFormed(pos[m + 1]))
      BY <1>1, <1>2, <1>5
    <3> QED
      BY <1>1, <1>2, <3>1, WayMore
  <2>4. next[m + 2] = at' + 1 /\ at' \in Nat
    <3>1. Span(char) \in {1, 3}
      BY DEF Span
    <3>2. chars[pos[m + 1]] = char
      BY <1>1, <1>2
    <3>3. next[m + 2] = (at + 1) + Span(char) /\ at' = at + Span(char)
      BY <1>2, <2>2, <2>3, <3>2
    <3> QED
      BY <1>1, <3>1, <3>3
  <2>5. Way(next, m + 1)'
    BY <2>2, <2>3 DEF Way, WellFormed
  <2>6. at' = (m + 1) + (2 * hexes') /\ hexes' \in Nat
    BY <1>1, <1>2, <2>2 DEF Span
  <2>7. ASSUME hexes' = 0, ~ marked', NEW k \in 1..m + 1 PROVE Same(chars[next[k]])
    <3>1. ~ marked /\ ~ mark
      BY <2>2, <2>7
    <3>2. ~ hex /\ hexes = 0
      <4> HIDE DEF hex, mark
      <4> QED
        BY <1>1, <2>2, <2>7
    <3>3. CASE k \in 1..m
      <4>1. next[k] = pos[k]
        BY <2>3
      <4> QED
        BY <1>2, <3>1, <3>2, <3>3, <4>1
    <3>4. CASE k = m + 1
      <4>1. next[k] = at + 1
        BY <1>2, <2>3, <3>4
      <4> QED
        BY <1>1, <3>1, <3>2, <4>1 DEF Same
    <3> QED
      BY <3>3, <3>4
  <2>8. at' <= Len(chars)
    <3>1. m + 1 \in Nat /\ m + 2 = (m + 1) + 1
      OBVIOUS
    <3>2. CASE hex
      <4>1. WellFormed(at + 1) /\ Span(char) = 3
        BY <1>5, <3>2 DEF Span
      <4> QED
        BY <1>1, <2>2, <4>1 DEF WellFormed
    <3>3. CASE ~ hex
      <4>1. Span(char) = 1
        BY <3>3 DEF Span
      <4> QED
        BY <1>1, <2>2, <4>1
    <3> QED
      BY <3>2, <3>3
  <2>9. (\E l \in Nat : \E p :
           /\ Way(p, l) /\ at + 1 = p[l + 1] /\ at = l + (2 * hexes)
           /\ hexes = 0 /\ ~ marked => \A k \in 1..l : Same(chars[p[k]]))'
    <3>1. m + 1 \in Nat /\ m + 2 = (m + 1) + 1
      OBVIOUS
    <3>2. (hexes = 0 /\ ~ marked => \A k \in 1..m + 1 : Same(chars[next[k]]))'
      BY <2>2, <2>7 DEF Same
    <3>3. at' + 1 = next[(m + 1) + 1]
      BY <2>4, <3>1
    <3> QED
      BY <2>5, <2>6, <3>1, <3>2, <3>3
  <2>10. marked' \in BOOLEAN
    BY <1>1, <2>2
  <2>11. Faithful' => Encoded'
    BY <2>2 DEF Faithful, Encoded, Coding, Codes, Checking
  <2>12. /\ chars' \in Seq(0..255) /\ at' <= Len(chars') /\ DOMAIN cells' = {} /\ urlStage' = "check"
    BY <1>1, <2>2, <2>8
  <2> QED
    BY <1>3, <2>4, <2>6, <2>9, <2>10, <2>11, <2>12 DEF Checking
<1> QED
  BY <1>4, <1>5

\* Where all of the text is behind, all of the source is.
LEMMA AllCoded ==
  ASSUME source \in Seq(0..255), chars \in Seq(0..255), NEW full, Coding(full),
         NEW m \in Nat, NEW pos, Way(pos, m), pos[m + 1] = Len(chars) + 1
  PROVE  m = Len(source)
<1> DEFINE n == Len(source)
<1>1. n \in Nat /\ m + 1 \in 1..m + 1
  OBVIOUS
<1>2. m + 1 <= n + 1 /\ pos[m + 1] = full[m + 1]
  BY <1>1, WayIsCoding
<1>3. m + 1 \in 1..n + 1 /\ n + 1 \in 1..n + 1
  BY <1>1, <1>2
<1>4. full[m + 1] \in Nat /\ full[m + 1] + ((n + 1) - (m + 1)) <= full[n + 1]
  BY <1>2, <1>3, CodingRises
<1>5. full[n + 1] = full[m + 1]
  BY <1>2 DEF Coding
<1> QED
  BY <1>1, <1>2, <1>4, <1>5

LEMMA EndCheckStep ==
  ASSUME source \in Seq(0..255), Checking, EndCheck
  PROVE  /\ \/ /\ urlStage' = "ok" /\ cells' \in Seq(0..255) /\ chars' \in Seq(0..255)
               /\ Faithful' => cells' = source'
            \/ urlStage' = "read" /\ Unquoting'
         /\ UNCHANGED <<source, plus>>
<1>1. /\ chars \in Seq(0..255) /\ at = Len(chars) /\ hexes \in Nat /\ Len(chars) \in Nat
      /\ Faithful => Encoded
  BY DEF Checking, EndCheck, AtEnd
<1>20. PICK m \in Nat :
         \E pos : /\ Way(pos, m) /\ at + 1 = pos[m + 1] /\ at = m + (2 * hexes)
                  /\ hexes = 0 /\ ~ marked => \A k \in 1..m : Same(chars[pos[k]])
  BY DEF Checking
<1>2. PICK pos : /\ Way(pos, m) /\ at + 1 = pos[m + 1] /\ at = m + (2 * hexes)
                 /\ hexes = 0 /\ ~ marked => \A k \in 1..m : Same(chars[pos[k]])
  BY <1>20
<1>3. UNCHANGED <<source, safe, plus, chars>>
  BY DEF EndCheck, Begin
<1>4. CASE hexes = 0 /\ ~ marked
  <2>1. cells' = chars /\ urlStage' = "ok"
    BY <1>4 DEF EndCheck
  <2>2. ASSUME Faithful PROVE chars = source
    <3>1. PICK full : Coding(full)
      BY <1>1, <2>2 DEF Encoded
    <3>2. m = Len(source) /\ m = Len(chars)
      BY <1>1, <1>2, <1>4, <3>1, AllCoded
    <3>3. ASSUME NEW k \in 1..m PROVE chars[k] = source[k]
      <4>1. k \in 1..m + 1 /\ 1 \in 1..m + 1 /\ m + 1 \in 1..m + 1 /\ 1 <= k /\ k <= m + 1
        OBVIOUS
      <4>2. pos[1] + (k - 1) <= pos[k] /\ pos[k] \in Nat
        BY <1>2, <4>1, WayRises
      <4>3. pos[k] + ((m + 1) - k) <= pos[m + 1]
        BY <1>2, <4>1, WayRises
      <4>4. pos[1] = 1 /\ pos[m + 1] = m + 1
        BY <1>1, <1>2, <3>2 DEF Way
      <4>5. pos[k] = k
        BY <4>2, <4>3, <4>4
      <4>6. pos[k] <= Len(chars)
        BY <3>2, <4>5
      <4>7. PICK e \in Nat : Codes(chars, pos[k], source[k], e)
        BY <1>1, <1>2, <3>1, <4>1, <4>6, CodeAt
      <4>8. Same(chars[k])
        BY <1>2, <1>4, <4>5
      <4> QED
        BY <4>5, <4>7, <4>8 DEF Codes, Same
    <3>4. /\ Len(chars) = Len(source) /\ chars \in Seq(0..255) /\ source \in Seq(0..255)
          /\ \A k \in 1..Len(chars) : chars[k] = source[k]
      BY <1>1, <3>2, <3>3
    <3> QED
      BY <3>4, SeqEqual
  <2>3. Faithful' => cells' = source'
    BY <1>3, <2>1, <2>2 DEF Faithful
  <2> QED
    BY <1>1, <1>3, <2>1, <2>3
<1>5. CASE ~ (hexes = 0 /\ ~ marked)
  <2>1. Begin(chars, Len(chars) - 2 * hexes, "read")
    BY <1>5 DEF EndCheck
  <2>2. Len(chars) - 2 * hexes = m
    BY <1>1, <1>2
  <2>3. /\ at' = 0 /\ filled' = 0 /\ urlStage' = "read" /\ cells' = [c \in 1..m |-> Unset]
    BY <2>1, <2>2 DEF Begin
  <2>4. cells' \in Seq(Int) /\ Len(cells') = m
    BY <2>3 DEF Unset
  <2>5. Way(pos, m)'
    BY <1>2, <1>3 DEF Way, WellFormed
  <2>6. pos[1] = 1 /\ pos[m + 1] = Len(chars) + 1
    BY <1>1, <1>2 DEF Way
  <2>7. (\E p : /\ Way(p, Len(cells)) /\ p[Len(cells) + 1] = Len(chars) + 1 /\ at + 1 = p[filled + 1])'
    <3>1. Way(pos, Len(cells))'
      BY <2>4, <2>5
    <3>2. pos[Len(cells') + 1] = Len(chars') + 1 /\ at' + 1 = pos[filled' + 1]
      BY <1>3, <2>3, <2>4, <2>6
    <3> QED
      BY <3>1, <3>2
  <2>8. Faithful' => Encoded'
    BY <1>1, <1>3 DEF Faithful, Encoded, Coding, Codes
  <2>9. at' \in Nat /\ filled' \in Nat /\ filled' <= Len(cells') /\ 1..filled' = {} /\ chars' \in Seq(0..255)
    BY <1>1, <1>3, <2>3, <2>4
  <2> QED
    BY <1>3, <2>3, <2>4, <2>7, <2>8, <2>9 DEF Unquoting
<1> QED
  BY <1>4, <1>5

LEMMA ReadByteStep ==
  ASSUME source \in Seq(0..255), Unquoting, ReadByte
  PROVE  urlStage' = "read" /\ Unquoting' /\ UNCHANGED <<source, plus>>
<1> DEFINE M == Len(cells)
           byte == ReadAt(at + 1)
<1>1. /\ chars \in Seq(0..255) /\ at \in Nat /\ at < Len(chars) /\ filled \in Nat /\ cells \in Seq(Int)
      /\ filled <= M /\ M \in Nat /\ Len(chars) \in Nat /\ char = chars[at + 1] /\ urlStage = "read"
      /\ \A c \in 1..filled : cells[c] \in 0..255
      /\ Faithful => Encoded /\ \A c \in 1..filled : cells[c] = source[c]
  BY DEF Unquoting, ReadByte, AtByte, char
<1>2. PICK pos : Way(pos, M) /\ pos[M + 1] = Len(chars) + 1 /\ at + 1 = pos[filled + 1]
  BY DEF Unquoting
<1>3. filled + 1 \in 1..M
  <2>1. CASE filled = M
    <3>1. at + 1 = Len(chars) + 1
      BY <1>2, <2>1
    <3> QED
      BY <1>1, <3>1
  <2>2. CASE filled # M
    BY <1>1, <2>2
  <2> QED
    BY <2>1, <2>2
<1>4. /\ pos[(filled + 1) + 1] = (at + 1) + Span(char)
      /\ char = Percent => WellFormed(at + 1)
  BY <1>1, <1>2, <1>3 DEF Way
<1>5. Put(<<byte>>, Span(char))
  <2>1. (at + 1) + 1 = at + 2 /\ (at + 1) + 2 = at + 3
    BY <1>1
  <2>2. CASE char = Percent
    <3>1. byte = unhex(chars[at + 2]) * 16 + unhex(chars[at + 3]) /\ Span(char) = 3 /\ Percent # Plus
      BY <1>1, <2>1, <2>2 DEF ReadAt, Span, Percent, Plus
    <3> QED
      BY <2>2, <3>1 DEF ReadByte
  <2>3. CASE char = Plus
    <3>1. byte = (IF plus THEN Space ELSE Plus) /\ Span(char) = 1 /\ Percent # Plus
      BY <1>1, <2>3 DEF ReadAt, Span, Percent, Plus
    <3> QED
      BY <2>3, <3>1 DEF ReadByte
  <2>4. CASE char \notin {Percent, Plus}
    <3>1. byte = char /\ Span(char) = 1
      BY <1>1, <2>4 DEF ReadAt, Span
    <3> QED
      BY <2>4, <3>1 DEF ReadByte
  <2> QED
    BY <2>2, <2>3, <2>4
<1>6. byte \in 0..255
  <2>1. at + 1 \in 1..Len(chars)
    BY <1>1
  <2> QED
    BY <1>1, <1>4, <2>1, ReadByteTyped
<1> HIDE DEF byte
<1>7. /\ urlStage' = urlStage /\ at' = at + Span(char) /\ filled' = filled + 1
      /\ UNCHANGED <<source, safe, plus, chars>>
      /\ cells' \in Seq(Int) /\ Len(cells') = M
      /\ \A c \in 1..filled : cells'[c] = cells[c]
      /\ cells'[filled + 1] = byte
  <2>1. <<byte>> \in Seq(Int) /\ Len(<<byte>>) = 1 /\ <<byte>>[1] = byte
    BY <1>6
  <2>2. filled + Len(<<byte>>) <= M
    BY <1>1, <1>3, <2>1
  <2>3. /\ urlStage' = urlStage /\ at' = at + Span(char) /\ filled' = filled + Len(<<byte>>)
        /\ UNCHANGED <<source, safe, plus, chars>>
        /\ cells' \in Seq(Int) /\ Len(cells') = M
        /\ \A c \in 1..filled : cells'[c] = cells[c]
        /\ \A x \in 1..Len(<<byte>>) : cells'[filled + x] = <<byte>>[x]
    BY <1>1, <1>5, <2>1, <2>2, PutStep
  <2> QED
    BY <2>1, <2>3
<1>8. ASSUME Faithful PROVE byte = source[filled + 1]
  <2>1. PICK full : Coding(full)
    BY <1>1, <1>8 DEF Encoded
  <2>2. filled + 1 \in 1..M + 1 /\ pos[filled + 1] <= Len(chars) /\ pos[filled + 1] = at + 1
    BY <1>1, <1>2, <1>3
  <2>3. filled + 1 \in 1..Len(source) /\ pos[filled + 1] \in Nat
    BY <1>1, <1>2, <2>1, <2>2, CodeAt
  <2>4. PICK e \in Nat : e <= Len(chars) + 1 /\ Codes(chars, pos[filled + 1], source[filled + 1], e)
    BY <1>1, <1>2, <2>1, <2>2, CodeAt
  <2>5. source[filled + 1] \in 0..255
    BY <2>3, ElementOfSeq
  <2>6. ReadAt(pos[filled + 1]) = source[filled + 1]
    BY <1>1, <2>3, <2>4, <2>5, CodesRead
  <2> QED
    BY <2>2, <2>6 DEF byte
<1>9. Way(pos, M)'
  <2>1. M' = M
    BY <1>7
  <2>2. \A k : WellFormed(k)' <=> WellFormed(k)
    BY <1>7 DEF WellFormed
  <2> QED
    BY <1>2, <1>7, <2>1, <2>2 DEF Way
<1>10. (\E p : /\ Way(p, Len(cells)) /\ p[Len(cells) + 1] = Len(chars) + 1 /\ at + 1 = p[filled + 1])'
  <2>1. at' + 1 = pos[filled' + 1]
    <3>1. Span(char) \in Nat
      BY DEF Span
    <3> QED
      BY <1>1, <1>4, <1>7, <3>1
  <2> QED
    BY <1>2, <1>7, <1>9, <2>1
<1>11. \A c \in 1..filled' : c \in 1..filled \/ c = filled + 1
  BY <1>1, <1>7
<1>12. \A c \in 1..filled' : cells'[c] \in 0..255
  BY <1>1, <1>6, <1>7, <1>11
<1>13. (Faithful => Encoded /\ \A c \in 1..filled : cells[c] = source[c])'
  <2>1. Faithful' => Faithful
    BY <1>7 DEF Faithful
  <2>2. ASSUME Faithful PROVE Encoded'
    <3>1. PICK full : Coding(full)
      BY <1>1, <2>2 DEF Encoded
    <3>2. Coding(full)'
      BY <1>7, <3>1 DEF Coding, Codes
    <3> QED
      BY <3>2 DEF Encoded
  <2>3. Faithful => \A c \in 1..filled' : cells'[c] = source'[c]
    BY <1>1, <1>7, <1>8, <1>11
  <2> QED
    BY <2>1, <2>2, <2>3
<1>14. at' \in Nat /\ filled' \in Nat /\ filled' <= Len(cells') /\ chars' \in Seq(0..255)
  BY <1>1, <1>3, <1>7 DEF Span
<1> QED
  BY <1>1, <1>7, <1>10, <1>12, <1>13, <1>14 DEF Unquoting

LEMMA EndReadStep ==
  ASSUME source \in Seq(0..255), Unquoting, EndRead
  PROVE  /\ urlStage' = "ok" /\ cells' \in Seq(0..255) /\ chars' \in Seq(0..255)
         /\ Faithful' => cells' = source'
         /\ UNCHANGED <<source, plus>>
<1> DEFINE M == Len(cells)
<1>1. /\ chars \in Seq(0..255) /\ at = Len(chars) /\ filled \in Nat /\ cells \in Seq(Int)
      /\ filled <= M /\ M \in Nat /\ Len(chars) \in Nat
      /\ \A c \in 1..filled : cells[c] \in 0..255
      /\ Faithful => Encoded /\ \A c \in 1..filled : cells[c] = source[c]
      /\ UNCHANGED <<source, safe, plus, chars, cells>> /\ urlStage' = "ok"
  BY DEF Unquoting, EndRead, AtEnd
<1>2. PICK pos : Way(pos, M) /\ pos[M + 1] = Len(chars) + 1 /\ at + 1 = pos[filled + 1]
  BY DEF Unquoting
<1>3. filled = M
  <2>1. filled + 1 \in 1..M + 1 /\ M + 1 \in 1..M + 1 /\ filled + 1 <= M + 1
    BY <1>1
  <2>2. pos[filled + 1] \in Nat /\ pos[filled + 1] + ((M + 1) - (filled + 1)) <= pos[M + 1]
    BY <1>1, <1>2, <2>1, WayRises
  <2> QED
    BY <1>1, <1>2, <2>2
<1>4. cells \in Seq(0..255)
  <2>1. \A c \in 1..Len(cells) : cells[c] \in 0..255
    BY <1>1, <1>3
  <2>2. cells \in Seq(Int)
    BY <1>1
  <2> QED
    BY <2>1, <2>2, SeqTyped
<1>5. ASSUME Faithful PROVE cells = source
  <2>1. PICK full : Coding(full)
    BY <1>1, <1>5 DEF Encoded
  <2>2. M = Len(source)
    BY <1>1, <1>2, <2>1, AllCoded
  <2>3. \A c \in 1..Len(cells) : cells[c] = source[c]
    BY <1>1, <1>3, <1>5
  <2>4. cells \in Seq(0..255) /\ source \in Seq(0..255) /\ Len(cells) = Len(source)
    BY <1>4, <2>2
  <2> QED
    BY <2>3, <2>4, SeqEqual
<1> QED
  BY <1>1, <1>4, <1>5 DEF Faithful

LEMMA UrlStart ==
  ASSUME UrlInit
  PROVE  UrlInv
<1>1. /\ source \in Seq(0..255) /\ plus \in BOOLEAN /\ chars = source /\ at = 0 /\ hexes = 0
      /\ marked = FALSE /\ cells = <<>> /\ filled = 0 /\ Len(source) \in Nat
  BY UrlAssumption DEF UrlInit
<1>2. PICK pos : pos = [x \in 1..0 + 1 |-> 1]
  OBVIOUS
<1>3. pos \in [1..0 + 1 -> Nat] /\ pos[1] = 1 /\ pos[0 + 1] = 1
  BY <1>2
<1>4. CASE urlStage = "count"
  <2>1. Steps(pos, at) /\ pos[at + 1] = (at + (2 * hexes)) + 1
    BY <1>1, <1>3 DEF Steps
  <2>2. \E q : Steps(q, at) /\ q[at + 1] = (at + (2 * hexes)) + 1
    BY <2>1
  <2>3. at \in Nat /\ at <= Len(source) /\ hexes \in Nat
    BY <1>1
  <2>30. marked \in BOOLEAN
    BY <1>1
  <2>31. \A k \in 1..at : ~ Escapes(source[k])
    BY <1>1
  <2>4. Counting
    BY <1>1, <2>2, <2>3, <2>30, <2>31 DEF Counting
  <2> QED
    BY <1>1, <1>4, <2>4 DEF UrlInv
<1>5. CASE urlStage = "check" /\ safe = Nobody
  <2>1. /\ Way(pos, 0) /\ at + 1 = pos[0 + 1] /\ at = 0 + (2 * hexes) /\ 0 \in Nat
        /\ \A k \in 1..0 : Same(chars[pos[k]])
    BY <1>1, <1>3 DEF Way
  <2>2. DOMAIN cells = {}
    BY <1>1
  <2>3. ~ Faithful
    BY <1>5 DEF Faithful
  <2>4. at <= Len(chars) /\ hexes \in Nat /\ at \in Nat /\ chars \in Seq(0..255)
    BY <1>1
  <2>40. marked \in BOOLEAN
    BY <1>1
  <2>41. \E m \in Nat : \E q :
           /\ Way(q, m) /\ at + 1 = q[m + 1] /\ at = m + (2 * hexes)
           /\ hexes = 0 /\ ~ marked => \A k \in 1..m : Same(chars[q[k]])
    BY <2>1
  <2>5. Checking
    BY <2>2, <2>3, <2>4, <2>40, <2>41 DEF Checking
  <2> QED
    BY <1>1, <1>5, <2>5 DEF UrlInv
<1> QED
  BY <1>4, <1>5 DEF UrlInit

LEMMA UrlStep ==
  ASSUME UrlInv, [UrlNext]_urlVars
  PROVE  UrlInv'
<1>1. source \in Seq(0..255) /\ plus \in BOOLEAN
  BY DEF UrlInv
<1>2. CASE CountByte
  <2>1. urlStage = "count"
    BY <1>2 DEF CountByte, AtByte
  <2>2. Counting
    BY <2>1 DEF UrlInv
  <2> QED
    BY <1>1, <1>2, <2>2, CountByteStep DEF UrlInv
<1>3. CASE EndCount
  <2>1. urlStage = "count"
    BY <1>3 DEF EndCount, AtEnd
  <2>2. Counting
    BY <2>1 DEF UrlInv
  <2> QED
    BY <1>1, <1>3, <2>2, EndCountStep DEF UrlInv
<1>4. CASE WriteByte
  <2>1. urlStage = "write"
    BY <1>4 DEF WriteByte, AtByte
  <2>2. Writing
    BY <2>1 DEF UrlInv
  <2> QED
    BY <1>1, <1>4, <2>2, WriteByteStep DEF UrlInv
<1>5. CASE EndWrite
  <2>1. urlStage = "write"
    BY <1>5 DEF EndWrite, AtEnd
  <2>2. Writing
    BY <2>1 DEF UrlInv
  <2> QED
    BY <1>1, <1>5, <2>2, EndWriteStep DEF UrlInv
<1>6. CASE CheckByte
  <2>1. urlStage = "check"
    BY <1>6 DEF CheckByte, AtByte
  <2>2. Checking
    BY <2>1 DEF UrlInv
  <2> QED
    BY <1>1, <1>6, <2>2, CheckByteStep DEF UrlInv
<1>7. CASE EndCheck
  <2>1. urlStage = "check"
    BY <1>7 DEF EndCheck, AtEnd
  <2>2. Checking
    BY <2>1 DEF UrlInv
  <2> QED
    BY <1>1, <1>7, <2>2, EndCheckStep DEF UrlInv
<1>8. CASE ReadByte
  <2>1. urlStage = "read"
    BY <1>8 DEF ReadByte, AtByte
  <2>2. Unquoting
    BY <2>1 DEF UrlInv
  <2> QED
    BY <1>1, <1>8, <2>2, ReadByteStep DEF UrlInv
<1>9. CASE EndRead
  <2>1. urlStage = "read"
    BY <1>9 DEF EndRead, AtEnd
  <2>2. Unquoting
    BY <2>1 DEF UrlInv
  <2> QED
    BY <1>1, <1>9, <2>2, EndReadStep DEF UrlInv
<1>10. CASE UNCHANGED urlVars
  <2>1. UNCHANGED <<source, safe, plus, urlStage, chars, at, hexes, marked, cells, filled>>
    BY <1>10 DEF urlVars, counts
  <2>20. /\ \A c : (Escapes(c)' <=> Escapes(c)) /\ Size(c)' = Size(c)
         /\ \A t, o, c : Cells(t, o, c)' <=> Cells(t, o, c)
    <3>1. \A c : (Escapes(c)' <=> Escapes(c)) /\ (IsSpace(c)' <=> IsSpace(c))
      BY <2>1 DEF IsSpace, Escapes, shouldEscape, shouldEscapeCustom
    <3> QED
      BY <3>1 DEF Size, Cells
  <2>2. Counting => Counting'
    BY <2>1, <2>20 DEF Counting, Steps
  <2>3. Writing => Writing'
    BY <2>1, <2>20 DEF Writing, Steps
  <2>4. Faithful' = Faithful /\ Encoded' = Encoded
    BY <2>1 DEF Faithful, Encoded, Coding, Codes
  <2>5. Checking => Checking'
    BY <2>1, <2>4 DEF Checking, Way, WellFormed, Same
  <2>6. Unquoting => Unquoting'
    BY <2>1, <2>4 DEF Unquoting, Way, WellFormed
  <2> QED
    BY <2>1, <2>2, <2>3, <2>4, <2>5, <2>6 DEF UrlInv
<1> QED
  BY <1>2, <1>3, <1>4, <1>5, <1>6, <1>7, <1>8, <1>9, <1>10 DEF UrlNext

LEMMA NeverUnset ==
  ASSUME NEW s \in Seq(0..255)
  PROVE  Unset \notin ToSet(s)
<1>1. ASSUME NEW k \in DOMAIN s PROVE s[k] # Unset
  <2>1. k \in 1..Len(s)
    OBVIOUS
  <2>2. s[k] \in 0..255
    BY <2>1, ElementOfSeq
  <2>3. \A x \in 0..255 : x # Unset
    BY DEF Unset
  <2> QED
    BY <2>2, <2>3
<1> QED
  BY <1>1 DEF ToSet

LEMMA UrlRight ==
  ASSUME UrlInv
  PROVE  Unquoted
<1>1. urlStage # "panic"
  BY DEF UrlInv
<1>2. CASE urlStage = "check"
  <2>1. Checking
    BY <1>2 DEF UrlInv
  <2>2. Unset \notin ToSet(chars) /\ ToSet(cells) = {}
    BY <2>1, NeverUnset DEF Checking, ToSet
  <2> QED
    BY <1>2, <2>2 DEF Unquoted
<1>3. CASE urlStage = "ok"
  <2>1. cells \in Seq(0..255) /\ chars \in Seq(0..255) /\ (Faithful => cells = source)
    BY <1>3 DEF UrlInv
  <2>2. Unset \notin ToSet(chars) /\ Unset \notin ToSet(cells)
    BY <2>1, NeverUnset
  <2> QED
    BY <1>3, <2>1, <2>2 DEF Unquoted
<1>4. CASE urlStage \notin {"check", "ok"}
  BY <1>1, <1>4 DEF Unquoted, UrlInv
<1> QED
  BY <1>2, <1>3, <1>4

\* url/url.go: whatever is quoted is unquoted to itself, unless a byte that unquoting changes was
\* declared safe; and no buffer of the code, each sized by a loop of its own, is too short or
\* too long for what is written to it.
THEOREM QuotedComesBack == UrlSpec => []Unquoted
<1>1. UrlInit => UrlInv
  BY UrlStart
<1>2. UrlInv /\ [UrlNext]_urlVars => UrlInv'
  BY UrlStep
<1>3. UrlInv => Unquoted
  BY UrlRight
<1> QED
  BY <1>1, <1>2, <1>3, PTL DEF UrlSpec
=============================================================================

--------------------------------- MODULE Iron ---------------------------------
(***************************************************************************)
(* crypto/crypto.go: IronString makes a string of a value, and             *)
(* GetIronValue reads it while time passes.  Strings are sequences, of     *)
(* characters and of numbers that are printed in decimal.                  *)
(***************************************************************************)
EXTENDS Integers, SequencesExt

CONSTANTS
  Colon, Bar, Backslash,   \* numbers above MaxTime, as all characters are
  Names, Contents, Keys,
  Durations,
  MaxTime                  \* the largest int64

ASSUME IronAssumption ==
  /\ MaxTime \in Nat
  /\ Colon \in Int /\ Colon > MaxTime
  /\ Contents \subseteq Seq(Int)
  /\ Durations \subseteq Int

VARIABLES
  now,
  made,     \* the call of IronString: [name, value, key, duration, at], or none yet
  text,     \* what it returned: the code, [message, key], and the text behind the colon
  answer    \* of the last GetIronValue: [name, key, timestamped, at, val, ok], or none

ironVars == <<now, made, text, answer>>

None == <<>>

IronInit ==
  /\ now \in 0..MaxTime
  /\ made = None /\ text = None /\ answer = None

\* UnixNano
Tick ==
  /\ now < MaxTime
  /\ now' = now + 1
  /\ UNCHANGED <<made, text, answer>>

Wrap(n) == IF n > MaxTime THEN n - 2 * (MaxTime + 1) ELSE n

\* The bars in the name are escaped.
Message(name, value) ==
  FlattenSeq([k \in DOMAIN name |-> IF name[k] = Bar THEN <<Backslash, Bar>> ELSE <<name[k]>>])
    \o <<Bar>> \o value

IronString(name, value, key, duration) ==
  /\ made = None
  /\ made' = [name |-> name, value |-> value, key |-> key, duration |-> duration, at |-> now]
  /\ LET stamped == IF duration > 0 THEN <<Wrap(now + duration), Colon>> \o value ELSE value
     IN  text' = [mac |-> <<Message(name, stamped), key>>, value |-> stamped]
  /\ UNCHANGED <<now, answer>>

Colons(s) == {k \in DOMAIN s : s[k] = Colon}

\* Slip: the value may have no colon.
LastColon(s) == CHOOSE k \in Colons(s) : \A l \in Colons(s) : l <= k

\* SplitN into two
FirstColon(s) == CHOOSE k \in Colons(s) : \A l \in Colons(s) : l >= k

\* The code is compared with that of the value; the stamp has to be a number, and not past.
Read(name, key, timestamped) ==
  LET value == text.value
      stamped == Colons(value) # {}
      stamp == SubSeq(value, 1, FirstColon(value) - 1)
      isNumber == Len(stamp) = 1 /\ stamp[1] <= MaxTime
      ok == /\ text.mac = <<Message(name, value), key>>
            /\ timestamped => stamped /\ isNumber /\ now <= stamp[1]
  IN  [name |-> name, key |-> key, timestamped |-> timestamped, at |-> now, ok |-> ok,
       val |-> IF ~ ok THEN <<>>
               ELSE IF timestamped THEN SubSeq(value, FirstColon(value) + 1, Len(value))
               ELSE value]

GetIronValue(name, key, timestamped) ==
  /\ made # None
  /\ answer' = Read(name, key, timestamped)
  /\ UNCHANGED <<now, made, text>>

IronNext ==
  \/ Tick
  \/ \E name \in Names, key \in Keys :
       \/ \E value \in Contents, duration \in Durations : IronString(name, value, key, duration)
       \/ \E timestamped \in BOOLEAN : GetIronValue(name, key, timestamped)

IronSpec == IronInit /\ [][IronNext]_ironVars

----------------------------------------------------------------------------
(* Properties *)

\* What is read with the name and the key it was made with is the value, colons and all; with
\* a duration as long as that has not passed, and no longer.  A duration that goes beyond the
\* largest time is excepted: its stamp wraps around, and the string has expired when it is made.
IronKept ==
  answer # None =>
    LET d == made.duration
        alive == d <= 0 \/ answer.at <= made.at + d
    IN  /\ answer.name = made.name /\ answer.key = made.key
        /\ answer.timestamped <=> d > 0
        /\ made.at + d <= MaxTime
        => /\ answer.ok <=> alive
           /\ answer.ok => answer.val = made.value
=============================================================================

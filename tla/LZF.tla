---------------------------------- MODULE LZF ----------------------------------
(***************************************************************************)
(* lzf/lzf.go: Compress, and Decompress of what it returned, of which the  *)
(* end may have been cut off.  A turn of a loop of the code is a step.     *)
(*                                                                         *)
(* A control byte is low + Hi * length; Hi is 32, Lo 256, Long 7,         *)
(* TableSize 65536 and MaxSize 2^30 in the code.  The four bytes that hold *)
(* the length of the input are left out of the cells, which keep their     *)
(* indices.                                                                *)
(***************************************************************************)
EXTENDS Integers, SequencesExt, TLC

CONSTANTS
  Inputs,     \* sequences of bytes
  Hi,         \* what the low bits of a control byte count
  Lo,         \* what a byte counts
  Long,       \* the length that announces an extended back reference
  TableSize,
  MaxSize     \* the length from which on an input is refused

ASSUME LzfAssumption ==
  /\ Inputs \subseteq Seq(0..255)
  /\ Hi \in Nat /\ Hi > 1
  /\ {Lo, Long, TableSize} \subseteq Nat \ {0}

ASSUME SizeAssumption == MaxSize \in Nat

MaxLiteral == Hi
MaxOffset  == Hi * Lo
MaxBackref == Lo + Long + 1

VARIABLES
  input,
  lzfStage, \* "scan", "tail", "encoded", "decode", and the ends: "ok", "nil" (no output of
            \* Compress), "bad" (none of Decompress), "panic" (an index out of range)
  iidx, oidx, literal, table, hval,   \* Compress
  output,   \* its cells, from 4 on
  cut,      \* the end of the output was lost
  decoded   \* what Decompress has written; its oidx is Len(decoded), its iidx is iidx

lzfVars == <<input, lzfStage, iidx, oidx, literal, table, hval, output, cut, decoded>>
scratch == <<literal, table, hval>>

InputLength == Len(input)
In(i) == input[i + 1]

LzfInit ==
  /\ input \in Inputs
  /\ lzfStage = IF InputLength <= 4 \/ InputLength >= MaxSize THEN "nil" ELSE "scan"
  /\ iidx = 0 /\ oidx = 5 /\ literal = 0
  /\ table = [slot \in 0..TableSize - 1 |-> 0]
  /\ hval = IF InputLength > 1 THEN In(1) ELSE 0   \* input[0]<<8 is 0 in a byte
  /\ output = [i \in 4..InputLength + 3 |-> 0]
  /\ cut = FALSE
  /\ decoded = <<>>

Or(byte1, byte2) ==
  LET bit(b) == IF (byte1 \div b) % 2 = 1 \/ (byte2 \div b) % 2 = 1 THEN b ELSE 0
  IN  bit(1) + bit(2) + bit(4) + bit(8) + bit(16) + bit(32) + bit(64) + bit(128)

\* The bits of hval that reach the slot.
Shift(h, byte) == (h * 256 + byte) % 16777216
Slot(h) == (h \div 256 - 5 * h) % TableSize

\* Write bytes from the cell `at` on, and, unless count is 0, the control byte of count literals
\* at the cell that was reserved for it.
Emit(at, bytes, count) ==
  LET cells == at..at + Len(bytes) - 1
      control == IF count = 0 THEN {} ELSE {oidx - literal - 1}
  IN  IF cells \cup control \subseteq DOMAIN output
      THEN /\ output' = [c \in DOMAIN output |-> IF c \in cells THEN bytes[c - at + 1]
                                                ELSE IF c \in control THEN count - 1 ELSE output[c]]
           /\ UNCHANGED lzfStage
      ELSE UNCHANGED output /\ lzfStage' = "panic"

Control(length, low) == low + Hi * length

----------------------------------------------------------------------------
(* Compress *)

\* Slip: an offset that just does not fit.
InReachOrNext(offset) == offset <= MaxOffset

InReach(offset) == offset < MaxOffset

Repeats(backref) ==
  /\ InReach(iidx - backref - 1)
  /\ iidx + 4 < InputLength
  /\ backref > 0
  /\ \A i \in 0..2 : In(backref + i) = In(iidx + i)

\* How many bytes from backref on come again (102-121).
MatchLength(backref) ==
  LET max == Min({InputLength - iidx - 2, MaxBackref})
  IN  Min({l \in 3..InputLength : l >= max \/ In(backref + l) # In(iidx + l)})

Scanning == lzfStage = "scan" /\ iidx < InputLength - 2
Hashed == Shift(hval, In(iidx + 2))
Candidate == table[Slot(Hashed)]
Tabled == [table EXCEPT ![Slot(Hashed)] = iidx]

GiveUp ==
  /\ lzfStage' = "nil"
  /\ UNCHANGED <<input, iidx, oidx, output, cut, decoded, scratch>>

\* A back reference.  A control byte for the literals before it was reserved at
\* oidx-literal-1; without any the reference takes its place.
BackReference ==
  /\ Scanning /\ Repeats(Candidate)
  /\ LET length == MatchLength(Candidate) - 2
         offset == iidx - Candidate - 1
         at == IF literal = 0 THEN oidx - 1 ELSE oidx
         to == iidx + length + 2
         ref == IF length < Long THEN <<Control(length, offset \div Lo), offset % Lo>>
                ELSE <<Control(Long, offset \div Lo), (length - Long) % Lo, offset % Lo>>
         \* the two positions before the next are entered in the table
         h1 == Or(In(to - 2), In(to - 1)) * 256 + In(to)
         h2 == Shift(h1, In(to + 1))
         more == to < InputLength - 2
     IN  IF at >= InputLength THEN GiveUp
         ELSE /\ Emit(at, ref, literal)
              /\ iidx' = to
              /\ oidx' = at + Len(ref) + 1
              /\ literal' = 0
              /\ hval' = IF more THEN h2 ELSE Hashed
              /\ table' = IF more THEN [Tabled EXCEPT ![Slot(h1)] = to - 2, ![Slot(h2)] = to - 1]
                          ELSE Tabled
              /\ UNCHANGED <<input, cut, decoded>>

\* A byte as it is.  The control byte is written when the literals are as many as it counts.
PutByte ==
  /\ Emit(oidx, <<In(iidx)>>, IF literal + 1 = MaxLiteral THEN MaxLiteral ELSE 0)
  /\ iidx' = iidx + 1
  /\ oidx' = IF literal + 1 = MaxLiteral THEN oidx + 2 ELSE oidx + 1
  /\ literal' = IF literal + 1 = MaxLiteral THEN 0 ELSE literal + 1
  /\ UNCHANGED <<input, cut, decoded>>

Literal ==
  /\ Scanning /\ ~ Repeats(Candidate)
  /\ IF oidx >= InputLength - 4 THEN GiveUp
     ELSE PutByte /\ hval' = Hashed /\ table' = Tabled

EndScan ==
  /\ lzfStage = "scan" /\ iidx >= InputLength - 2
  /\ lzfStage' = IF oidx - 1 > InputLength THEN "nil" ELSE "tail"
  /\ UNCHANGED <<input, iidx, oidx, output, cut, decoded, scratch>>

TailByte ==
  /\ lzfStage = "tail" /\ iidx < InputLength
  /\ PutByte
  /\ UNCHANGED <<table, hval>>

\* The last control byte; one that no literal followed is cut off.
EndTail ==
  /\ lzfStage = "tail" /\ iidx = InputLength
  /\ LET end == IF literal = 0 THEN oidx - 1 ELSE oidx
     IN  IF oidx - literal - 1 > InputLength + 3 THEN lzfStage' = "panic" /\ UNCHANGED output
         ELSE /\ lzfStage' = "encoded"
              /\ output' = [i \in 4..end - 1 |->
                              IF i = oidx - literal - 1 THEN literal - 1 ELSE output[i]]
  /\ iidx' = 4
  /\ UNCHANGED <<input, oidx, cut, decoded, scratch>>

----------------------------------------------------------------------------
(* Decompress *)

\* Decompress looks at the length in the first four bytes.
Deliver ==
  /\ lzfStage = "encoded"
  /\ lzfStage' = IF InputLength >= MaxSize THEN "bad" ELSE "decode"
  /\ UNCHANGED <<input, iidx, oidx, output, cut, decoded, scratch>>

\* The end of the output is lost.
Cut ==
  /\ lzfStage = "encoded" /\ ~ cut
  /\ \E i \in DOMAIN output : output' = Restrict(output, 4..i)
  /\ cut' = TRUE
  /\ UNCHANGED <<input, lzfStage, iidx, oidx, decoded, scratch>>

CodedLength == 4 + Cardinality(DOMAIN output)
ctrl == output[iidx]

Fail(st) == lzfStage' = st /\ UNCHANGED <<iidx, decoded>>

Go(i, bytes) == lzfStage' = lzfStage /\ iidx' = i /\ decoded' = decoded \o bytes

\* length bytes from backref on, one by one: what has just been written may be read again.
Copy(backref, length) ==
  [i \in 1..length |-> decoded[backref + 1 + ((i - 1) % (Len(decoded) - backref))]]

DecodeLiteral ==
  /\ lzfStage = "decode" /\ iidx < CodedLength /\ ctrl < Hi
  /\ IF Len(decoded) + ctrl + 1 > InputLength \/ iidx + ctrl + 2 > CodedLength THEN Fail("bad")
     ELSE Go(iidx + ctrl + 2, [i \in 1..ctrl + 1 |-> output[iidx + i]])
  /\ UNCHANGED <<input, oidx, output, cut, scratch>>

DecodeReference ==
  /\ lzfStage = "decode" /\ iidx < CodedLength /\ ctrl >= Hi
  /\ LET extended == ctrl \div Hi = Long
         at == IF extended THEN iidx + 2 ELSE iidx + 1
         length == ctrl \div Hi + IF extended THEN output[iidx + 1] ELSE 0
         upper == Len(decoded) - (ctrl % Hi) * Lo - 1   \* unsigned in the code
         backref == upper - output[at]
     IN  IF at >= CodedLength THEN Fail("bad")
         ELSE IF Len(decoded) + length + 2 > InputLength THEN Fail("bad")
         ELSE IF upper < 0 THEN Fail("panic")
         ELSE IF backref < 0 THEN Fail("bad")
         ELSE Go(at + 1, Copy(backref, length + 2))
  /\ UNCHANGED <<input, oidx, output, cut, scratch>>

EndDecode ==
  /\ lzfStage = "decode" /\ iidx >= CodedLength
  /\ lzfStage' = "ok"
  /\ UNCHANGED <<input, iidx, oidx, output, cut, decoded, scratch>>

LzfNext ==
  \/ BackReference \/ Literal \/ EndScan \/ TailByte \/ EndTail
  \/ Deliver \/ Cut \/ DecodeLiteral \/ DecodeReference \/ EndDecode

LzfSpec == LzfInit /\ [][LzfNext]_lzfVars

----------------------------------------------------------------------------
(* Properties *)

\* What Compress returns, Decompress turns into the input again, and neither of them goes
\* beyond its array; of an output whose end is lost Decompress writes what was in the
\* input at that place, or returns nil.
RoundTrip ==
  /\ lzfStage # "panic"
  /\ lzfStage = "bad" => cut
  /\ IsPrefix(decoded, input)
  /\ lzfStage = "ok" /\ ~ cut => decoded = input
=============================================================================

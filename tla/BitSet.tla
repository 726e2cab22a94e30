-------------------------------- MODULE BitSet --------------------------------
(***************************************************************************)
(* bitset/bitset.go: a set of indices as the bits of words, any sequence   *)
(* of calls on a new one.                                                  *)
(*                                                                         *)
(* A word is the set of its bits that are 1.  It has WordBytes bytes of    *)
(* ByteBits bits, 8 or 4 of 8 in the code; a uint is less than             *)
(* UintMax + 1.                                                            *)
(***************************************************************************)
EXTENDS Integers, SequencesExt

CONSTANTS WordBytes, ByteBits, UintMax, Sizes, Indices

ASSUME SetAssumption ==
  /\ WordBytes \in Nat \ {0} /\ ByteBits \in Nat \ {0} /\ UintMax \in Nat
  /\ Sizes \subseteq 0..UintMax /\ Indices \subseteq 0..UintMax

VARIABLES
  size, bits,
  out,        \* what String last returned
  panicked,
  members,    \* what the calls made a set of
  printed     \* members when String was called

setVars == <<size, bits, out, panicked, members, printed>>

WordBits == ByteBits * WordBytes

\* New
WordCount(n) == ((n + WordBits - 1) % (UintMax + 1)) \div WordBits

SetInit ==
  /\ size \in Sizes
  /\ bits = [w \in 1..WordCount(size) |-> {}]
  /\ out = <<>> /\ panicked = FALSE
  /\ members = {} /\ printed = {}

\* Slip: the rest is that of a byte.
MaskInByte(idx) == {idx % ByteBits}

Mask(idx) == {idx % WordBits}
Word(idx) == idx \div WordBits + 1

\* word := op, or an index out of range
Change(idx, word) ==
  /\ ~ panicked
  /\ IF Word(idx) \in DOMAIN bits
     THEN bits' = [bits EXCEPT ![Word(idx)] = word] /\ UNCHANGED panicked
     ELSE panicked' = TRUE /\ UNCHANGED bits
  /\ UNCHANGED <<size, out, printed>>

Set(idx) ==
  /\ Change(idx, bits[Word(idx)] \cup Mask(idx))
  /\ members' = members \cup {idx}

Clear(idx) ==
  /\ Change(idx, bits[Word(idx)] \ Mask(idx))
  /\ members' = members \ {idx}

Reset ==
  /\ ~ panicked
  /\ bits' = [w \in DOMAIN bits |-> {}]
  /\ members' = {}
  /\ UNCHANGED <<size, out, panicked, printed>>

\* The bytes of each word, the lowest first: byte b of a word, and the word of byte n.
ByteOf(word, b) == {x \in 0..ByteBits - 1 : ByteBits * b + x \in word}
Holder(n) == (n - 1) \div WordBytes + 1

String ==
  /\ ~ panicked
  /\ out' = [n \in 1..Len(bits) * WordBytes |-> ByteOf(bits[Holder(n)], (n - 1) % WordBytes)]
  /\ printed' = members
  /\ UNCHANGED <<size, bits, panicked, members>>

SetNext == (\E idx \in Indices : Set(idx) \/ Clear(idx)) \/ Reset \/ String

SetSpec == SetInit /\ [][SetNext]_setVars

----------------------------------------------------------------------------
(* Properties *)

Bit(seq, width, idx) == idx % width \in seq[idx \div width + 1]

\* Unless the size is so large that it overflows when it is rounded up, every index below it
\* can be set and cleared; the indices below it that were set and not cleared are the bits
\* that are set, and String has them bit by bit, whatever calls came between.
BitsRight ==
  size + WordBits - 1 <= UintMax =>
    \A idx \in 0..size - 1 :
      /\ Word(idx) \in DOMAIN bits
      /\ ~ panicked => (Bit(bits, WordBits, idx) <=> idx \in members)
      /\ out # <<>> => (Bit(out, ByteBits, idx) <=> idx \in printed)
=============================================================================

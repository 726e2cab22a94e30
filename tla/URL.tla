---------------------------------- MODULE URL ----------------------------------
(***************************************************************************)
(* url/url.go: a text is quoted, by Quote, QuotePlus or one of the Custom  *)
(* functions, and what comes out is unquoted; or a text that nobody quoted *)
(* is unquoted.  Texts are sequences of bytes.  A turn of a loop of the    *)
(* code is a step.                                                         *)
(***************************************************************************)
EXTENDS Integers, SequencesExt

CONSTANTS
  Plain,       \* the texts to quote
  Quoted,      \* the texts to unquote
  Safes,       \* what the Custom functions are given as safe: sets of bytes
  QuoteSafe,   \* stands for the safe of Quote and QuotePlus
  Nobody       \* stands for the safe of a text that nobody quoted

ASSUME UrlAssumption ==
  /\ Plain \subseteq Seq(0..255) /\ Quoted \subseteq Seq(0..255)
  /\ Nobody \notin Safes /\ QuoteSafe \notin Safes /\ Nobody # QuoteSafe

VARIABLES
  source, safe, plus,
  urlStage,        \* "count", "write", "check", "read", and the ends: "ok", "bad" (an error),
                   \* "panic" (an index out of range)
  chars, at,       \* what is read, from at + 1 on: s and i
  hexes, marked,   \* what was counted: hexCount and spaceCount # 0, or n and hasPlus
  cells, filled    \* what is written, from filled + 1 on: t and j

counts == <<hexes, marked>>
urlVars == <<source, safe, plus, urlStage, chars, at, counts, cells, filled>>

Percent == 37
Plus    == 43
Space   == 32
Unset   == -1   \* a cell that is not written

UrlInit ==
  /\ \/ source \in Plain /\ safe \in Safes \cup {QuoteSafe} /\ urlStage = "count"
     \/ source \in Quoted /\ safe = Nobody /\ urlStage = "check"
  /\ plus \in BOOLEAN
  /\ chars = source /\ at = 0
  /\ hexes = 0 /\ marked = FALSE
  /\ cells = <<>> /\ filled = 0

\* shouldEscape and shouldEscapeCustom: control, space and above, and
\*  " # $ % & + , : ; < = > ? @ [ \ ] ^ ` { | }    and    " # % & + / : ; < = > ? @ [ \ ] ^ `
shouldEscape(c) ==
  \/ c <= Space \/ c >= 127
  \/ c \in {34, 35, 36, 37, 38, 43, 44} \cup 58..64 \cup 91..94 \cup {96, 123, 124, 125}

shouldEscapeCustom(c) ==
  /\ c \notin safe
  /\ \/ c <= 44 \/ c >= 123
     \/ c = 47 \/ c \in 58..64 \cup 91..94 \cup {96}

Escapes(c) == IF safe = QuoteSafe THEN shouldEscape(c) ELSE shouldEscapeCustom(c)

HexDigit(d) == IF d < 10 THEN 48 + d ELSE 87 + d
ishex(c) == c \in 48..57 \cup 65..70 \cup 97..102
unhex(c) == IF c \in 48..57 THEN c - 48 ELSE IF c >= 97 THEN c - 87 ELSE c - 55

\* Start a loop over the text s, with k cells to write.
Begin(s, k, st) ==
  /\ chars' = s /\ at' = 0 /\ urlStage' = st
  /\ hexes' = 0 /\ marked' = FALSE
  /\ cells' = [c \in 1..k |-> Unset] /\ filled' = 0
  /\ UNCHANGED <<source, safe, plus>>

\* Go on behind the next k bytes.
Counted(k, hex, mark) ==
  /\ at' = at + k
  /\ hexes' = IF hex THEN hexes + 1 ELSE hexes
  /\ marked' = (marked \/ mark)
  /\ UNCHANGED <<source, safe, plus, urlStage, chars, cells, filled>>

Put(bytes, k) ==
  /\ IF filled + Len(bytes) <= Len(cells)
     THEN /\ cells' = [c \in DOMAIN cells |-> IF c \in filled + 1..filled + Len(bytes)
                                              THEN bytes[c - filled] ELSE cells[c]]
          /\ UNCHANGED urlStage
     ELSE UNCHANGED cells /\ urlStage' = "panic"
  /\ at' = at + k
  /\ filled' = filled + Len(bytes)
  /\ UNCHANGED <<source, safe, plus, chars, counts>>

AtByte(st) == urlStage = st /\ at < Len(chars)
AtEnd(st)  == urlStage = st /\ at = Len(chars)
char == chars[at + 1]
IsSpace(c) == c = Space /\ plus

----------------------------------------------------------------------------
(* urlEscape, urlEscapeCustom *)

CountByte ==
  /\ AtByte("count")
  /\ Counted(1, Escapes(char) /\ ~ IsSpace(char), Escapes(char) /\ IsSpace(char))

\* With nothing to change the text is returned as it is.
EndCount ==
  /\ AtEnd("count")
  /\ IF hexes = 0 /\ ~ marked THEN Begin(chars, 0, "check")
                              ELSE Begin(chars, Len(chars) + 2 * hexes, "write")

\* Slip: the high half of the byte is lost.
LowHalf(c) == <<Percent, HexDigit(0), HexDigit(c % 16)>>

Hex(c) == <<Percent, HexDigit(c \div 16), HexDigit(c % 16)>>

WriteByte ==
  /\ AtByte("write")
  /\ \/ IsSpace(char) /\ Put(<<Plus>>, 1)
     \/ ~ IsSpace(char) /\ Escapes(char) /\ Put(Hex(char), 1)
     \/ ~ IsSpace(char) /\ ~ Escapes(char) /\ Put(<<char>>, 1)

EndWrite == AtEnd("write") /\ Begin(cells, 0, "check")

----------------------------------------------------------------------------
(* urlUnescape *)

WellFormed(k) == k + 2 <= Len(chars) /\ ishex(chars[k + 1]) /\ ishex(chars[k + 2])

CheckByte ==
  /\ AtByte("check")
  /\ \/ char = Percent /\ ~ WellFormed(at + 1) /\ Begin(<<>>, 0, "bad")
     \/ char = Percent /\ WellFormed(at + 1) /\ Counted(3, TRUE, FALSE)
     \/ char # Percent /\ Counted(1, FALSE, char = Plus /\ plus)

EndCheck ==
  /\ AtEnd("check")
  /\ IF hexes = 0 /\ ~ marked
     THEN /\ cells' = chars /\ filled' = Len(chars) /\ urlStage' = "ok"
          /\ UNCHANGED <<source, safe, plus, chars, at, counts>>
     ELSE Begin(chars, Len(chars) - 2 * hexes, "read")

ReadByte ==
  /\ AtByte("read")
  /\ \/ char = Percent /\ Put(<<unhex(chars[at + 2]) * 16 + unhex(chars[at + 3])>>, 3)
     \/ char = Plus /\ Put(<<IF plus THEN Space ELSE Plus>>, 1)
     \/ char \notin {Percent, Plus} /\ Put(<<char>>, 1)

EndRead ==
  /\ AtEnd("read")
  /\ urlStage' = "ok"
  /\ UNCHANGED <<source, safe, plus, chars, at, counts, cells, filled>>

UrlNext ==
  \/ CountByte \/ EndCount \/ WriteByte \/ EndWrite
  \/ CheckByte \/ EndCheck \/ ReadByte \/ EndRead

UrlSpec == UrlInit /\ [][UrlNext]_urlVars

----------------------------------------------------------------------------
(* Properties *)

\* Nothing that unquoting changes was declared safe.
Faithful ==
  safe # Nobody /\ (safe # QuoteSafe => Percent \notin safe /\ (plus => Plus \notin safe))

\* A text that was quoted is unquoted to itself, unless "%", or "+" that stands for a space,
\* was declared safe.  What nobody quoted is refused or unquoted.  Either way every buffer is
\* as long as what is written to it.
Unquoted ==
  /\ urlStage # "panic"
  /\ urlStage \in {"check", "ok"} => Unset \notin ToSet(cells) \cup ToSet(chars)
  /\ Faithful => urlStage # "bad" /\ (urlStage = "ok" => cells = source)
=============================================================================

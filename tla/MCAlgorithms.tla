----------------------------- MODULE MCAlgorithms -----------------------------
(* The algorithms that work on their arguments alone, for TLC: a behaviour is one of them, *)
(* and the variables of the others rest.                                                    *)
EXTENDS Prime, Iron, LZF, URL, Password, OptParse, BitSet, Acceptable

VARIABLE algorithm

----------------------------------------------------------------------------
(* prime *)
SomeNumbers == <<2, 3, 5, 7, 11, 13>>
SomeBounds == (-1..14) \X (-1..14)
NoPrime == range = <<>> /\ stage = "idle" /\ i = 0 /\ init = 0 /\ result = 0

(* crypto: iron; characters are numbers from 10 on *)
SomeNames == {<<13>>, <<13, 11>>}
SomeContents == {<<>>, <<13>>, <<13, 10>>, <<3, 10, 13>>, <<10, 13, 10>>}
NoIron == now = 0 /\ made = None /\ text = None /\ answer = None

(* crypto: passwords *)
SomeDigests == [h |-> 2, g |-> 3]
NoPassword ==
  /\ settings = 0 /\ changes = 0 /\ password = Absent /\ origin = Absent /\ job = Absent
  /\ passStage = "idle" /\ block = 0 /\ round = 0 /\ slice = 0 /\ derived = 0 /\ verdict = Absent

(* lzf *)
BitsOf(k) == [1..k -> {0, 1}]
SomeBits(S) == UNION {BitsOf(k) : k \in S}
Periodic == {[c \in 1..k |-> u[((c - 1) % Len(u)) + 1]] \o w :
               k \in 10..24, u \in SomeBits(1..3), w \in SomeBits({0, 2})}
Apart == {u \o [n \in 1..k |-> c] \o u \o w :
            u \in BitsOf(5), c \in {0, 1}, k \in 8..16, w \in BitsOf(2)}
SomeInputs == SomeBits({0, 4, 5, 10}) \cup Periodic \cup Apart
NoLzf ==
  /\ input = <<>> /\ lzfStage = "idle" /\ iidx = 0 /\ oidx = 0 /\ literal = 0 /\ table = <<>>
  /\ hval = 0 /\ output = <<>> /\ cut = FALSE /\ decoded = <<>>

(* url: 32 and 47 are the space and "/", 36 "$", 37 "%", 43 "+", 52 "4", 67 "C", 97 "a", 103 "g" *)
SomePlain == {<<c>> : c \in 0..255} \cup BoundedSeq({32, 36, 37, 43, 47, 97}, 3)
SomeQuoted == BoundedSeq({37, 43, 52, 67, 97, 103}, 4)
NoUrl ==
  /\ source = <<>> /\ safe = Nobody /\ plus = FALSE /\ urlStage = "idle" /\ chars = <<>> /\ at = 0
  /\ hexes = 0 /\ marked = FALSE /\ cells = <<>> /\ filled = 0

(* optparse *)
AnOption(short, long, kind, hidden, required) ==
  [short |-> short, long |-> long, kind |-> kind, hidden |-> hidden, required |-> required]
all    == AnOption("-a", "--all", "bool", FALSE, FALSE)
allToo == AnOption("-h", "--all", "bool", FALSE, FALSE)
num    == AnOption("", "--num", "number", FALSE, TRUE)
file   == AnOption("-o", "--out", "string", FALSE, FALSE)
odd    == AnOption("-a", "", "string", TRUE, FALSE)
SomeAdded == <<AnOption("-h", "--help", "bool", FALSE, FALSE)>>
SomeTables == {<<all, num>>, <<file, all>>, <<all, file, odd>>, <<allToo, all>>}
SomeHalts == {[on |-> FALSE, n |-> 0, word |-> ""], [on |-> TRUE, n |-> 0, word |-> "run"],
              [on |-> TRUE, n |-> 2, word |-> ""]}
NoOpt ==
  /\ options = <<>> /\ set = <<>> /\ halt = 0 /\ args = <<>> /\ optStage = "idle" /\ idx = 0
  /\ addNext = FALSE /\ remainder = <<>>

(* bitset: a uint is less than 32, and two bytes of two bits are a word *)
NoSet == size = 0 /\ bits = <<>> /\ out = <<>> /\ panicked = FALSE /\ members = {} /\ printed = {}

(* httputil *)
Parts(names) == [name : names, qs : {<<>>, <<0>>, <<5>>, <<99>>, <<99, 5>>}]
FarParts(names) == [name : names, qs : {<<>>, <<0>>, <<1000>>, <<1000, 5>>, <<1000, 99>>}]
SomeHeaders ==
       [key : {"Accept", "Accept-Language"}, parts : BoundedSeq(Parts({"*", "en", "en-gb"}), 3)]
  \cup [key : {"Accept-Charset"}, parts : BoundedSeq(Parts({"*", "iso-8859-1", "fr"}), 2)]
  \cup [key : {"Accept-Language"}, parts : BoundedSeq(Parts({"en", "fr"}), 2)]
  \cup [key : {"Accept-Encoding"}, parts : BoundedSeq(Parts({"*", "identity", "fr"}), 2)]
  \cup [key : {"Accept", "Te"}, parts : BoundedSeq(FarParts({"*", "en"}), 2)]
SomeFamily == [en |-> {"en-gb", "en-us"}, fr |-> {}]
SomePrefixes == <<"en", "fr">>
SomeValues == <<"en-us", "fr", "en", "en-gb", "identity", "iso-8859-1", "fr", "*">>
NoAccept == header = 0 /\ acceptStage = "idle" /\ opts = <<>>

----------------------------------------------------------------------------
Algorithms == {"prime", "iron", "password", "lzf", "url", "optparse", "bitset", "httputil"}

AlgorithmsInit ==
  /\ algorithm \in Algorithms
  /\ IF algorithm = "prime" THEN Init ELSE NoPrime
  /\ IF algorithm = "iron" THEN IronInit ELSE NoIron
  /\ IF algorithm = "password" THEN PassInit ELSE NoPassword
  /\ IF algorithm = "lzf" THEN LzfInit ELSE NoLzf
  /\ IF algorithm = "url" THEN UrlInit ELSE NoUrl
  /\ IF algorithm = "optparse" THEN OptInit ELSE NoOpt
  /\ IF algorithm = "bitset" THEN SetInit ELSE NoSet
  /\ IF algorithm = "httputil" THEN AcceptInit ELSE NoAccept

AlgorithmsNext ==
  /\ UNCHANGED algorithm
  /\ IF algorithm = "prime" THEN Next ELSE UNCHANGED primeVars
  /\ IF algorithm = "iron" THEN IronNext ELSE UNCHANGED ironVars
  /\ IF algorithm = "password" THEN PassNext ELSE UNCHANGED passVars
  /\ IF algorithm = "lzf" THEN LzfNext ELSE UNCHANGED lzfVars
  /\ IF algorithm = "url" THEN UrlNext ELSE UNCHANGED urlVars
  /\ IF algorithm = "optparse" THEN OptNext ELSE UNCHANGED optVars
  /\ IF algorithm = "bitset" THEN SetNext ELSE UNCHANGED setVars
  /\ IF algorithm = "httputil" THEN AcceptNext ELSE UNCHANGED acceptVars

AlgorithmsSpec ==
  AlgorithmsInit /\ [][AlgorithmsNext]_<<algorithm, primeVars, ironVars, passVars, lzfVars,
                                         urlVars, optVars, setVars, acceptVars>>
=============================================================================

------------------------------- MODULE OptParse -------------------------------
(***************************************************************************)
(* optparse/optparse.go: Parse, with the options that the program and      *)
(* Parse itself define, and what the same words complete to.  A turn of    *)
(* the loop of Parse is a step.                                            *)
(*                                                                         *)
(* An argument is a flag or a word (a lone "-" or "--" is a word); it      *)
(* converts to a number (an int, a float or a duration) or does not.       *)
(***************************************************************************)
EXTENDS Integers, SequencesExt, FiniteSets

CONSTANTS
  Flags,      \* arguments that begin with "-" or "--" and go on
  Words,      \* other arguments
  Numeric,    \* the arguments of either kind that convert to a number
  Empty,      \* the empty string: no flag, no halting word
  Added,      \* the options that Parse adds: help, version
  Tables,     \* the options a program defines, in order
  Halts,      \* what its calls of HaltFlagParsing set: [on, n, word]
  MaxArgs

Options == [short : STRING, long : STRING, kind : {"bool", "number", "string"},
            hidden : BOOLEAN, required : BOOLEAN]

ASSUME OptAssumption ==
  /\ Added \in Seq(Options) /\ Tables \subseteq Seq(Options)
  /\ Halts \subseteq [on : BOOLEAN, n : Nat, word : STRING] /\ MaxArgs \in Nat
  /\ \A h \in Halts : h.on => h.n > 0 \/ h.word # Empty

VARIABLES
  options,    \* the table: [short, long, kind, hidden, required], newest last
  set,        \* for each option its value, <<>> as long as it is not defined
  halt,
  args,       \* without the program's name
  optStage,   \* "new", "loop", "check", and the ends: "done", "exit"
  idx, addNext, remainder

optVars == <<options, set, halt, args, optStage, idx, addNext, remainder>>

OptInit ==
  /\ options \in Tables
  /\ halt \in Halts
  /\ args \in BoundedSeq(Flags \cup Words, MaxArgs)
  /\ optStage = "new"
  /\ set = <<>> /\ idx = 1 /\ addNext = FALSE /\ remainder = <<>>

\* The option of a flag in long2options or short2options, 0 without one: of two options
\* with the same flag, the later one.
Of(flag) == Max({0} \cup {i \in DOMAIN options : flag \in {options[i].long, options[i].short}})

\* Slip: options without a value have one too.
LabelVisible(o) == ~ o.hidden

\* newOpt gives a label to visible options that take a value.
Label(o) == o.kind # "bool" /\ ~ o.hidden

\* What happens before the loop; with no argument Parse returns.
Start ==
  /\ optStage = "new"
  /\ options' = options \o Added
  /\ set' = [i \in DOMAIN options' |-> <<>>]
  /\ optStage' = IF args = <<>> THEN "done" ELSE "loop"
  /\ UNCHANGED <<halt, args, idx, addNext, remainder>>

arg == args[idx]
op == options[Of(arg)]

\* Go on behind the next k arguments.
Advance(k) ==
  /\ idx' = idx + k
  /\ optStage' = IF idx + k > Len(args) THEN "check" ELSE "loop"
  /\ UNCHANGED <<options, halt, args>>

Exit ==
  /\ optStage' = "exit"
  /\ UNCHANGED <<options, set, halt, args, idx, addNext, remainder>>

\* Slip: halting is noticed one word late.
HaltsAfter(word, rest) == halt.on /\ (word = halt.word \/ Len(rest) > halt.n)

\* haltFlagParsing (492-498): Empty is the word when only a number was given.
HaltsAt(word, rest) == halt.on /\ (word = halt.word \/ Len(rest) = halt.n)

TakeRest ==
  /\ optStage = "loop" /\ addNext
  /\ remainder' = Append(remainder, arg)
  /\ Advance(1)
  /\ UNCHANGED <<set, addNext>>

TakeWord ==
  /\ optStage = "loop" /\ ~ addNext /\ arg \notin Flags
  /\ remainder' = Append(remainder, arg)
  /\ addNext' = HaltsAt(arg, remainder')
  /\ Advance(1)
  /\ UNCHANGED set

AtFlag == optStage = "loop" /\ ~ addNext /\ arg \in Flags

NoSuchOption == AtFlag /\ Of(arg) = 0 /\ Exit

\* The usage or the version is printed.
IsAdded == op.kind = "bool" /\ \E i \in DOMAIN Added : op.long = Added[i].long
ShowAdded == AtFlag /\ Of(arg) # 0 /\ IsAdded /\ Exit

SetBool ==
  /\ AtFlag /\ Of(arg) # 0 /\ op.kind = "bool" /\ ~ IsAdded
  /\ set' = [set EXCEPT ![Of(arg)] = <<TRUE>>]
  /\ Advance(1)
  /\ UNCHANGED <<addNext, remainder>>

\* The next argument is the value, whatever it looks like.
SetValue ==
  /\ AtFlag /\ Of(arg) # 0 /\ op.kind # "bool"
  /\ IF idx = Len(args) \/ (op.kind = "number" /\ args[idx + 1] \notin Numeric) THEN Exit
     ELSE /\ set' = [set EXCEPT ![Of(arg)] = <<args[idx + 1]>>]
          /\ Advance(2)
          /\ UNCHANGED <<addNext, remainder>>

\* The options that are required (575-579).
Check ==
  /\ optStage = "check"
  /\ optStage' = IF \E i \in DOMAIN options : options[i].required /\ set[i] = <<>>
                 THEN "exit" ELSE "done"
  /\ UNCHANGED <<options, set, halt, args, idx, addNext, remainder>>

OptNext ==
  \/ Start \/ TakeRest \/ TakeWord \/ NoSuchOption
  \/ ShowAdded \/ SetBool \/ SetValue \/ Check

OptSpec == OptInit /\ [][OptNext]_optVars

----------------------------------------------------------------------------
(* Completion of a new word behind the arguments *)

\* Completion gives up.
GivesUp(s, word) ==
  halt.on /\ IF halt.word # Empty THEN word = halt.word ELSE Len(args) - s.opts = halt.n

Scanned(s, word) ==
  IF s.skip THEN [s EXCEPT !.skip = FALSE, !.opts = @ + 1]
  ELSE IF word \notin Flags
  THEN [s EXCEPT !.words = Append(@, word), !.halted = @ \/ GivesUp(s, word)]
  ELSE IF Of(word) = 0 THEN [s EXCEPT !.opts = @ + 1]
  ELSE [s EXCEPT !.opts = @ + 1,
                 !.long = @ \cup {options[Of(word)].long},
                 !.short = @ \cup {options[Of(word)].short},
                 !.skip = Label(options[Of(word)])]

\* The scan of the words: which are arguments, which flags were seen, and whether it gave up.
Scan ==
  LET scan[m \in 0..Len(args)] ==
        IF m = 0 THEN [skip |-> FALSE, words |-> <<>>, opts |-> 0, halted |-> FALSE,
                       long |-> {}, short |-> {}]
        ELSE Scanned(scan[m - 1], args[m])
  IN  scan
ScanWords == Scan[Len(args)]

\* The last word is a flag that takes a value: the value is completed.
AfterFlag ==
  args # <<>> /\ LET last == Last(args)
                 IN  last \in Flags /\ Of(last) # 0 /\ Label(options[Of(last)])

\* The flags that are offered.
FlagsOffered ==
  LET seen == ScanWords
      fresh == {i \in DOMAIN options :
                  ~ (\/ options[i].long \in seen.long
                     \/ options[i].short \in seen.short
                     \/ options[i].hidden)}
  IN  IF AfterFlag THEN {} ELSE {f \in Flags : Of(f) \in fresh}

----------------------------------------------------------------------------
(* Properties *)

\* The parser raises an error when an option that is required is not specified
\* (optparse.go:268): what Parse returns from without exit has them all.
RequiredRaised ==
  optStage = "done" => \A i \in DOMAIN options : options[i].required => set[i] # <<>>

Kinds == {"flag", "value", "word"}
Valued(i) == options[i].kind # "bool"

\* One reading k of the arguments as flags, values and words: how many words there are up to j,
\* whether j is behind the word that halts the parsing, the flags that set an option and what
\* it is set to.
WordsTo(k, j) == Cardinality({i \in 1..j : k[i] = "word"})
Halted(k, j) == \E i \in 1..j - 1 : /\ k[i] = "word" /\ halt.on
                                    /\ args[i] = halt.word \/ WordsTo(k, i) = halt.n
Uses(k, i) == {j \in DOMAIN args : k[j] = "flag" /\ Of(args[j]) = i}
Given(k, i) == IF Uses(k, i) = {} THEN <<>>
               ELSE IF Valued(i) THEN <<args[Max(Uses(k, i)) + 1]>> ELSE <<TRUE>>

Fits(k, j) ==
  /\ k[j] = "flag" => args[j] \in Flags /\ Of(args[j]) # 0 /\ ~ Halted(k, j)
  /\ k[j] = "word" => Halted(k, j) \/ args[j] \notin Flags
  /\ k[j] = "value" <=> j > 1 /\ k[j - 1] = "flag" /\ Valued(Of(args[j - 1]))

Reading(k) ==
  /\ \A j \in DOMAIN args : Fits(k, j)
  /\ remainder = [w \in 1..WordsTo(k, Len(args)) |->
                    args[CHOOSE j \in DOMAIN args : k[j] = "word" /\ WordsTo(k, j) = w]]
  /\ set = [i \in DOMAIN options |-> Given(k, i)]

\* When Parse returns, the arguments read as flags with their values and, in order, the words
\* of the remainder, in one way: every option has the value behind its last flag, and nothing
\* behind the word that halts the parsing is a flag.  No option that is required is missing,
\* if there are arguments.
ParsedRight ==
  optStage = "done" /\ args # <<>> =>
    /\ RequiredRaised
    /\ \E k \in [DOMAIN args -> Kinds] : Reading(k)

\* A line that Parse takes is completed as Parse reads it: completion gives up when the
\* parsing of flags was halted; else it passes on the words of the remainder, and offers the
\* flags of the visible options that are not set.
\* Not so behind a hidden option with a value, with a halt by number, with a value that looks
\* like a flag at the end, or when an option was used that shares a flag, or the lack of one,
\* with another.
CompletionAgrees ==
  LET used == {i \in DOMAIN options : set[i] # <<>>}
      flags(i) == {options[i].long, options[i].short}
      alone(i) == \A j \in DOMAIN options \ {i} : flags(i) \cap flags(j) = {}
  IN  /\ optStage = "done" /\ args # <<>>
      /\ \A i \in used : ~ options[i].hidden \/ ~ Valued(i)
      /\ halt.on => halt.n = 0
      => /\ ScanWords.halted = addNext
         /\ ~ addNext => ScanWords.words = remainder
         /\ ~ addNext /\ ~ AfterFlag /\ (\A i \in used : alone(i)) =>
              FlagsOffered = {f \in Flags : /\ Of(f) # 0 /\ ~ options[Of(f)].hidden
                                            /\ Of(f) \notin used}
=============================================================================

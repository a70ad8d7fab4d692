----------------------------- MODULE GetOptLong -----------------------------
(***************************************************************************)
(* The command line parser both programs use (lib/pimc/unix/GetOptLong),   *)
(* on top of getopt_long(3).                                               *)
(*                                                                         *)
(* An element of argv is an option together with its argument, or a word   *)
(* that is no option.  Codes are integers as in the code: the character of *)
(* a short option, and minus its position in ois for a long one.  "--" and *)
(* abbreviated long options are left out.                                  *)
(***************************************************************************)
EXTENDS Integers, Sequences, FiniteSets

Seqs == INSTANCE SequencesExt

CONSTANTS
  NoArg,       \* the argument of an option given without one
  OptionWord   \* how an option reads when it is taken for a plain word

VARIABLES
  ois,         \* the options of the program, in the order they were added
  argv,        \* the command line; never changes
  optind,      \* the element getopt_long() looks at next
  nonOptions,  \* the words getopt_long() has moved behind the options
  flagValue,   \* OptionInfo::flagValue, by id
  values,      \* OptionInfo::values, by id
  positional,  \* GetOptLongResult::positional()
  parse        \* "args", "result", "help", "error", "fatal"

golVars == <<ois, argv, optind, nonOptions, flagValue, values, positional, parse>>

QuestionMark == 63
Colon == 58
LongOnly == 0
HelpId == "UINT_MAX"
-----------------------------------------------------------------------------
(***************************************************************************)
(* The table of options                                                    *)
(***************************************************************************)

(* addOption(): the table with one option more; long is "" for none.       *)
addOption(table, id, short, long, isFlag, isOptional, multiple) ==
  Append(table, [id |-> id, shortOpt |-> short, longOpt |-> long,
                 flag |-> isFlag, optional |-> isOptional, multiple |-> multiple])

(* The constructor adds the help option: the only flag that is multiple.   *)
GetOptLong == addOption(<< >>, HelpId, 104, "help", TRUE, TRUE, TRUE)

flag(table, id, short, long) == addOption(table, id, short, long, TRUE, TRUE, FALSE)

optional(table, id, short, long) == addOption(table, id, short, long, FALSE, TRUE, FALSE)

isHelp(oi) == oi.flag /\ oi.multiple

(* addOption() refuses two options with one id, short or long name.        *)
NoDuplicates(table) ==
  \A j, k \in DOMAIN table : j # k =>
    /\ table[j].id # table[k].id
    /\ table[j].shortOpt # LongOnly => table[j].shortOpt # table[k].shortOpt
    /\ table[j].longOpt # "" => table[j].longOpt # table[k].longOpt

(* optMap: the options a code stands for, one at most.                     *)
optMap(c) ==
  { k \in DOMAIN ois : \/ ois[k].shortOpt # LongOnly /\ ois[k].shortOpt = c
                       \/ ois[k].longOpt # "" /\ c = -k }

Ids == { ois[k].id : k \in DOMAIN ois }
-----------------------------------------------------------------------------
(***************************************************************************)
(* getopt_long(3) with the leading ':' the table asks for                  *)
(***************************************************************************)

(* What it returns for an option element: the code c, or ':' for a missing *)
(* argument and '?' for an option it does not know or one with an argument *)
(* it does not take; optopt and optarg as the code reads them.             *)
getopt_long(e) ==
  LET named == { k \in DOMAIN ois :
                   IF e.kind = "short"
                   THEN ois[k].shortOpt = e.short
                   ELSE ois[k].longOpt = e.long }
      Code(k) == IF e.kind = "short" THEN e.short ELSE -k
      k0 == CHOOSE k \in named : TRUE
  IN  CASE named = {} ->
             [c |-> QuestionMark, optopt |-> IF e.kind = "short" THEN e.short ELSE 0]
        [] named # {} /\ ois[k0].flag /\ e.arg # NoArg ->
             [c |-> QuestionMark, optopt |-> Code(k0)]
        [] named # {} /\ ~ois[k0].flag /\ e.arg = NoArg ->
             [c |-> Colon, optopt |-> Code(k0)]
        [] OTHER -> [c |-> Code(k0), optopt |-> 0]

(* The words of the elements from the j-th on, as they stand.              *)
Words(j) ==
  Seqs!FlattenSeq([k \in 1 .. Len(argv) - j + 1 |->
    LET e == argv[j + k - 1] IN
      IF e.kind = "word" THEN << e.arg >>
      ELSE IF e.arg = NoArg THEN << OptionWord >> ELSE << OptionWord, e.arg >>])

(* A word is moved behind the options.                                     *)
SkipWord ==
  /\ parse = "args"
  /\ optind <= Len(argv)
  /\ argv[optind].kind = "word"
  /\ nonOptions' = Append(nonOptions, argv[optind].arg)
  /\ optind' = optind + 1
  /\ UNCHANGED <<ois, argv, flagValue, values, positional, parse>>
-----------------------------------------------------------------------------
(***************************************************************************)
(* args()                                                                  *)
(***************************************************************************)

(* getopt_long() at an option element, with what it returns.               *)
AtOption(c) ==
  /\ parse = "args"
  /\ optind <= Len(argv)
  /\ argv[optind].kind # "word"
  /\ c = getopt_long(argv[optind]).c

(* checkRequired(): the option must be given and is not.                   *)
checkRequired(oi) == ~oi.optional /\ values[oi.id] = << >>

(* The loop over the arguments is left: checkRequired() on every option,   *)
(* and what is left of argv becomes positional.                            *)
Leave(rest) ==
  IF \E k \in DOMAIN ois : checkRequired(ois[k])
  THEN parse' = "error" /\ UNCHANGED positional
  ELSE parse' = "result" /\ positional' = rest

(* getopt_long() returns -1 at the end: optind stands before the words it  *)
(* has moved to the end of argv.                                           *)
EndOfArguments ==
  /\ parse = "args"
  /\ optind > Len(argv)
  /\ Leave(nonOptions)
  /\ UNCHANGED <<ois, argv, optind, nonOptions, flagValue, values>>

(* It also returns -1 for the long option with that code, the first of the *)
(* table.  The words moved so far stand before optind, what follows is     *)
(* taken as it stands.                                                     *)
OptionTakenForEnd ==
  /\ AtOption(-1)
  /\ Leave(Words(optind + 1))
  /\ optind' = optind + 1
  /\ UNCHANGED <<ois, argv, nonOptions, flagValue, values>>

(* ':' with a known optopt: requiresArg() raises CommandLineError, with an *)
(* unknown one the fatal GetOptLongError is raised.                        *)
MissingArgument ==
  /\ AtOption(Colon)
  /\ parse' = IF optMap(getopt_long(argv[optind]).optopt) # {} THEN "error" ELSE "fatal"
  /\ UNCHANGED <<ois, argv, optind, nonOptions, flagValue, values, positional>>

Unrecognized ==
  /\ AtOption(QuestionMark)
  /\ parse' = "error"
  /\ UNCHANGED <<ois, argv, optind, nonOptions, flagValue, values, positional>>

(* A setValue() that lets the last value of an option win.                 *)
SetValueLastWins(oi, value) ==
  IF oi.flag
  THEN /\ flagValue' = [flagValue EXCEPT ![oi.id] = TRUE]
       /\ UNCHANGED <<values, parse>>
  ELSE /\ values' = [values EXCEPT ![oi.id] = << value >>]
       /\ UNCHANGED <<flagValue, parse>>

(* setValue(): a second value of an option that is not multiple is an      *)
(* error, a repeated flag is not.                                          *)
setValue(oi, value) ==
  IF oi.flag
  THEN /\ flagValue' = [flagValue EXCEPT ![oi.id] = TRUE]
       /\ UNCHANGED <<values, parse>>
  ELSE IF values[oi.id] # << >> /\ ~oi.multiple
  THEN /\ parse' = "error"
       /\ UNCHANGED <<flagValue, values>>
  ELSE /\ values' = [values EXCEPT ![oi.id] = Append(@, value)]
       /\ UNCHANGED <<flagValue, parse>>

(* showHelp() exits the program; a code that is not in optMap is fatal.    *)
Option(c) ==
  /\ AtOption(c)
  /\ c \notin {-1, Colon, QuestionMark}
  /\ IF optMap(c) = {}
     THEN parse' = "fatal" /\ UNCHANGED <<flagValue, values>>
     ELSE \E k \in optMap(c) :
            IF isHelp(ois[k])
            THEN parse' = "help" /\ UNCHANGED <<flagValue, values>>
            ELSE setValue(ois[k], argv[optind].arg)
  /\ optind' = optind + 1
  /\ UNCHANGED <<ois, argv, nonOptions, positional>>

Codes == { ois[k].shortOpt : k \in DOMAIN ois } \cup { -k : k \in DOMAIN ois }

(* A command line, as the shell hands it over: an option has a name, which *)
(* is no NUL for a short one and not empty for a long one.                 *)
IsCommandLine(line) ==
  /\ line \in Seq({ line[j] : j \in DOMAIN line })
  /\ \A j \in DOMAIN line :
       /\ line[j].kind \in {"word", "short", "long"}
       /\ line[j].kind = "short" => line[j].short \in Nat \ {LongOnly}
       /\ line[j].kind = "long" => line[j].long # ""

GolInit(table, commandLine) ==
  /\ ois = table
  /\ argv = commandLine
  /\ optind = 1
  /\ nonOptions = << >>
  /\ flagValue = [id \in Ids |-> FALSE]
  /\ values = [id \in Ids |-> << >>]
  /\ positional = << >>
  /\ parse = IF NoDuplicates(table) THEN "args" ELSE "fatal"

GolNext ==
  \/ SkipWord
  \/ EndOfArguments
  \/ OptionTakenForEnd
  \/ MissingArgument
  \/ Unrecognized
  \/ \E c \in Codes : Option(c)
-----------------------------------------------------------------------------
(***************************************************************************)
(* Properties                                                              *)
(***************************************************************************)

(* The option an element names, by its position in the table; {} if none.  *)
Named(e) ==
  { k \in DOMAIN ois : \/ e.kind = "short" /\ ois[k].shortOpt = e.short
                       \/ e.kind = "long" /\ ois[k].longOpt = e.long }

(* An element the table cannot make sense of.                              *)
Malformed(e) ==
  /\ e.kind # "word"
  /\ \A k \in Named(e) : ois[k].flag # (e.arg = NoArg)

(* The elements before the first --help, the end as the parser sees it.    *)
Seen ==
  { j \in DOMAIN argv :
      ~\E k \in 1 .. j : argv[k].kind = "long" /\ argv[k].long = "help" }

Given(id) == { j \in Seen : \E k \in Named(argv[j]) : ois[k].id = id }

(* The words among the elements before the j-th.                           *)
WordsBefore(j) == { i \in DOMAIN argv : i < j /\ argv[i].kind = "word" }

(* What args() hands to the program is what the command line says: every   *)
(* flag that is set was given and conversely, every option has exactly the *)
(* one argument it was given, wherever it stands among the words, the      *)
(* words are the positional parameters in their order, and nothing that is *)
(* unknown, incomplete or given twice gets that far (GetOptLong.cpp:       *)
(* 380-441).  The elements from a --help on are the exception: they stand  *)
(* as they are, and the words before them are lost.                        *)
CommandLineHonoured ==
  /\ parse # "fatal"
  /\ parse = "result" =>
       /\ \A j \in Seen : ~Malformed(argv[j]) /\ ~\E k \in Named(argv[j]) : isHelp(ois[k])
       /\ \A k \in DOMAIN ois :
            LET id == ois[k].id IN
              /\ flagValue[id] <=> ois[k].flag /\ Given(id) # {}
              /\ ~ois[k].flag =>
                   /\ Given(id) = {} => values[id] = << >>
                   /\ \A j \in Given(id) : Given(id) = {j} /\ values[id] = << argv[j].arg >>
       /\ IF Seen = DOMAIN argv
          THEN /\ Len(positional) = Cardinality(WordsBefore(Len(argv) + 1))
               /\ \A j \in WordsBefore(Len(argv) + 1) :
                    positional[Cardinality(WordsBefore(j)) + 1] = argv[j].arg
          ELSE \A n \in 1 .. Len(positional) : positional[n] \in
                 {OptionWord} \cup { argv[j].arg : j \in DOMAIN argv \ Seen }

(* The documented meaning of the option: "Show this message and exit"      *)
(* (GetOptLong.cpp:333).  A program that was given --help goes no further. *)
HelpAlwaysShown == parse = "result" => Seen = DOMAIN argv
=============================================================================

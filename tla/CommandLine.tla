----------------------------- MODULE CommandLine -----------------------------
(***************************************************************************)
(* The command line of mqtt-client-cli as cxxopts reads it, one action for *)
(* each turn of OptionParser::parse.                                       *)
(*                                                                         *)
(* An argument is a record: shape is what option_matcher makes of it       *)
(*   group   -abc, letters a, b, c; after[i]: what follows the i-th letter *)
(*   long    --name, or --name=value if given                              *)
(*   dashes  --         bad  any other text behind a dash                  *)
(*   word    anything else                                                 *)
(* and text what it says where it is taken for the value of an option.  A  *)
(* text is the pieces between its commas, the number it is in the eyes of  *)
(* integer_pattern (no digits: none), and a truth value or "neither".      *)
(***************************************************************************)
EXTENDS Integers, Sequences

VARIABLES
    argv,       \* the arguments behind the program's name
    current,    \* the argument to be parsed,
    letter,     \* and the letter, if it is a group of them
    parsed,     \* m_parsed: for each option what OptionValue keeps of it
    phase       \* of main; "parse", "parsed" and "stopped" are of this module

parserVars == <<argv, current, letter, parsed, phase>>

NoNumber == [negative |-> FALSE, hex |-> FALSE, digits |-> <<>>]
Text(word) == [pieces |-> <<word>>, number |-> NoNumber, truth |-> "neither"]
Bool(truth) == [pieces |-> <<truth>>, number |-> NoNumber, truth |-> truth]
Number(digits) == [pieces |-> <<"number">>, truth |-> "neither",
                   number |-> [NoNumber EXCEPT !.digits = digits]]

-----------------------------------------------------------------------------
(* The options main() adds. *)

LongName == [H |-> "hostname", P |-> "port", W |-> "will", T |-> "willtopic",
             t |-> "topic", s |-> "subscribe", p |-> "publish", r |-> "retain",
             h |-> "help"]
Options == DOMAIN LongName

TypeOf == [H |-> "string", P |-> "uint16_t", W |-> "string", T |-> "string",
           t |-> "vector", s |-> "bool", p |-> "vector", r |-> "bool",
           h |-> "bool"]

\* set_default_and_implicit: a flag that is given is true, any other is false.
HasImplicit(o) == TypeOf[o] = "bool"
HasDefault(o) == HasImplicit(o) \/ o \in {"H", "P"}
DefaultValue(o) == CASE o = "H" -> Text("localhost")
                     [] o = "P" -> Number(<<1, 8, 8, 3>>)
                     [] OTHER   -> Bool("false")
ImplicitValue == Bool("true")

\* m_options: an option is found by either name.
Find(name) == {o \in Options : name \in {o, LongName[o]}}

-----------------------------------------------------------------------------
(* Values.  A set without an element stands for the exception. *)

UInt16 == 65536

\* integer_parser<uint16_t>: each digit must be one of the base, and must not
\* make the number smaller; a minus sign is refused at the end.
integer_parser(number) ==
    LET base == IF number.hex THEN 16 ELSE 10
        Next16(result, digit) == (result * base + digit) % UInt16
        read[i \in 0 .. Len(number.digits)] ==
            IF i = 0 THEN {0}
            ELSE {Next16(result, number.digits[i]) : result \in
                    {r \in read[i - 1] : /\ number.digits[i] < base
                                         /\ r <= Next16(r, number.digits[i])}}
    IN  IF number.digits = <<>> \/ number.negative THEN {}
        ELSE read[Len(number.digits)]

\* getline() up to each comma: what follows the last one is lost if empty.
Tokens(text) ==
    LET n == Len(text.pieces)
    IN  IF text.pieces[n] = "" THEN SubSeq(text.pieces, 1, n - 1) ELSE text.pieces

\* The last -p or -t counts, not all of them.
parse_valueMutant(o, text, old) ==
    CASE TypeOf[o] = "string"   -> {<<text>>}
      [] TypeOf[o] = "vector"   -> {Tokens(text)}
      [] TypeOf[o] = "uint16_t" -> {<<n>> : n \in integer_parser(text.number)}
      [] TypeOf[o] = "bool"     -> {<<b>> : b \in {text.truth} \ {"neither"}}

\* The values of an option that had the values old: only a vector keeps them.
parse_value(o, text, old) ==
    CASE TypeOf[o] = "string"   -> {<<text>>}
      [] TypeOf[o] = "vector"   -> {old \o Tokens(text)}
      [] TypeOf[o] = "uint16_t" -> {<<n>> : n \in integer_parser(text.number)}
      [] TypeOf[o] = "bool"     -> {<<b>> : b \in {text.truth} \ {"neither"}}

\* OptionValue: the number of times the option was given; whether m_value points
\* to a value; the value.
NoValue == [count |-> 0, stored |-> FALSE, value |-> <<>>]

Count(o) == parsed[o].count
As(o) == parsed[o].value[1]

ParserInit == /\ current = 1 /\ letter = 1
              /\ parsed = [o \in Options |-> NoValue]
              /\ phase = "parse"

-----------------------------------------------------------------------------
(* OptionParser::parse. *)

Argument == argv[current]
Parsing(shape) == /\ phase = "parse" /\ current <= Len(argv)
                  /\ Argument.shape = shape

\* An exception: main prints it and returns.
Throws == phase' = "stopped" /\ UNCHANGED <<argv, current, letter, parsed>>

GoTo(argument, l) == current' = argument /\ letter' = l /\ UNCHANGED <<argv, phase>>

\* parse_option, and on to another argument or letter.
parse_option(o, text, argument, l) ==
    LET values == parse_value(o, text, parsed[o].value) IN
    \/ values = {} /\ Throws
    \/ \E value \in values :
          /\ parsed' = [parsed EXCEPT ![o] = [count |-> @.count + 1,
                                              stored |-> TRUE, value |-> value]]
          /\ GoTo(argument, l)

\* The value of an option that has none is the next argument, whatever it is.
checked_parse_arg(o) ==
    IF HasImplicit(o) THEN parse_option(o, ImplicitValue, current + 1, 1)
    ELSE IF current = Len(argv) THEN Throws
    ELSE parse_option(o, argv[current + 1].text, current + 2, 1)

\* The letters behind one that takes a value are parsed once more.
ParseLetterMutant ==
    /\ Parsing("group")
    /\ LET found == Find(Argument.letters[letter]) IN
       \/ found = {} /\ Throws
       \/ \E o \in found :
             IF letter = Len(Argument.letters) THEN checked_parse_arg(o)
             ELSE IF HasImplicit(o)
                  THEN parse_option(o, ImplicitValue, current, letter + 1)
                  ELSE parse_option(o, Argument.after[letter], current, letter + 1)

ParseLetter ==
    /\ Parsing("group")
    /\ LET found == Find(Argument.letters[letter]) IN
       \/ found = {} /\ Throws
       \/ \E o \in found :
             IF letter = Len(Argument.letters) THEN checked_parse_arg(o)
             ELSE IF HasImplicit(o)
                  THEN parse_option(o, ImplicitValue, current, letter + 1)
                  ELSE parse_option(o, Argument.after[letter], current + 1, 1)

ParseLong ==
    /\ Parsing("long")
    /\ LET found == Find(Argument.name) IN
       \/ found = {} /\ Throws
       \/ \E o \in found :
             IF Argument.given THEN parse_option(o, Argument.value, current + 1, 1)
             ELSE checked_parse_arg(o)

\* No option is positional: a word is kept as unmatched, and never read.
SkipWord == Parsing("word") /\ GoTo(current + 1, 1) /\ UNCHANGED parsed

\* So is all that follows two dashes.
SkipRest == Parsing("dashes") /\ GoTo(Len(argv) + 1, 1) /\ UNCHANGED parsed

RejectArgument == Parsing("bad") /\ Throws

\* The default replaces what was given.
ParseDefaultsMutant ==
    /\ phase = "parse" /\ current > Len(argv)
    /\ phase' = "parsed"
    /\ parsed' = [o \in Options |->
          IF HasDefault(o)
          THEN [count |-> Count(o), stored |-> TRUE,
                value |-> CHOOSE v \in parse_value(o, DefaultValue(o), <<>>) : TRUE]
          ELSE parsed[o]]
    /\ UNCHANGED <<argv, current, letter>>

\* The loop over m_options.
ParseDefaults ==
    /\ phase = "parse" /\ current > Len(argv)
    /\ phase' = "parsed"
    /\ parsed' = [o \in Options |->
          IF HasDefault(o) /\ Count(o) = 0
          THEN [count |-> 0, stored |-> TRUE,
                value |-> CHOOSE v \in parse_value(o, DefaultValue(o), <<>>) : TRUE]
          ELSE parsed[o]]
    /\ UNCHANGED <<argv, current, letter>>

Parse == \/ ParseLetter \/ ParseLong \/ SkipWord \/ SkipRest \/ RejectArgument
         \/ ParseDefaults

=============================================================================

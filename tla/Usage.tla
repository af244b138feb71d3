-------------------------------- MODULE Usage --------------------------------
(***************************************************************************)
(* What a command line of mqtt-client-cli says to its reader, however it   *)
(* is parsed: the ways to write an option, and what each of them gives.    *)
(*                                                                         *)
(* A unit is a word, or an option or a group of them with the text that    *)
(* belongs to the last one: the arguments it is made of, and its entries,  *)
(* each an option and its text.  What is not an option is "unknown".       *)
(***************************************************************************)
EXTENDS CommandLine, SequencesExt

Texts == [pieces : Seq(STRING), truth : {"true", "false", "neither"},
          number : [negative : BOOLEAN, hex : BOOLEAN, digits : Seq(Nat)]]
Arguments == [shape : {"group", "long", "dashes", "bad", "word"},
              letters : Seq(STRING), after : Seq(Texts),
              name : STRING, given : BOOLEAN, value : Texts, text : Texts]
Entries == [option : Options \cup {"unknown"}, text : Texts]
Units == [args : Seq(Arguments), says : Seq(Entries)]

IsFlag(entry) == /\ entry.option \in Options /\ HasImplicit(entry.option)
                 /\ entry.text = Bool("true")
Takes(entry) == entry.option \in Options /\ ~HasImplicit(entry.option)
Unknown(entry) == entry.option = "unknown"

\* The first n letters of a group are flags.
Flags(unit, n) ==
    \A i \in 1 .. n : /\ unit.says[i].option \in Find(unit.args[1].letters[i])
                      /\ IsFlag(unit.says[i])

\* The last option is a flag, or its text is the next argument.
Completes(unit, entry) ==
    \/ IsFlag(entry) /\ Len(unit.args) = 1
    \/ Takes(entry) /\ Len(unit.args) = 2 /\ entry.text = unit.args[2].text

\* --name, --name text or --name=text
IsLong(unit) ==
    LET arg == unit.args[1]
        entry == unit.says[1]
    IN  /\ arg.shape = "long" /\ Len(unit.says) = 1
        /\ entry.option \in Find(arg.name)
        /\ IF arg.given THEN Len(unit.args) = 1 /\ entry.text = arg.value
           ELSE Completes(unit, entry)

\* -abc, -abc text or -abctext, with flags a and b
IsGroup(unit) ==
    LET arg == unit.args[1]
        n == Len(unit.says)
    IN  /\ arg.shape = "group" /\ n \in 1 .. Len(arg.letters)
        /\ Flags(unit, n - 1) /\ unit.says[n].option \in Find(arg.letters[n])
        /\ IF n < Len(arg.letters)
           THEN /\ Takes(unit.says[n]) /\ Len(unit.args) = 1
                /\ unit.says[n].text = arg.after[n]
           ELSE Completes(unit, unit.says[n])

IsWord(unit) ==
    unit.args[1].shape = "word" /\ Len(unit.args) = 1 /\ unit.says = <<>>

\* There is no such option.
IsWrong(unit) ==
    LET arg == unit.args[1]
        n == Len(unit.says)
    IN  /\ Len(unit.args) = 1 /\ n > 0 /\ Unknown(unit.says[n])
        /\ \/ arg.shape = "bad" /\ n = 1
           \/ arg.shape = "long" /\ n = 1 /\ Find(arg.name) = {}
           \/ /\ arg.shape = "group" /\ n <= Len(arg.letters)
              /\ Flags(unit, n - 1) /\ Find(arg.letters[n]) = {}

\* The text of the last option is missing.
IsMissing(unit) ==
    LET arg == unit.args[1]
        n == Len(unit.says)
    IN  /\ Len(unit.args) = 1 /\ n > 0 /\ Unknown(unit.says[n])
        /\ \/ /\ arg.shape = "long" /\ n = 1 /\ ~arg.given
              /\ \E o \in Find(arg.name) : ~HasImplicit(o)
           \/ /\ arg.shape = "group" /\ n = Len(arg.letters) /\ Flags(unit, n - 1)
              /\ \E o \in Find(arg.letters[n]) : ~HasImplicit(o)

\* -- and all that follows
IsRest(unit) == unit.args[1].shape = "dashes" /\ unit.says = <<>>

\* What a command line is made of, and what it ends with.
IsPiece(unit) ==
    /\ unit.args # <<>>
    /\ IsLong(unit) \/ IsGroup(unit) \/ IsWord(unit) \/ IsWrong(unit)
IsEnding(unit) ==
    \/ unit.args = <<>> /\ unit.says = <<>>
    \/ unit.args # <<>> /\ (IsMissing(unit) \/ IsRest(unit))

-----------------------------------------------------------------------------
(* A command line of these units. *)

ArgsIn(units) == [i \in DOMAIN units |-> units[i].args]
SaysIn(units) == [i \in DOMAIN units |-> units[i].says]

\* The texts these entries give for option o, in order.
TextsIn(entries, o) ==
    FlattenSeq([i \in DOMAIN entries |-> IF entries[i].option = o
                                         THEN <<entries[i].text>> ELSE <<>>])

\* The number a text is for its reader, however large.
BaseOf(text) == IF text.number.hex THEN 16 ELSE 10
Meant(text) ==
    LET digits == text.number.digits
        value[i \in 0 .. Len(digits)] ==
            IF i = 0 THEN 0 ELSE BaseOf(text) * value[i - 1] + digits[i]
    IN  value[Len(digits)]
IsPort(text) ==
    /\ text.number.digits # <<>> /\ ~text.number.negative
    /\ \A i \in DOMAIN text.number.digits : text.number.digits[i] < BaseOf(text)
    /\ Meant(text) < UInt16

\* A text of -p or -t is a list, with commas between its items: a comma at its end
\* has no item behind it, and an empty text has no item.
Items(text) ==
    IF Last(text.pieces) = "" THEN Front(text.pieces) ELSE text.pieces
ItemsIn(texts) == FlattenSeq([i \in DOMAIN texts |-> Items(texts[i])])

=============================================================================

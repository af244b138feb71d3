-------------------------------- MODULE MCCli --------------------------------
(***************************************************************************)
(* Cli for TLC: the command lines of up to three of the pieces below.      *)
(***************************************************************************)
EXTENDS CliInvariant

CONSTANTS m1, m2, s1, s2, t1, t2

FirstMessages == <<m1, m2>>
FirstSubs == <<s1, s2>>
TopicOfCall == (s1 :> t1) @@ (s2 :> t2)
NoLimit == -1
Forever == [timeout |-> "none", select |-> TRUE]
OnlyForever == {Forever}

\* Arguments.
Arg(shape, word) ==
    [shape |-> shape, letters |-> <<>>, after |-> <<>>, name |-> "",
     given |-> FALSE, value |-> Text(""), text |-> Text(word)]
Word(text) == [Arg("word", "") EXCEPT !.text = text]
Group(letters, after) == [Arg("group", "-") EXCEPT !.letters = letters,
                                                   !.after = after]
Long(name) == [Arg("long", "--") EXCEPT !.name = name]
LongIs(name, text) == [Long(name) EXCEPT !.given = TRUE, !.value = text]

Unit(args, says) == [args |-> args, says |-> says]
Entry(o, text) == [option |-> o, text |-> text]
On == Bool("true")

Comma == [Text("a") EXCEPT !.pieces = <<"a", "c">>]
NoText == [Text("") EXCEPT !.pieces = <<"">>]
Port == Number(<<4, 2>>)
HexPort == [Number(<<2, 10>>) EXCEPT !.number.hex = TRUE]
LargePort == Number(<<9, 9, 9, 9, 9>>)
MinusPort == [Port EXCEPT !.number.negative = TRUE]
NotPort == Number(<<4, 33>>)

\* In order: -t x   -pb   --topic=y -rp a   --publish=a,c   -p ""   -s   -sh
\* --will w -T x   --retain=false   -P 42   -P42   -P 99999   --port=0x2A   --port=-42
\* -P 4x   -T -s (a text, not a flag)   word   --subscribe=x   -x   --wrong   ---
Pieces ==
    {<<Unit(<<Group(<<"t">>, <<>>), Word(Text("x"))>>, <<Entry("t", Text("x"))>>)>>,
     <<Unit(<<Group(<<"p", "b">>, <<Text("b")>>)>>, <<Entry("p", Text("b"))>>)>>,
     <<Unit(<<LongIs("topic", Text("y"))>>, <<Entry("t", Text("y"))>>),
       Unit(<<Group(<<"r", "p">>, <<Text("p")>>), Word(Text("a"))>>,
            <<Entry("r", On), Entry("p", Text("a"))>>)>>,
     <<Unit(<<LongIs("publish", Comma)>>, <<Entry("p", Comma)>>)>>,
     <<Unit(<<Group(<<"p">>, <<>>), Word(NoText)>>, <<Entry("p", NoText)>>)>>,
     <<Unit(<<Group(<<"s">>, <<>>)>>, <<Entry("s", On)>>)>>,
     <<Unit(<<Group(<<"s", "h">>, <<Text("h")>>)>>, <<Entry("s", On), Entry("h", On)>>)>>,
     <<Unit(<<Long("will"), Word(Text("w"))>>, <<Entry("W", Text("w"))>>),
       Unit(<<Group(<<"T">>, <<>>), Word(Text("x"))>>, <<Entry("T", Text("x"))>>)>>,
     <<Unit(<<LongIs("retain", Bool("false"))>>, <<Entry("r", Bool("false"))>>)>>,
     <<Unit(<<Group(<<"P">>, <<>>), Word(Port)>>, <<Entry("P", Port)>>)>>,
     <<Unit(<<Group(<<"P", "4", "2">>, <<Port, Number(<<2>>)>>)>>, <<Entry("P", Port)>>)>>,
     <<Unit(<<Group(<<"P">>, <<>>), Word(LargePort)>>, <<Entry("P", LargePort)>>)>>,
     <<Unit(<<LongIs("port", HexPort)>>, <<Entry("P", HexPort)>>)>>,
     <<Unit(<<LongIs("port", MinusPort)>>, <<Entry("P", MinusPort)>>)>>,
     <<Unit(<<Group(<<"P">>, <<>>), Word(NotPort)>>, <<Entry("P", NotPort)>>)>>,
     <<Unit(<<Group(<<"T">>, <<>>), Group(<<"s">>, <<>>)>>, <<Entry("T", Text("-"))>>)>>,
     <<Unit(<<Word(Text("word"))>>, <<>>)>>,
     <<Unit(<<LongIs("subscribe", Text("x"))>>, <<Entry("s", Text("x"))>>)>>,
     <<Unit(<<Group(<<"x">>, <<>>)>>, <<Entry("unknown", Text("x"))>>)>>,
     <<Unit(<<Long("wrong")>>, <<Entry("unknown", Text("wrong"))>>)>>,
     <<Unit(<<Arg("bad", "---")>>, <<Entry("unknown", Text("---"))>>)>>}

Nothing == Unit(<<>>, <<>>)
Dashes == Unit(<<Arg("dashes", "--"), Group(<<"t">>, <<>>), Word(Text("x"))>>, <<>>)
PortMissing == Unit(<<Group(<<"P">>, <<>>)>>, <<Entry("unknown", Text("missing"))>>)
SomeEndings == {Nothing, Dashes, PortMissing}

=============================================================================

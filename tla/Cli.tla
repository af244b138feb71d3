--------------------------------- MODULE Cli ---------------------------------
(***************************************************************************)
(* main.cpp: a command line is parsed, an MQTTClient is made of it, and    *)
(* the client publishes and ends, or subscribes and runs for ever.         *)
(*                                                                         *)
(* What main() does with the command line and what the client does with    *)
(* its calls meet in the number of messages and topics: the n-th publish() *)
(* is of the message MessageAt[n], the n-th subscribe() is SubAt[n].       *)
(* phase: parse and parsed, then built (there is a client), publish and    *)
(* loop (line 87), or subscribe and forever (line 67); stopped if main     *)
(* returned before it ran the client, exit if it did so afterwards.        *)
(***************************************************************************)
EXTENDS Usage, MQTTSystem

CONSTANTS
    Fragments,      \* pieces of a command line, each one or more units
    MaxFragments,   \* bound: pieces in one command line
    Endings,        \* the units that may follow them
    MessageAt,      \* the n-th message published, as the client's model has it
    SubAt           \* the n-th subscribe() call

ASSUME CliAssumption ==
    /\ MaxFragments \in Nat
    /\ \A fragment \in Fragments :
          fragment \in Seq(Units) /\ \A i \in DOMAIN fragment : IsPiece(fragment[i])
    /\ \A ending \in Endings : ending \in Units /\ IsEnding(ending)
    /\ MessageAt \in Seq(Messages) /\ SubAt \in Seq(Subs)
    /\ Messages = Range(MessageAt) /\ IsInjective(MessageAt)
    /\ Subs = Range(SubAt) /\ IsInjective(SubAt)
    /\ Len(MessageAt) = Len(SubAt)
    /\ MaxRetries < 0   \* main() leaves the default

VARIABLES
    typed,      \* history: the units of the command line
    config,     \* what the builder was told
    topics, messages,   \* the arguments of the calls to come
    next,       \* the call of publish() or subscribe() to come,
    calls       \* and the number of them

mainVars == <<typed, config, topics, messages, next, calls>>
cliVars == <<vars, parserVars, mainVars>>

NoConfig == [hostname |-> <<>>, port |-> 0, will |-> <<>>]

CliInit ==
    /\ Init /\ ParserInit
    /\ \E n \in 0 .. MaxFragments : \E fragments \in [1 .. n -> Fragments] :
          \E ending \in Endings : typed = FlattenSeq(fragments) \o <<ending>>
    /\ argv = FlattenSeq(ArgsIn(typed))
    /\ config = NoConfig /\ topics = <<>> /\ messages = <<>> /\ next = 1
    /\ calls = 0

-----------------------------------------------------------------------------
(* Up to the client. *)

Given(o) == Count(o) > 0
Flag(o) == As(o) = "true"

Stops == phase' = "stopped" /\ UNCHANGED <<argv, current, letter, parsed, mainVars>>

\* Nothing was given, help was asked for, or a will has no topic.
AsksForHelp == \/ \A o \in Options : ~Given(o)
               \/ Given("h")
               \/ Given("W") /\ ~Given("T")

PrintHelp == phase = "parsed" /\ AsksForHelp /\ Stops

\* The port depends on the default of the host name; the builder has one too.
BuilderPort == 1883
Build ==
    /\ phase = "parsed" /\ ~AsksForHelp
    /\ phase' = "built"
    /\ config' = [hostname |-> As("H"),
                  port |-> IF Given("P") \/ ~Given("H") THEN As("P")
                           ELSE BuilderPort,
                  will |-> IF Given("W")
                           THEN <<[topic |-> As("T"), payload |-> As("W"),
                                   retain |-> Flag("r")]>>
                           ELSE <<>>]
    /\ UNCHANGED <<argv, current, letter, parsed, typed, topics, messages, next,
                   calls>>

\* -s without a topic: as() of an option without a value throws.
NoTopic == phase = "built" /\ Flag("s") /\ ~parsed["t"].stored /\ Stops

\* Bound: topics of one command line.
Enough == Len(parsed["t"].value) \in 0 .. Len(SubAt)

StartSubscribing ==
    /\ phase = "built" /\ Flag("s") /\ parsed["t"].stored /\ Enough
    /\ phase' = "subscribe"
    /\ topics' = parsed["t"].value /\ calls' = Len(parsed["t"].value)
    /\ UNCHANGED <<argv, current, letter, parsed, typed, config, messages, next>>

SameLength == Len(parsed["p"].value) = Len(parsed["t"].value)

\* Neither -s nor -p, -p without a topic, or not as many of one as of the other.
NothingToDo ==
    /\ phase = "built" /\ ~Flag("s")
    /\ ~Given("p") \/ ~Given("t") \/ ~SameLength
    /\ Stops

StartPublishing ==
    /\ phase = "built" /\ ~Flag("s")
    /\ Given("p") /\ Given("t") /\ SameLength /\ Enough
    /\ phase' = "publish"
    /\ topics' = parsed["t"].value /\ calls' = Len(parsed["t"].value)
    /\ messages' = [i \in DOMAIN topics' |->
                      [topic |-> topics'[i], payload |-> parsed["p"].value[i],
                       retain |-> Flag("r")]]
    /\ UNCHANGED <<argv, current, letter, parsed, typed, config, next>>

-----------------------------------------------------------------------------
(* The client's calls. *)

Stay == UNCHANGED <<argv, current, letter, parsed, typed, config, topics, messages,
                    calls>>

\* From here on nothing reads the command line any more.
Forget == /\ argv' = <<>> /\ typed' = <<>> /\ current' = 1 /\ letter' = 1
          /\ parsed' = [o \in Options |-> NoValue]
          /\ config' = NoConfig /\ topics' = <<>> /\ messages' = <<>> /\ next' = 1
          /\ UNCHANGED calls

PublishNext ==
    /\ phase = "publish" /\ next <= calls
    /\ publish(MessageAt[next])
    /\ next' = next + 1
    /\ UNCHANGED phase /\ Stay

\* The last message is not published.
DisconnectMutant ==
    /\ phase = "publish" /\ next >= calls
    /\ disconnect
    /\ phase' = "loop" /\ Forget

Disconnect ==
    /\ phase = "publish" /\ next > calls
    /\ disconnect
    /\ phase' = "loop" /\ Forget

SubscribeNext ==
    /\ phase = "subscribe" /\ next <= calls
    /\ subscribe(SubAt[next])
    /\ next' = next + 1
    /\ UNCHANGED phase /\ Stay

Subscribed ==
    /\ phase = "subscribe" /\ next > calls
    /\ phase' = "forever" /\ Forget
    /\ UNCHANGED <<clientVars, tcpVars>>

\* EVERYTHING_DONE is not what main waits for.
LastStatusMutant == {"TIMEOUT", "THROWN"}

\* What ends the loop: its condition, or an exception that main catches.
LastStatus == IF phase = "loop" THEN {"EVERYTHING_DONE", "THROWN"} ELSE {"THROWN"}

MainWaits == UNCHANGED <<parserVars, mainVars>>

CallLoop ==
    /\ phase \in {"loop", "forever"} /\ ret \notin LastStatus
    /\ LoopCall
    /\ MainWaits

\* The destructors run and the process ends.
Exit ==
    /\ phase \in {"loop", "forever"} /\ pc = "out" /\ ret \in LastStatus
    /\ phase' = "exit"
    /\ UNCHANGED <<argv, current, letter, parsed, mainVars, clientVars, tcpVars>>

Main ==
    \/ /\ \/ Parse /\ UNCHANGED mainVars
          \/ PrintHelp \/ Build \/ NoTopic \/ StartSubscribing
          \/ NothingToDo \/ StartPublishing
       /\ UNCHANGED <<clientVars, tcpVars>>
    \/ PublishNext \/ Disconnect \/ SubscribeNext \/ Subscribed
    \/ CallLoop \/ Exit

\* The client, the connection and the broker, while main is inside loop().
InsideLoop == (Loop \/ RunTask \/ DelayElapses) /\ UNCHANGED brokerVars
Outside == \/ Network /\ UNCHANGED <<clientVars, brokerVars>>
           \/ BrokerStep /\ UNCHANGED clientVars

CliNext ==
    \/ Main /\ UNCHANGED brokerVars
    \/ InsideLoop /\ MainWaits
    \/ Outside /\ MainWaits

\* That of MQTTSystem, and main goes on.
CliFairness ==
    /\ WF_cliVars(Main /\ UNCHANGED brokerVars)
    /\ WF_cliVars(Loop /\ UNCHANGED brokerVars /\ MainWaits)
    /\ WF_cliVars(RunTask /\ UNCHANGED brokerVars /\ MainWaits)
    /\ WF_cliVars(DelayElapses /\ UNCHANGED brokerVars /\ MainWaits)
    /\ WF_cliVars(Establish /\ UNCHANGED <<clientVars, brokerVars>> /\ MainWaits)
    /\ WF_cliVars(Arrive /\ UNCHANGED <<clientVars, brokerVars>> /\ MainWaits)
    /\ WF_cliVars(Tick /\ UNCHANGED <<clientVars, brokerVars>> /\ MainWaits)
    /\ WF_cliVars(Take /\ UNCHANGED clientVars /\ MainWaits)
    /\ SF_cliVars(CheckConnectDone /\ UNCHANGED brokerVars /\ MainWaits)
    /\ SF_cliVars((SendAll \/ SendDisconnect) /\ UNCHANGED brokerVars /\ MainWaits)
    /\ SF_cliVars((BlockPoll \/ BlockIdle) /\ UNCHANGED brokerVars /\ MainWaits)

CliSpec == CliInit /\ [][CliNext]_cliVars /\ CliFairness

-----------------------------------------------------------------------------
(* What the user may count on. *)

\* The texts given for an option, in order.
Said == FlattenSeq(SaysIn(typed))
TextsOf(o) == TextsIn(Said, o)
LastText(o) == Last(TextsOf(o))
Says(o) == TextsOf(o) # <<>>
IsOn(o) == Says(o) /\ LastText(o).truth = "true"
ItemsOf(o) == ItemsIn(TextsOf(o))

\* The host, the port and the will are those the user gave last, whichever way
\* they are written, or the defaults; a number out of range is left open
\* (main.cpp:46-59).
ConfigAsGiven ==
    phase = "built" =>
        /\ config.hostname = IF Says("H") THEN LastText("H") ELSE Text("localhost")
        /\ IF Says("P")
           THEN IsPort(LastText("P")) => config.port = Meant(LastText("P"))
           ELSE config.port = 1883
        /\ config.will = IF Says("W")
                         THEN <<[topic |-> LastText("T"), payload |-> LastText("W"),
                                 retain |-> IsOn("r")]>>
                         ELSE <<>>

\* The n-th item that -p gives goes to the n-th item that -t gives, retained if -r
\* is on, and there are as many of one as of the other, however the options are
\* mixed on the command line and whichever texts are lists or empty
\* (main.cpp:71-85, cxxopts.h:1019-1025).
MessagesAsGiven ==
    phase = "publish" =>
        /\ Len(messages) = Len(ItemsOf("p")) /\ Len(messages) = Len(ItemsOf("t"))
        /\ \A i \in DOMAIN messages :
              messages[i] = [topic |-> ItemsOf("t")[i], payload |-> ItemsOf("p")[i],
                             retain |-> IsOn("r")]

\* What main is made for.
Sound ==
    /\ ~Says("h") /\ ~Says("unknown")
    /\ \A i \in DOMAIN TextsOf("P") : IsPort(TextsOf("P")[i])
    /\ \A o \in {"s", "r"} : \A i \in DOMAIN TextsOf(o) : TextsOf(o)[i].truth # "neither"
    /\ Says("W") => Says("T")
    /\ Says("t")
    /\ \/ IsOn("s")
       \/ Says("p") /\ Len(ItemsOf("p")) = Len(ItemsOf("t"))

\* None of these is refused, neither by the parser nor by main
\* (cxxopts.h:2231-2349, main.cpp:36-91).
SoundIsObeyed == phase = "stopped" => ~Sound

\* When main has ended and nothing has failed, the client has disconnected, and
\* what it was told to publish has reached the broker or is on its way there
\* (main.cpp:83-88).
ExitMeansSent ==
    phase = "exit" /\ disconnecting /\ faults = 0 =>
        /\ mDisconnected
        /\ \A n \in 1 .. calls :
              MessageAt[n] \in Range(received) \cup Range(MessagesOf(outbox))

\* The connection has ended, but EAGAIN is left in errno: recv() says that there
\* is no data yet (TcpUnix.cpp:131-134).
EofMissed == mSocket \in {"fin", "hup"} /\ again

\* A sound command line that publishes, no more than the model has messages for.
Publishes == /\ phase = "parse" /\ Sound /\ ~IsOn("s")
             /\ Len(ItemsOf("p")) <= Len(SubAt)

\* Such a command line is carried out and main ends, and so it does whenever it
\* publishes, after any fault in opening or using a connection; but not if it
\* never again notices that a connection has ended (main.cpp:36-88).
MainEnds ==
    \/ <>[]EofMissed
    \/ (Publishes \/ phase = "publish") ~> phase = "exit"

=============================================================================

--------------------------- MODULE Configuration ---------------------------
(***************************************************************************)
(* MQTTConfigBuilder, the MQTTConfig it builds, and the CONNECT packet the *)
(* client makes of it.                                                     *)
(***************************************************************************)
EXTENDS Encoding, FiniteSets

CONSTANTS
    Strings,     \* the strings the application sets
    Numbers,     \* the intervals in seconds it sets
    MaxOptions   \* bound: calls of setters that precede the first connection

EmptyString == [len |-> 0, val |-> "none"]
Wills == [topic : Strings, payload : Strings, retain : BOOLEAN]

ASSUME ConfigurationAssumption ==
    /\ Strings \subseteq [len : Nat, val : STRING]
    /\ Numbers \subseteq 0 .. TwoBytes - 1
    /\ MaxOptions \in Nat

VARIABLES
    mConfig,    \* the builder's, then the client's
    options,    \* number of setters called
    wrote       \* the CONNECT packet last written, or NotWritten

configVars == <<mConfig, options, wrote>>

\* The member initialisers of MQTTConfig; the will is a set of at most one.
DefaultConfig ==
    [will |-> {}, hostname |-> EmptyString, port |-> 1883,
     username |-> EmptyString, password |-> EmptyString,
     clientID |-> EmptyString, cleanSession |-> TRUE, keepAlive |-> 20,
     maxRetries |-> -1, delay |-> 500, onConnect |-> FALSE]

NotWritten == [length |-> <<>>, flags |-> {}, keepAlive |-> 0, fields |-> <<>>]

ConfigInit == mConfig = DefaultConfig /\ options = 0 /\ wrote = NotWritten

Set(option, value) ==
    /\ options < MaxOptions
    /\ wrote = NotWritten
    /\ options' = options + 1
    /\ mConfig' = [mConfig EXCEPT ![option] = value]
    /\ UNCHANGED wrote

will == \E w \in Wills : Set("will", {w})
hostname == \E s \in Strings : Set("hostname", s)
port == \E n \in Numbers : Set("port", n)
username == \E s \in Strings : Set("username", s)
password == \E s \in Strings : Set("password", s)
clientID == \E s \in Strings : Set("clientID", s)
cleanSession == \E b \in BOOLEAN : Set("cleanSession", b)
keepAliveInterval == \E n \in Numbers : Set("keepAlive", n)
maxRetriesOnDisconnect == \E n \in {-1, 0, 1} : Set("maxRetries", n)
delayBetweenRetries == \E n \in Numbers : Set("delay", n)
onConnect == Set("onConnect", TRUE)

Build == \/ will \/ hostname \/ port \/ username \/ password \/ clientID
         \/ cleanSession \/ keepAliveInterval \/ maxRetriesOnDisconnect
         \/ delayBetweenRetries \/ onConnect

-----------------------------------------------------------------------------
(* The CONNECT packet. *)

When(condition, value) == IF condition THEN value ELSE {}
Given(str) == str.len > 0

\* The two credentials behind one flag.
FlagsOfMutant(c) ==
    When(Given(c.username) \/ Given(c.password), {"username", "password"})
    \cup When(c.will # {}, {"will"})
    \cup When(\E w \in c.will : w.retain, {"willRetain"})
    \cup When(c.cleanSession, {"cleanSession"})

FlagsOf(c) ==
    When(Given(c.username), {"username"})
    \cup When(Given(c.password), {"password"})
    \cup When(c.will # {}, {"will"})
    \cup When(\E w \in c.will : w.retain, {"willRetain"})
    \cup When(c.cleanSession, {"cleanSession"})

OptionalField(str) ==
    IF Given(str) THEN <<appendString2ByteLength(str)>> ELSE <<>>

PayloadOf(c) ==
    <<appendString2ByteLength(c.clientID)>>
    \o (IF c.will = {} THEN <<>>
        ELSE LET w == CHOOSE w \in c.will : TRUE
             IN  <<appendString2ByteLength(w.topic),
                   appendString2ByteLength(w.payload)>>)
    \o OptionalField(c.username) \o OptionalField(c.password)

\* Protocol name and level, flags, keep alive.
VariableHeader == 10

ConnectPacket(c) ==
    [length |-> appendVarInt(VariableHeader + SizeOfFields(PayloadOf(c))),
     flags |-> FlagsOf(c), keepAlive |-> c.keepAlive, fields |-> PayloadOf(c)]

\* The first task that follows the TCP connection builds the packet.
WriteConnect == wrote' = ConnectPacket(mConfig) /\ UNCHANGED <<mConfig, options>>

-----------------------------------------------------------------------------
(* How the broker reads it (MQTT 3.1.1, 3.1). *)

Flag(packet, name, entry) == IF name \in packet.flags THEN <<entry>> ELSE <<>>

\* The fields a CONNECT with these flags has, in this order.
FieldsExpected(p) ==
    <<"clientID">> \o Flag(p, "will", "willTopic") \o Flag(p, "will", "willPayload")
    \o Flag(p, "username", "username") \o Flag(p, "password", "password")

\* What the application configured, in the same order.
FieldsMeant(c) ==
    [clientID |-> c.clientID, username |-> c.username, password |-> c.password,
     willTopic |-> IF c.will = {} THEN EmptyString
                   ELSE (CHOOSE w \in c.will : TRUE).topic,
     willPayload |-> IF c.will = {} THEN EmptyString
                     ELSE (CHOOSE w \in c.will : TRUE).payload]

\* Strings MQTT can carry.
Fits(c) == \A i \in DOMAIN FieldsMeant(c) : FieldsMeant(c)[i].len < TwoBytes

\* The broker finds the end of the CONNECT packet, and in it the will, the
\* credentials, the client's name and the session flag the application has
\* configured, whichever setters it has called and in whichever order, as long
\* as the strings fit (MQTTClient.cpp:452-501).
ConnectCarriesConfig ==
    wrote # NotWritten /\ Fits(mConfig) =>
        LET kinds == FieldsExpected(wrote) IN
        /\ WellFormed(wrote.length)
        /\ ValueOf(wrote.length) = VariableHeader + SizeOfFields(wrote.fields)
        /\ Readable(wrote.fields) /\ Len(kinds) = Len(wrote.fields)
        /\ \A name \in DOMAIN FieldsMeant(mConfig) :
              LET meant == FieldsMeant(mConfig)[name] IN
              IF \E i \in DOMAIN kinds : kinds[i] = name
              THEN \A i \in DOMAIN kinds : kinds[i] = name =>
                       StringsOf(wrote.fields)[i] = meant
              ELSE ~Given(meant)
        /\ "will" \in wrote.flags <=> mConfig.will # {}
        /\ "willRetain" \in wrote.flags <=> \E w \in mConfig.will : w.retain
        /\ "cleanSession" \in wrote.flags <=> mConfig.cleanSession
        /\ wrote.keepAlive = mConfig.keepAlive

=============================================================================

# martin-mqtt in TLA+

martin-mqtt is a small MQTT 3.1.1 client library in C++ with a command line
client. Everything the client does passes through one queue of lambdas that
`MQTTClient::loop()` runs and that reconnecting rewrites; the modules here model
that queue, the socket below it and the broker beyond it, what is in the packets
and which callbacks a message reaches, and the command line client above; TLC
checks them on small instances, and TLAPS proves the central invariants for all
instances.

Paths are relative to the repository; `cpp:n` is line n of
`mqtt-client/lib/MQTTClient.cpp`, `hpp:n` of `mqtt-client/include/MQTTClient.hpp`,
`tcp:n` of `mqtt-client/lib/TcpUnix.cpp` and `cx:n` of `thirdparty/cxxopts/cxxopts.h`.

## 1. Inventory

| Component | State | Operations | Modelled by |
|---|---|---|---|
| Client (`MQTTClient.cpp/hpp`) | `mTaskQueue`, the callback tables, `mCurrentlyReceivingPacket`, `mPingIsScheduled`, `mPacketIdentifierCounter`, `mTries`, `mDisconnected`, `mLastReconnect`, `mClient` | `publish`, `subscribe`, `unsubscribe`, `disconnect`, `loop`; the task lambdas; `connectMqtt` | `MQTTClient` |
| Socket (`TcpUnix.cpp`) | descriptor, `SO_ERROR`, `errno`, `mLastPacketSendTime`, the bytes in flight | constructor, destructor, `getConnectState`, `send`, `recv`, `isDataAvailable`, `blockUntilDataAvailable` | `TcpUnix` |
| Broker and network (external) | session, subscriptions, what was received | answers, publishes, breaks the connection | `Broker`, `TcpUnix` |
| Encoding (`MQTTClient.cpp`, `Helper.cpp`) | the receive buffer and its counters | building packets, reading them | `Encoding`, `PacketReader`, `Packets` (identifiers) |
| Topic matching (`Helper.cpp:53-91`) | none | `doesTopicMatchPattern` | `TopicMatch` |
| Dispatch (cpp:364-388, 80-84, 119-132, 436-449) | `mSimpleCallbacks`, `mAdvancedCallbacks` | `handlePublishReceived`, registering, erasing, resubscribing | `Incoming` |
| Configuration (`MQTTConfig`, `MQTTConfigBuilder`) | the options | the setters, the CONNECT packet made of them | `Configuration` |
| `MQTTMessage`, handler interface | plain values | getters, one virtual function | records and callbacks of the modules above |
| Command line client (`main.cpp`) | the options, the calls to come | parse, build, publish or subscribe, `loop` | `Cli` |
| Option parser (`cxxopts.h`) | the arguments, `m_parsed` | `OptionParser::parse` | `CommandLine` |
| `TcpWin32.cpp` | | | no: lacks `blockUntilDataAvailable`, a pure virtual function of its base, so it does not compile |

How they interact. The application calls `publish`, `subscribe`, `unsubscribe`
and `disconnect`; each only appends a task. It then calls `loop()` again and
again. `loop()` runs the first task of the queue; a task builds a packet, sends
what the socket takes and queues the rest, or reads what the socket has, and puts
the task that goes on from there in front. A PUBLISH or a CONNACK that was read
runs callbacks of the application, which may call the client again (`mMutex` is
recursive). Any exception ends in the catch clause of `loop()`, which rebuilds the
queue for a new connection: the connection's own tasks, then those that are marked
`KEEP_ME`, then a `SUBSCRIBE` for every callback that was registered.

What is hard here:

* *One queue, many histories.* Tasks of the application, of the connection, of the
  keep alive and of unexpected PUBLISH packets share the queue, and its front and
  its back are both written to. Which packets go out, and who reads the reply, is
  decided by positions in it and by two flags.
* *Partial progress.* `send` and `recv` stop anywhere in a packet.
* *Reconnecting* deletes part of the queue and keeps the flags.
* *Exceptions* leave the queue as it was, the task that threw in front.
* *Reading* is three lambdas that carry their counters along, and the bytes may be cut
  between and inside all of them.
* *Two tables of callbacks*, of which a reconnect makes queued tasks again while a
  message may still be on its way to them.
* *Two parsers in a row*: the texts of a command line are cut and converted before
  `main` counts and pairs them.
* *Time*: keep alive, the retry delay, and the timeout of `loop` and of `poll`.
* *Stale values*: `errno` after a `recv` that does not set it, an `unsubscribe` that
  runs before the `subscribe` it revokes.

What makes each component correct:

* Client: one reader of the stream at a time, in step with the packets; a reply goes
  to the task that waits for it; no byte is written between the parts of a packet;
  CONNECT comes first and once; every subscription is registered or queued, exactly
  once; published messages keep their order and are not repeated; nothing is left to
  do after a disconnect; no task uses a socket that is not there.
* Socket: an error is reported once and not lost; end of file is told from "no data".
* Encoding: the broker reads from CONNECT what was configured; the length read is the
  length written; a packet begins where the one before it ended.
* Matching and dispatch: a callback runs once for a message its filter matches, and for
  no other; incoming messages are handled at most once and in order.
* Command line: what is given is what is done, in the order in which it is given; `main`
  ends once its messages are sent.
* End to end: what was published arrives if no established connection breaks; the
  subscriptions come back after any failure; a disconnect is carried out.

`PROJECT.json` lists the hazards with their lines and the properties aimed at each.

## 2. Modules

```
Packets --- TcpUnix --- MQTTClient --+
Positions ---------------/           |
             \--------- Broker ------+-- MQTTSystem --- MCMQTTSystem (TLC)
AtMostOnce (refined by MQTTSystem) --+      |
CommandLine --- Usage ----------------------+-- Cli --- CliInvariant --- MCCli (TLC)

Encoding --+-- Configuration -------------------+
           +-- PacketReader --+                 |
Positions ----- TopicMatch ---+-- Incoming -----+-- Wire --- MCWire (TLC)
AtMostOnce (refined by Incoming) -/

MQTTSystem --- StreamInvariant --+-- SubscriptionInvariant --- MCMQTTSystem
                                 +-- CliInvariant

PositionLemmas --+-- SafetyProofs --+-- OnceProofs --------------------------+
                 |                  +-- StreamProofs --- SubscriptionProofs -+-- CliProofs
                 |        CliInvariant --------------------------------------+
                 +-- ParserProofs (of CliInvariant)
                 +-- WireProofs (of Wire)                                       (TLAPS)
```

`MQTTSystem` and `Wire` look at the same client from two sides. In `MQTTSystem` a packet is
one letter of the stream and the queue of tasks is all there is; `Wire` takes the queue as
given (reading lambdas stay in front, a connection is replaced as a whole) and looks
into the packets. What joins them is named where `Wire` relies on it: that only one lambda
reads is `OneReceiver`, proved; that its reads belong to the packet in front is
`StreamInSync`, proved as well.

**Packets.** A packet is a type, a packet identifier and one argument. The
identifier is a `uint16_t` of two bytes in base `Base` (256 in the program, 2 for
TLC), because one handler converts its byte order and another does not.
`Reads` is the number of `recv` calls the client makes for a packet.

**TcpUnix.** `mSocket` is the state of the descriptor held by `mClient`, or "none".
The operators `Tcp...` are the calls of the class; each is a conjunct of a client
action and says what happens to the socket, to `errno` (only whether it holds
`EAGAIN`), to the time since the last send, and to the two streams. A packet in the
`inbox` counts how many of its reads have arrived and how many are done; `cut` is the
packet of which a prefix has been written. `Network` holds the steps of the network
and of the clock. Faults are injected from the set `Faults`, at most `MaxFaults`.

**MQTTClient.** A task of `mTaskQueue` is a record: which lambda of the source it is
(`kind`), whether it survives a reconnect (`keep`), the packet it sends or whose reply
it awaits (`req`), and the packet it has read (`resp`). `pc` cuts `loop()` at the points
between which the network can move: on entry, in `poll()`, at the head of the while
loop, before the task, and inside a callback. There is one action per way a task can
end: `SendAll`, `SendPart`, `SendNone` and `SendThrows` are the four outcomes of the
lambda of `enqueueSendFront`. `Catch` is the catch clause of `loop()`, and `connectMqtt`
is called from there as in the code. `published`, `subscribed`, `cancelled` and
`disconnecting` are history: what the application has asked for.

**Broker.** External. A broker that takes packets in order, answers each request,
and publishes on subscribed topics whenever it likes; its faults are the ones
the client's handlers test for (a reply of the wrong type or identifier, a refused
CONNECT, an unknown return code, a refused SUBSCRIBE).

**AtMostOnce.** What `publish()` promises at QoS 0, as a specification of its own:
messages arrive in the order of the calls, none twice, and any may be lost. `Lose` keeps some of those
on their way; an increasing function says which.

**MQTTSystem.** The composition, its fairness, all properties, and the refinement
mapping to `AtMostOnce`: `pending` is what is in the outgoing stream followed by what
the queue holds. `MCMQTTSystem` gives the constants their values for TLC.

**Positions.** Parts of a sequence named by their positions, without recursion, so that
modules that are proved about can use them.

**Encoding.** Numbers and strings on the wire, and beside them how MQTT reads them. A byte
has `Base` values, its upper half marks a remaining length that goes on, and a string is its
length and what it says: what can go wrong with a string is its length (`Helper.cpp:33`
cuts it to two bytes).

**Configuration.** One action per setter, in any order and any number of times, then the
CONNECT packet (cpp:452-501): its flags, its fields, its length. `ConnectCarriesConfig` reads the
packet back as MQTT 3.1.1 prescribes, from the flags to the fields, and compares.

**PacketReader.** The three lambdas of `enqueueRecvPacketFront`, with `multiplier`,
`packetLength` and `offset` as in the code. `taken` counts the bytes taken of the first
packet of the stream; every call of `recv` may return any number of bytes that are left.

**TopicMatch.** A topic is the sequence of its levels. `splitStringBySlash` leaves out the
empty levels that a slash ends; `doesTopicMatchPattern` looks at the first level at which the
two differ. `Matches` is what MQTT says, but for topics that begin with `$` (section 2, abstractions).

**Incoming.** The callback tables, with the reader in front of them. `handlePublishReceived` fixes
the callbacks of a message in their order (`todo`): the advanced ones in order of registration,
the simple ones in any order, as the container is unordered. `Lost` may strike between any two
bytes and any two callbacks. The history variable `wanted` holds the callbacks that were passed to `subscribe()`
and not revoked; an `unsubscribe()` revokes those it finds registered (cpp:119-132). `Inbound` maps it to `AtMostOnce`: a message is pending while it
is in the stream or in the buffer, and delivered when the callbacks begin.

**Wire.** Configuration, then traffic. Every configuration gets a CONNECT; messages flow for the default
one only, since nothing in `Incoming` reads the configuration.

**CommandLine.** One action per turn of `OptionParser::parse`: a letter of a group, a long
option, a word, `--`, an argument refused; then the defaults. An argument comes with what the
regular expressions make of it (its shape, its letters, the text behind each letter), and
a text with the pieces between its commas, its digits and its truth value, so that no string
is put together character by character. `integer_parser` keeps its 16 bits: a number that wraps is refused
only if it becomes smaller.

**Usage.** What a command line says to its reader, however it is parsed. It is a sequence of units: a word, an
option with the text that belongs to it, a group of flags with an option behind them, something that is no
option; `--` with all behind it, or an option whose text is missing, may end it. A unit has the arguments it is typed
as and its entries, each an option and a text. There is no state and no parser in this module, only the ways to write an option:
`-t x`, `-tx`, `-rt x`, `--topic x`, `--topic=x`. `Items` are the items between the commas of a text, none if it is
empty. `Meant` is the number a text is, of any size, and `IsPort` whether it
is one that a port can have.

**Cli.** `main()` over `MQTTSystem`: its calls are those of `MQTTClient`, its loop is
`LoopCall` with the mode `main` passes, and it ends on the status it waits for or on
an exception. The n-th item of the messages on the command line is the n-th of `MessageAt`, which is how the texts of
`CommandLine` and the opaque messages of `MQTTSystem` meet. The command line is forgotten once
the calls are made, as nothing reads it again. The variables of the client are there from the start, untouched
until `main` has built it.

**StreamInvariant.** The inductive invariant of the queue and the two streams, from which
`Framing`, `ConnectFirst`, `StreamInSync` and `ReplyIsAwaited` follow (section 5).

**SubscriptionInvariant.** The inductive invariant of the callbacks, the requests on their way and the
broker's subscriptions, from which `RegisteredIsSubscribed` follows (section 5).

**CliInvariant.** The inductive invariant of the parser, from which `ConfigAsGiven`, `MessagesAsGiven` and
`SoundIsObeyed` follow, and that of a client that publishes, from which `ExitMeansSent` follows (section 5).

**PositionLemmas, SafetyProofs, OnceProofs, StreamProofs, SubscriptionProofs,
CliProofs, ParserProofs, WireProofs.** The proofs (section 5).

### Abstractions

* `unique_lock lock{mMutex}` is held by `loop()` from entry to return, so calls of other
  threads happen between two calls of `loop()`; one application thread therefore has
  the same behaviours. The application's calls happen outside `loop()` or in a callback.
* `loop()` may be called again after it has thrown, since nothing forbids it.
* `unsubscribe` is not called from a message callback: it would erase from the container
  `handlePublishReceived` iterates over (cpp:379-387), which is undefined.
* The body of a packet is read by one `recv` in the model. A short read repeats the task
  with a smaller remaining length (cpp:332-338), as `ReceiveNone` does.
* `getConnectState` on a socket still connecting may say IN_PROGRESS or CONNECTED: it
  looks at `SO_ERROR` only, and the code has both outcomes.
* The retry delay is a flag, set at a (re)connect and cleared by `DelayElapses`.
* Packets of the old connection still in flight are not taken by the broker once the
  client has opened a new one.
* Only QoS 0 is modelled, the only level the client sends or acknowledges.
* In `Wire` a read that finds nothing is a stuttering step, and so is a task of the queue that has
  nothing to do with a message. A callback that throws is `Lost`: the exception takes the way of
  a lost connection.
* `Incoming` registers a callback only between two packets, since the lambdas that read stay in front
  of the queue (`OneReceiver`). The broker starts afresh with each connection (clean session).
* In `Cli` the command line begins as a sequence of units of `Usage`, kept in the history variable `typed`; `argv` is their
  arguments end to end, which is all the parser sees, and the properties compare what it does with the entries. Any command
  line can be written as units; `MCCli` gives those TLC tries.
* `Matches` leaves out the exception of MQTT 4.7.2: it lets `#` and `+` in front match topics that begin with `$`, as
  the code does, though a broker sends no such topic for them.
* `send()` and `recv()` on a socket whose connection failed take the pending error;
  failures of `setsockopt`, `fcntl` and `ioctl` on a valid descriptor are left out.

## 3. Runs

`wire` uses `MCWire`, `cli` uses `MCCli`, all others `MCMQTTSystem`. Every constant of the state space is a bound named in a
cfg: `MaxFaults` (faults injected), `MaxUnsubscribes`, `MaxIncoming` (PUBLISH packets of
the broker), and the sets `Messages` and `Subs`, each of whose members is published or
subscribed at most once. `MaxIdle = KeepAlive + 1` caps the time since the last send, past which all
values act alike. `Base = 2` gives four packet identifiers, so that they wrap within
a run and the two bytes of an identifier can differ. `CHECK_DEADLOCK FALSE` is set because
the system may really stop: `poll()` may wait for ever when the application has asked for
that and no time passes that matters, and after a disconnect there is nothing to do but
return.

| Run | Instance | Properties | What it shows |
|---|---|---|---|
| `faults` | one subscription, one incoming PUBLISH, any one of eight faults, one try, every way to call `loop` | `SafetyInv`, `OneReceiver`, `NoNullDeref`, `DisconnectIsFinal`, `StreamInSync`, `ReplyIsAwaited`, `OnePing`, `StreamInv` | whatever breaks, the reads stay in step with the packets, a reply goes to the task waiting for it, and no task uses a missing socket |
| `subscriptions` | two subscribe calls on a topic, one unsubscribe, a reset | `TypeOK`, `SubscriptionKept`, `RegisteredIsSubscribed`, `SubscriptionInv` | no callback is lost or subscribed twice by a reconnect; an idle client's callbacks are subscribed at the broker |
| `messages` | two messages, two resets, two retries | `Framing`, `ConnectFirst`, `PipeSpec` | packets cut anywhere are not mixed or continued on another connection; CONNECT is first; `publish` refines `AtMostOnce` |
| `connects` | one message, two faults while connecting, no limit of retries, fairness | `MessagesArrive`, `DisconnectEnds` | the client gets through, and what was asked is done |
| `resubscribes` | one subscription, a reset, refusal or bad reply, fairness | `SubscriptionsLast` | the subscriptions come back, for good |
| `wire` | two setters with strings of one byte and of the greatest length; four messages with remaining lengths of one to four bytes, on three topics; three callbacks (a plain topic, `+/b`, `a/#`), one unsubscribe, one lost connection | `TypeOK`, `ConnectCarriesConfig`, `InStep`, `OnlyLongIsMalformed`, `NoCallbackMissed`, `NoStrayCallback`, `RegisteredOnce`, `TablesInv`, `InboundSpec` | CONNECT says what was configured; packets are read whole however they are cut; no callback is lost or doubled; a message runs the right ones, once; incoming messages refine `AtMostOnce` |
| `cli` | all command lines of up to three of 21 pieces, ending there, with `--` or with a text missing, any one fault in opening or using the connection (unreachable, refused, closed, reset, a refused CONNECT, a bad reply), fairness | `ConfigAsGiven`, `MessagesAsGiven`, `SoundIsObeyed`, `ParseInv`, `ExitMeansSent`, `ExitInv`, `MainEnds` | `mqtt-client-cli` does what it is told and ends, unless it never notices the end of its connection |

Why the bounds are enough. A fault returns the client to the start of a connection with
a queue of kept tasks, and every interleaving of one fault with the steps of connecting,
subscribing, receiving and disconnecting is reached, including a fault while the tasks
of the connection that replaced the first are under way (two faults in `messages` and
`connects`). Two messages are the fewest that can be reordered, two callbacks the fewest
that can be kept and lost at the same time. The subscribe calls of `subscriptions` are
interchangeable (same topic, and no definition orders them), which is why `SYMMETRY` is
sound there; no liveness property is checked in that run. With `Base = 8` a byte of the remaining length
carries two bits, so that lengths of one, two, three and four bytes are 3, 16 and 64 bytes
away; each is among the packets, and a packet is cut at every byte. Three callbacks
are the fewest of which one is in the table of simple topics and two in that of advanced ones, and a message
on `a/b` is for both of the latter. Two setters are the fewest that can set one option twice, or
set an option that another one's flag depends on. The pieces of `cli` have every shape of argument and every
type of option, written in each way the parser tells apart (`-t x`, `-pb`, `-rp a`, `--topic=y`,
`--will w`), and the values at its edges (no value, a value that is empty, with a comma, negative, out of range,
hexadecimal, with a digit that is none, or looking like an option, as in `-T -s`); three of them are enough to give a message and a topic in either order with a
third option in between. `Enough` bounds the topics of a command line by the two the client's model has.
What bounds cannot show is
proved for the invariants of section 5.

Runs that expect a violation state a sentence of the documentation or of a comment, and TLC
finds a behaviour of the code that contradicts it:

| Run | Property | Where the sentence is |
|---|---|---|
| `done_status` | `DoneMeansDisconnected` | hpp:149-151, the meaning of `EVERYTHING_DONE` |
| `unsubscribe_early` | `UnsubscribeIsImmediate` | hpp:129-130, handlers are deleted immediately |
| `unsuback_id` | `ViolationIsReal` | cpp:147, the response is checked |
| `keep_alive` | `KeptAlive` | cpp:236 and 179, the ping is sent in time and `poll` does not wait longer than until it is due |
| `stale_errno` | `SubscriptionsLast` | hpp:81-82, the client resubscribes upon reconnecting |

What they found:

* After a failure that is retried `loop()` falls out of the catch clause to `return
  EVERYTHING_DONE` (cpp:282) with everything still to do. The command line client leaves
  its loop on that status (`main.cpp:87`).
* `subscribe` registers its callback when its task runs (cpp:80-84); an `unsubscribe` before
  that revokes nothing.
* The identifier of an UNSUBACK is compared in network byte order (cpp:152-154); a correct
  broker is accused of a violation. The passing runs with an unsubscribe go on from there: the
  client reconnects, and that is part of what they check.
* A client that waits without a timeout (as the command line client does) and is woken after the keep alive interval
  has passed, but before the ping is queued, computes a negative time to the next ping; a negative timeout of `poll()` means for
  ever (cpp:177-183, tcp:148-153), and the connection stays silent until the broker drops it.
* Two more facts of the kind were seen with the same model and have no run of their own. `connectMqtt`
  drops a queued PINGREQ but leaves `mPingIsScheduled` set (cpp:427-434, 235), so no later connection
  is kept alive: with a reset and partial sends `KeptAlive` fails for that reason as well. And what `send` leaves
  of a DISCONNECT is queued again as `DELETE_ME` (cpp:22): lost with the connection, it leaves
  `mDisconnected` false for ever, which is why `connects`, where `DisconnectEnds` is checked, has no reset.
* `recv` at end of file returns 0 and does not set `errno`; an `EAGAIN` from earlier makes
  tcp:131-134 take it for "no data", and the client waits for a reply that cannot come.

What the passing runs leave out, because the code does otherwise there:

* `NoCallbackMissed` and `NoStrayCallback` are about topics and filters without empty levels before
  the last (`Plain`). `splitStringBySlash` passes over the slash that ends one (`Helper.cpp:58`), so
  `/a` is not matched by `+/a`, and `a//b` is matched by `a/b`.
* `NoStrayCallback` is about topics with at least as many levels as the filter: the loop ends
  with the topic (`Helper.cpp:75, 90`), and `a` is matched by `a/b/+`.
* `ConnectCarriesConfig` has the condition that strings fit two bytes of length; nothing refuses longer ones.
* `OnlyLongIsMalformed` says that only lengths of four bytes are refused (cpp:322), not that none
  is: MQTT allows them, and the client writes them itself.
* `ConfigAsGiven` leaves open what a port out of range becomes: 99999 is 34463 (cx:893).
* `MessagesAsGiven` pairs the items between the commas of `-p` with those of `-t`, on every command line. The
  help text (`main.cpp:27`) says "Must be that same number of arguments as topic", but `main` counts items
  (`main.cpp:75`), and an empty text has none (cx:1015-1026): `-p a,c -t x` and `-p "" -t x` are refused although they
  are one argument each, and `-p "" -p m -t a` publishes `m` to `a`. TLC shows it in the instance of `cli`
  if `TextsOf` is compared in the place of `ItemsOf`. `Sound` counts items as well, so `SoundIsObeyed` promises nothing
  of the first two.
* `MainEnds` excepts the behaviours in which `EofMissed` holds for good: the broker has closed the connection and the
  `EAGAIN` left in `errno` hides it (tcp:131-134), so that `main` waits at `main.cpp:87` for ever. It is the
  fact of `stale_errno`, and the only way: TLC finds it if the exception is taken out.
* `ReplyIsAwaited` is about a client that tries again at all, which is the default (`MQTTConfig.hpp:27`).
  `mCurrentlyReceivingPacket` is cleared before the callbacks of a message run (cpp:341-343). With
  `maxRetries` 0 a callback that throws ends `loop()` with the queue as it was; the next `loop()` finds the
  flag down and puts a receiver without a handler in front of the one that waits for a SUBACK, and it
  swallows the SUBACK. TLC finds that behaviour with `MaxRetries = 0`; no document says otherwise.
* `ExitMeansSent` is about behaviours without a fault: a refused connection makes `loop()` return
  `EVERYTHING_DONE` at once (the `done_status` run), and `main` ends (`main.cpp:87`) with its messages unsent.

### Fairness

`FairSpec` assumes: the application calls `loop()` again whenever it returns, its thread is
scheduled, time passes, the network ends handshakes and delivers, the broker takes what
it gets (weak fairness on each). Three calls may fail for now and are tried again for ever:
`send` on a full buffer, `getConnectState` on a socket still connecting, and a `loop` whose timeout is over
before it has looked for work; strong fairness says that they do not fail every time.
Nothing is assumed of the application's other calls, and faults are never fair.
Every liveness property is about a client without a limit of retries, since with one
`loop()` may give up. `CliFairness` is the same, with `main` in the place of the application: it is a
sequential program, so weak fairness of its next step is all that scheduling gives it. `Wire` has no fairness and
no liveness property: a broker need not publish, and the network need not deliver.

## 4. Mutants

Every property of a passing run is paired in `PROJECT.json` with an operator named
`...Mutant` that changes one mapped definition as a slip in the code would, and that makes
the property fail under the same cfg. They stand before the definition they change and no
specification uses them.

| Mutant | The slip | Caught by |
|---|---|---|
| `KeptAtMutant` | a reconnect keeps every task | `SafetyInv`, `ConnectFirst`, `SubscriptionInv` |
| `FlagWithReceiveMutant` | `mCurrentlyReceivingPacket` is not set for an unexpected packet | `OneReceiver`, `StreamInSync` |
| `UnexpectedMutant` | a receive is queued although there is one | `ReplyIsAwaited` |
| `ConnectBehindMutant` | the new connection's tasks go to the back | `NoNullDeref` |
| `MayCallMutant` | calls are accepted after a disconnect | `DisconnectIsFinal` |
| `PingDueMutant` | pings are queued without looking at the flag | `OnePing` |
| `NextIdMutant` | the identifier does not wrap | `TypeOK` |
| `SubscribeTaskMutant` | the task of `subscribe` is `DELETE_ME` | `SubscriptionKept` |
| `NoResubscribeMutant` | `connectMqtt` does not subscribe again | `RegisteredIsSubscribed`, `SubscriptionsLast` |
| `KeepRemainderMutant` | the rest of a packet survives a reconnect | `Framing`, `StreamInv` |
| `EnqueueMutant` | calls put their task in front | `PipeSpec` |
| `PublishTaskMutant`, `DisconnectTaskMutant` | the task is `DELETE_ME` | `MessagesArrive`, `DisconnectEnds` |
| `ReadBodyMutant` | the offset is taken off what is missing, not the bytes received | `TypeOK` of `Wire` |
| `FlagsOfMutant` | user name and password share a flag | `ConnectCarriesConfig` |
| `ContinuesMutant` | `>` for `>=` at the upper bit of a length byte | `InStep` |
| `TooLongMutant` | the limit is one byte too low | `OnlyLongIsMalformed` |
| `StopMatchesMutant`, `StopMatchesAnyMutant` | `#` is a level like any other; a `#` anywhere matches | `NoCallbackMissed`; `NoStrayCallback` |
| `RequeueMutant` | a reconnect drops the advanced callbacks | `RegisteredOnce`, `TablesInv` |
| `ReadNextMutant` | the last lambda repeats itself | `InboundSpec` |
| `ParseDefaultsMutant` | a default replaces what was given | `ConfigAsGiven` |
| `parse_valueMutant` | the last `-p` or `-t` replaces the others | `MessagesAsGiven` |
| `ParseLetterMutant` | the letters that are a value are parsed as options as well | `SoundIsObeyed`, `ParseInv` |
| `DisconnectMutant` | the loop over the messages ends one early | `ExitMeansSent`, `ExitInv` |
| `LastStatusMutant` | `main` waits for another status | `MainEnds` |

## 5. Proofs

Proved by TLAPS, for every set of messages, subscriptions and topics, every number of
faults and retries and every way of calling `loop()`:

| Module | Theorems | What they say |
|---|---|---|
| `SafetyProofs` | `TypeCorrect` | `Spec => []TypeOK` |
| | `SafetyInvCorrect`, and from it `OneReceiverCorrect`, `NoNullDerefCorrect`, `DisconnectIsFinalCorrect` | one reader; no dereference of an empty `mClient`; nothing after a disconnect |
| `OnceProofs` | `OnePingCorrect`, `SubscriptionKeptCorrect` | a ping, and a subscription that is not registered, are queued exactly once |
| | `PipeImplements` | `publish` refines `AtMostOnce`: messages arrive in the order of the calls, each once or not at all |
| `StreamProofs` | `StreamInvCorrect`, and from it `FramingCorrect`, `StreamInSyncCorrect`, `ReplyIsAwaitedCorrect`, `ConnectFirstCorrect` | packets are never mixed; the reads stay in step with the stream; a reply goes to the task waiting for it; CONNECT is first, and once |
| `SubscriptionProofs` | `SubscriptionInvCorrect`, and from it `RegisteredIsSubscribedCorrect` | what an idle client has registered is what the broker has subscribed, after any failures |
| `WireProofs` | `ReaderInStep`, `ShortIsRead` | the reader never loses the border between packets; what it refuses is longer than three length bytes |
| | `WireTypeCorrect` | `TypeOK` of `Wire` |
| | `MatchComplete`, `MatchSound` | `doesTopicMatchPattern` against the definition of MQTT |
| | `TablesInvCorrect`, and from it `RegisteredOnceCorrect`, `NoCallbackMissedCorrect`, `NoStrayCallbackCorrect` | registered or queued is what was subscribed and not revoked, each once; a message runs the right callbacks, each of them once |
| | `InboundImplements` | incoming messages are handled as `AtMostOnce` says |
| | `ConnectCarriesConfigCorrect` | the broker reads from the CONNECT packet what was configured |
| `CliProofs` | `CliImplements`, and from it `CliIsSafe`, `CliKeepsSubscriptions`, `CliPublishesInOrder` | the command line client is an application of `MQTTSystem`, and has its properties |
| | `ExitInvCorrect`, and from it `ExitMeansSentCorrect` | if nothing fails, `main` does not end before its messages are sent |
| `ParserProofs` | `ParseInvCorrect`, and from it `ConfigAsGivenCorrect`, `MessagesAsGivenCorrect`, `SoundIsObeyedCorrect` | `main` does what its command line says, of whatever length it is |

They rest on the assumptions declared with the constants, which the runs evaluate. Those of
the client (`PacketsAssumption`, `TcpAssumption`, `ClientAssumption`, `BrokerAssumption`) only type the
constants: `TopicOf` maps calls to topics, a byte has at least two values, the keep alive
interval and the bounds are natural numbers, the limit of retries is an integer.
`EncodingAssumption` says that a byte has an even number of values, four or more, so that its upper half can
mark a length that goes on; `ReaderAssumption` that the lengths of the packets in the stream are written as MQTT
prescribes; `TopicAssumption` that the wildcards are two and not the empty level; `IncomingAssumption`
that topics and filters are sequences of levels in the form MQTT asks for;
`CliAssumption` that the pieces and the endings of a command line are units as `Usage` describes them (any number of pieces: `MaxFragments`
is any natural number), that the messages and topics on the command line are told apart, and that the number of tries is
the default, which is below zero and so no limit (`MQTTConfig.hpp:27`), as `main` never calls `maxRetriesOnDisconnect`.

*Types.* `TypeOK` is not inductive: the actions that run a task take the head of the queue,
which is a task only if the queue is not empty. `TypeInv` adds `QueueHasTask`: in the states in
which a task is about to run, or runs a callback, there is one. The proof goes by operator:
each `Tcp...` call, each constructor of a task and each way of rewriting the queue has a typing
lemma, and each action combines them. The queue of a reconnect is the concatenation of
the connection's tasks, the kept tasks and an enumeration of the callbacks; that the second
is a sequence of tasks of the old queue is `KeptIsQueue`, by induction over
the natural numbers through `LeastNatural`.

*Receivers.* `OneReceiver` says that at most one lambda reads from the stream, that it
is first in the queue, and that the flag is set. It is not inductive alone: `connectMqtt` puts tasks in front
of those it keeps, so no receiver may be kept (`ReceiversDropped`). One lemma per way of rewriting the queue
(`ReceiversBack`, `ReceiversFront`, `ReceiversTail`, `ReceiversReplace`, `CatchReceivers`)
is cited by the actions.

*Sockets.* `NoNullDeref` says that a task that dereferences `mClient` never runs without a
socket. The reason is not in the task: it is that without a socket the queue is empty and the client disconnected, or
its head is the task that opens a connection, or the reply that made the client close
the socket is still in front because the tries are used up, in which case it is handled once more and fails again
(`NoSocketNoWork`). A callback runs only with a socket (`CallbackHasSocket`), since `disconnect`
cannot take effect within one. `SafetyInv` is the conjunction; `StepSafe` proves it inductive with `TypeInv`.

*Once.* `Once(q, C, keep)` says of a queue that it holds at most one task of the class `C`,
and whether that one is `KEEP_ME`; `Has(q, C)` that it holds one. How each way of rewriting the queue acts on the two
is stated for any class (`OnceConcat`, `OnceMore`, `OnceTail`, `OnceKept`, `OnceReplace`,
`OnceReconnect`). `OnceKept` needs that `Kept` doubles no task and loses no `KEEP_ME` task
(`KeptIsAll`, from `NthExists` and `NthOnto`), `OnceReconnect` that the order in which the
callbacks are subscribed again names each of them once (`OrderIsAll`, a bijection between finite sets
of one cardinality). For the pings, `PingInv` adds to `OnePing` that a ping is not
`KEEP_ME`. For a subscription, `SubInv` adds that its task is `KEEP_ME` and that what is registered or
queued was asked for: without the last a first `subscribe()` could meet its own task.

*Messages.* What is on its way, `OnTheWay`, is the messages of the PUBLISH packets of `Way`: the outgoing stream, then
what the queue will write. `Thins(r, s)` says that the PUBLISH packets of `r` are found in `s`, in their order.
It is transitive and goes through concatenation (`ThinsConcat`), so that there is one lemma per way of rewriting the
queue: taking its head, putting tasks in front that write no PUBLISH, replacing the head, and the
reconnect, where `Kept` picks tasks by increasing positions. Every step other than `publish` and the broker's
`TakePublish` thins `Way` (`StepsThin`); what that means for the messages is `ThinsMeans`, from `AtPart`: the
n-th element of a set of positions has an element of the other set to go to, and these increase. It is what `Lose` asks
for. `publish` adds a message at the end (`PublishIsLast`) and `TakePublish` takes the first
(`TakenIsFirst`). Types are the only invariant this needs: the code keeps the order by how it rewrites the
queue, whatever is in it.

*Streams.* None of the four properties is inductive, and none can be proved without the others: whether the
bytes read belong to the packet in front depends on who may put a receiver in front, that depends on
whether a reply is on its way, and that on what has been written, in which order, on this connection.
`StreamInv` (module `StreamInvariant`, an invariant of the run `faults` too) is their conjunction with what they lean on:

* `Ordered`: every task has a rank (receivers; opening the socket; waiting for it; CONNECT; everything else
  that is written), ranks do not decrease along the queue, at most one receiver waits for a reply, and the
  rest of a packet is the first task that writes. `connectMqtt` and `emplace_front` keep that order; one lemma
  per way of rewriting the queue says so, as for the receivers.
* `CutIsQueued`: the packet that has been written in part is the one whose rest is in the queue.
* `NewConnection`, `JoinsFirst`: until CONNECT has been written nothing is under way in either direction, and
  until CONNACK has been read some task of the queue is about CONNECT; the tries are counted until then.
* `InSession`, `AcceptedInSession`, `ConnackFirst`: what is on its way on an accepted connection, and that the CONNACK is
  in front of any message.
* `ReadInOrder`, `InSync`: only the packet in front has been read from, and the receiver's place is that of the stream.
* `CallbackRuns`: which task is in front while a callback runs, as the callback may rewrite the queue, and that
  the reply it holds is one the client accepts.
* `Awaited`: at most one request or reply is on its way, and the first task will take it, with
  `mCurrentlyReceivingPacket` set so that no other receiver is put in front.

The parts speak of sorts of tasks and packets as sets (`Rests`, `Joiners`, `Answers`, ...), so that the lemmas on
queues are stated once, for any set. `Awaited` has the condition `MaxRetries # 0`, and so has the theorem on
`ReplyIsAwaited`: with no try at all it is false (section 3). `ConnectFirst` is an action property: the steps that append to the outgoing stream are
the outcomes of the task `send`, and the invariant says what is first in the queue then.

*Subscriptions.* `RegisteredIsSubscribed` speaks of the moment at which the queue is empty, and nothing in it
says how the client gets there. `SubscriptionInv` (module `SubscriptionInvariant`, an invariant of the run
`subscriptions` too) says it for every state of an accepted connection:

* `NoneMissing`: a callback that is registered and not revoked has a subscription at the broker; or its SUBSCRIBE is
  being sent or on its way; or a reply that its handler will not accept is in hand or on its way, so that
  this connection is about to be replaced and the callbacks are subscribed again. With an empty queue the last
  two are impossible: a request on its way is `Awaited`.
* `NoneLeft`: a topic the broker has a subscription for, or is about to have one for, has a callback, or
  an UNSUBSCRIBE for it is queued or on its way.
* `CallsInTurn`: why the two follow each other in the right order. A SUBSCRIBE that is being sent waits for
  nothing but packets nobody asked for, and an UNSUBSCRIBE in the queue stands behind the SUBSCRIBE it revokes,
  never in front of one that was not revoked; so the broker takes the requests on a topic in the order of the calls.
* `Registered`: on a new connection no callback is registered until its task has run again (cpp:437-446), and none
  that is waits for an UNSUBSCRIBE of its topic, unless it was revoked.
* `StartsFresh`: a session is not older than its connection, and starts with what `CleanSession` says.

The theorem on `RegisteredIsSubscribed` has three conditions. Without two of them it is false, and TLC shows how in
the instance of `subscriptions`: `"suback" \notin Faults`, as the handler of SUBACK prints that the broker has refused
(cpp:105-109) and keeps the callback; and `CleanSession`, as the UNSUBSCRIBE that a reconnect
drops (cpp:133) leaves a session that is kept subscribed for good. The third, `MaxRetries # 0`, is that of
`ReplyIsAwaited`, on which the proof rests; TLC finds no behaviour against the property without it (two faults, a callback
that throws among them), since the queue is not empty again after a reply was swallowed. `SubscriptionInv` states
each condition where it is needed, `NoneMissing` without `CleanSession`, and its own theorem has none.

*Reader.* `ReaderInv` is `InStep` with the types of the reader's variables. The lemmas follow the three
lambdas; a length byte is taken off the packet's length one at a time, and `InStep` relates what was
taken to the prefix decoded. No bound on the packets or on the size of a read is assumed.

*Topics.* `MatchSound` and `MatchComplete` carry the conditions under which the code and MQTT agree: no level
but the last is empty, and for soundness the topic has at least as many levels as the filter.
The two hazards at `Helper.cpp:53` and `:90` are what lies outside of them.

*Tables.* `RegisteredOnce` alone is not inductive: a step that moves the advanced callbacks back to the queue
keeps it only if none of the simple kind is among them, which it does not say (`h \in mSimpleCallbacks <=> ...` is
satisfied by a callback in both tables). That no callback is lost is its first conjunct, `Known = wanted`; the lemmas on
`Tables` say of each way of moving callbacks that it moves all of them. And the two properties of the callbacks
that ran say nothing of those still to run, which the next step moves over. `TablesInv` therefore adds that each
table holds its kind, and that `ran \o todo` is one of the sequences `handlePublishReceived` may choose
(`CallbacksFor`), as long as a message is with the callbacks. That the tables do not
change meanwhile is the reader's doing: `Register` and `unsubscribe` have to wait for the message. When `todo` is empty,
`ran` is the whole choice, and what it contains, each once, is counted by `AtElements` and
`OrderIsAll`; `MatchComplete` and `MatchSound` then replace the code's matching by that of MQTT. `unsubscribe`
keeps a part of the advanced table, in its order (`AtElements`).

*Incoming messages.* Each step is what `StepInbound` says: a message is published when it
enters the stream, delivered when `handlePublishReceived` takes it out of the buffer, and otherwise the stream
with the buffer in front stays as it is, though its parts move (the last byte of a packet takes it off the stream and completes the
buffer). A refused length loses the message in front, a lost connection all. `ReaderInv` gives
the only hard case, the last byte of a packet without a body, where the packet must not be
both in the buffer and gone.

*CONNECT.* `ConfigInv` says little: the configuration is typed, and a packet that was written was made of it, as no
setter runs afterwards. The work is in the packet. `Says(kinds, fields, meant)` relates the fields to the names the flags
announce; it holds for each field and goes through concatenation (`SaysOne`, `SaysConcat`), so the four options need no case for each
of their combinations. `VarIntIsRead` is that MQTT reads back what `appendVarIntToBuffer` wrote, for any number
of up to four bytes, by the loop's turns from the last byte to the first (`ByteInFront`, `VarIntGrows`). Two definitions of the
model are recursive functions, and that such a function exists has to be proved before its equation can be used: `RecursionEnds` does it
once, for any recursion from a number to a smaller one. The theorem assumes `Base >= 10`: five strings of the greatest
length must not make the packet too long for four bytes, and with a byte of eight values (as in `wire`, where at most two
setters are called) they would; the byte of the program has 256.

*Command line.* `CallsInv` says that there is a message or a topic left for each call to come. With it each
step of `main` is a step of `MQTTSystem` or leaves its variables alone, so `CliSpec => Spec`, and every safety theorem of the client
carries over.

*Exit.* `main` ends when `loop()` returns EVERYTHING_DONE, and what that status means for its messages is
spread over the queue, the streams and the broker. `ExitInv` (module `CliInvariant`, an invariant of the run `cli` too)
has two parts:

* `Filling`: before the first call of `loop()` nothing has moved, the queue begins as `connectMqtt` left it, and
  it holds a PUBLISH for each call made so far.
* `Undisturbed`: from `disconnect()` on, and as long as nothing has failed, the queue holds no task that only a
  subscriber or a fault would put there, the task that sends DISCONNECT is behind every message,
  what comes in is the good reply to the request in front, and every message is in the queue, on its way
  or received. The socket is lost only to `disconnect` itself, so nothing is dropped.

EVERYTHING_DONE then says that the queue is empty and the client disconnected: while there is no disconnect the task of
DISCONNECT is queued. It takes the `Awaited` and `InSync` of `StreamInv` to see that a reply is read by its own task,
and so rests on the default of the tries in `CliAssumption`. That the status comes at all is `MainEnds`, which TLC checks.

*Command line.* `ConfigAsGiven` and `MessagesAsGiven` speak of the end of the parser, and `SoundIsObeyed` of every
turn in which it could throw. None says where the parser stands in the meantime, and that is the difficulty: whether an argument is an option or the
text of one, and whether a letter is a flag or the beginning of a text, depends on all that stands before it.
`ParseInv` (module `CliInvariant`, an invariant of the run `cli` too) therefore relates the parser to the units:

* `ReadUpTo(k)`: `current` is the first argument of the k-th unit, `letter` is 1 or one of its letters that are options, and
  the entries before that letter are all that has been read.
* `Keeps`: what `OptionValue` keeps of an option that was given with these texts. It counts them; it holds the last one of a string or
  a flag, the number of the last one if it is a port, and all their items in order if it is a vector
  (`ItemsSteps`). `HasRead(n)` says it of every option and the first n entries.
* `AllKept`: the same at the end, with the defaults of the options that were not given.

`Turn` is what one turn of `OptionParser::parse` does with the unit it is in: it reads its next entry and goes on to the next
letter or the next unit; or it throws, and the unit has an entry that is no option; or the unit says nothing and is passed. `GroupTurns`,
`LongTurns` and `OtherTurns` show this of the five actions, with `FindOne` (no two options have a name in common, so
there is one that a letter or a name can mean), and `TurnReads` that `ReadUpTo` goes with it. An exception of
`parse_option` means a text that is no port or no truth value, and then the command line is not `Sound` (`RefusedIsUnsound`).
`AllRead` is the end: an empty unit can only be the last, so behind the last argument every entry has been read. `PortParsed` is
about arithmetic modulo 2^16: the digits of a number below 65536 never make `result` smaller, so the test for overflow does not
refuse it. `Meant` and `integer_parser` are recursive functions and so is the library's `FlattenSeq`; that each is
what its equation says is `RecursionEnds` of `PositionLemmas`, proved by well-founded induction, and from there on they are taken
one step at a time (`MeantIs`, `FlattenSteps`).

Only model-checked: liveness (`MessagesArrive`, `DisconnectEnds`, `SubscriptionsLast`, `MainEnds`), since the prover does not handle
fairness. Every invariant and every action property of the passing runs, and both refinements of `AtMostOnce`, are proved.

## 6. Not modelled

* The Windows socket: `TcpWin32.cpp` does not implement `blockUntilDataAvailable`, which `AbstractTcpClient`
  declares pure virtual, so it does not compile at this commit.
* The bytes of payloads and topics: a message, and a level of a topic, is opaque. What can go wrong with a string
  in `Encoding` is its length.
* In cxxopts: the help text, the regular expressions (an argument comes with what they make of
  it), positional options, which `main.cpp` does not declare, and the containers of values.
* QoS 1 and 2: the client neither sends them nor answers a message that has them.
* A broker that accepts a request and never answers. The client has no timeout on a reply
  (cpp:304): its queue would stand still, and nothing in the repository says otherwise.
* A session that is kept: `CleanSession` is a constant of the model, and TRUE in every run, although the configuration may
  turn it off. The `UNSUBSCRIBE` that a reconnect drops (cpp:133) is lost for good then.
* `unsubscribe()` from a message callback, which is undefined (see Abstractions).
* How long a call waits for `mMutex`: `loop()` holds it while it polls, and other calls of the class wait.
* `mDebugMode` output.

## 7. Plan

1. A run with `CleanSession = FALSE`, with `RegisteredIsSubscribed` weakened to what holds there.
2. A silent broker as one more fault: the safety properties should not depend on answers.

------------------------------ MODULE Incoming ------------------------------
(***************************************************************************)
(* A message on its way to the callbacks: the reader takes a PUBLISH from  *)
(* the stream, and handlePublishReceived runs the callbacks whose topic it *)
(* matches, the advanced ones (with a wildcard) in the order in which they *)
(* were registered, then the simple ones.                                  *)
(*                                                                         *)
(* A callback is registered when the task of its subscribe() call runs,    *)
(* which is when no packet is being read, as the lambdas that read stay in *)
(* front of the queue.  A lost connection puts every registered callback   *)
(* behind the subscribe() calls that are queued.                           *)
(***************************************************************************)
EXTENDS PacketReader, TopicMatch, SequencesExt

CONSTANTS
    Handlers,   \* the callbacks passed to subscribe(), each of them once
    FilterOf,   \* [Handlers -> levels], the topic passed with it
    MaxLosses,  \* bound: connections lost
    MaxRemovals \* bound: calls of unsubscribe()

\* The levels of the topics and filters there are.
Levels == UNION {Range(FilterOf[h]) : h \in Handlers}
          \cup UNION {Range(p.topic) : p \in Packets}

ASSUME IncomingAssumption ==
    /\ \A h \in Handlers : FilterOf[h] \in Seq(Levels) /\ IsFilter(FilterOf[h])
    /\ \A p \in Packets : p.topic \in Seq(Levels) /\ IsTopic(p.topic)
    /\ MaxLosses \in Nat /\ MaxRemovals \in Nat

VARIABLES
    queued,         \* callbacks whose subscribe task is in the queue
    mAdvancedCallbacks, mSimpleCallbacks,
    wanted,         \* history: callbacks passed to subscribe() and not revoked
    asked,          \* the filters this connection has subscribed to
    todo, ran,      \* callbacks the message at hand still has, has had
    sent, handled,  \* history: the packets sent; handed to the callbacks
    losses, removals

tableVars == <<queued, mAdvancedCallbacks, mSimpleCallbacks, wanted>>
messageVars == <<todo, ran, sent, handled>>
incomingVars == <<readerVars, tableVars, asked, messageVars, losses, removals>>

IncomingInit ==
    /\ ReaderInit
    /\ queued = <<>> /\ mAdvancedCallbacks = <<>> /\ mSimpleCallbacks = {}
    /\ wanted = {} /\ asked = {}
    /\ todo = <<>> /\ ran = <<>> /\ sent = {} /\ handled = <<>>
    /\ losses = 0 /\ removals = 0

Registered == Range(mAdvancedCallbacks) \cup mSimpleCallbacks
Known == Registered \cup Range(queued)

subscribe(h) ==
    /\ h \notin wanted
    /\ wanted' = wanted \cup {h}
    /\ queued' = Append(queued, h)
    /\ UNCHANGED <<readerVars, mAdvancedCallbacks, mSimpleCallbacks, asked,
                   messageVars, losses, removals>>

\* The task of subscribe(): the table is chosen by the topic.
Register ==
    /\ phase = "type" /\ queued # <<>>
    /\ queued' = Tail(queued)
    /\ LET h == Head(queued) IN
         /\ IF isTopicAdvanced(FilterOf[h])
            THEN /\ mAdvancedCallbacks' = Append(mAdvancedCallbacks, h)
                 /\ UNCHANGED mSimpleCallbacks
            ELSE /\ mSimpleCallbacks' = mSimpleCallbacks \cup {h}
                 /\ UNCHANGED mAdvancedCallbacks
         /\ asked' = asked \cup {FilterOf[h]}
    /\ UNCHANGED <<wanted, readerVars, messageVars, losses, removals>>

\* It revokes the callbacks of the filter but not those still to be registered,
\* which cpp:119-132 does not look for.  Not from a message callback: the
\* containers are being iterated over.  The broker goes on sending until it has
\* taken the UNSUBSCRIBE.
unsubscribe(filter) ==
    /\ removals < MaxRemovals /\ phase # "callbacks"
    /\ removals' = removals + 1
    /\ wanted' = {h \in wanted : FilterOf[h] # filter \/ h \in Range(queued)}
    /\ mSimpleCallbacks' = {h \in mSimpleCallbacks : FilterOf[h] # filter}
    /\ mAdvancedCallbacks' =
          At(mAdvancedCallbacks, {i \in DOMAIN mAdvancedCallbacks :
                                     FilterOf[mAdvancedCallbacks[i]] # filter})
    /\ UNCHANGED <<readerVars, queued, asked, messageVars, losses>>

\* A message of a topic that a subscription of this connection matches.
BrokerPublishes(p) ==
    /\ p \notin sent
    /\ \E filter \in asked : Matches(p.topic, filter)
    /\ sent' = sent \cup {p}
    /\ Arrives(p)
    /\ UNCHANGED <<tableVars, asked, todo, ran, handled, losses, removals>>

\* The callbacks for a topic, in an order in which they may run.
AdvancedFor(topic) ==
    At(mAdvancedCallbacks,
       {i \in DOMAIN mAdvancedCallbacks :
           doesTopicMatchPattern(topic, FilterOf[mAdvancedCallbacks[i]])})
SimpleFor(topic) == {h \in mSimpleCallbacks : FilterOf[h] = topic}
CallbacksFor(topic) ==
    {AdvancedFor(topic) \o order : order \in SetToSeqs(SimpleFor(topic))}

handlePublishReceived ==
    /\ Complete
    /\ phase' = "callbacks"
    /\ todo' \in CallbacksFor(buffer[1].topic)
    /\ ran' = <<>>
    /\ handled' = Append(handled, buffer[1])
    /\ UNCHANGED <<stream, taken, buffer, multiplier, packetLength, offset,
                   tableVars, asked, sent, losses, removals>>

RunCallback ==
    /\ phase = "callbacks" /\ todo # <<>>
    /\ todo' = Tail(todo)
    /\ ran' = Append(ran, Head(todo))
    /\ UNCHANGED <<readerVars, tableVars, asked, sent, handled, losses, removals>>

CallbacksDone ==
    /\ phase = "callbacks" /\ todo = <<>>
    /\ ReadNext
    /\ UNCHANGED <<tableVars, asked, messageVars, losses, removals>>

\* The advanced callbacks are dropped with the connection.
RequeueMutant ==
    /\ \E order \in SetToSeqs(mSimpleCallbacks) : queued' = queued \o order
    /\ mAdvancedCallbacks' = <<>> /\ mSimpleCallbacks' = {} /\ UNCHANGED wanted

\* connectMqtt: the queued calls first, then the tables.
Requeue ==
    /\ \E order \in SetToSeqs(mSimpleCallbacks) :
          queued' = queued \o mAdvancedCallbacks \o order
    /\ mAdvancedCallbacks' = <<>> /\ mSimpleCallbacks' = {} /\ UNCHANGED wanted

\* The broker has a new session.
Reconnect ==
    /\ ReaderReset
    /\ Requeue
    /\ asked' = {} /\ todo' = <<>> /\ ran' = <<>>
    /\ UNCHANGED <<sent, handled, removals>>

\* A length the reader refuses: loop() throws and connects again.
Malformed == phase = "malformed" /\ Reconnect /\ UNCHANGED losses

\* The connection is lost, or a callback throws: the callbacks behind it never
\* see the message.
Lost ==
    /\ losses < MaxLosses
    /\ losses' = losses + 1
    /\ Reconnect

IncomingNext ==
    \/ \E h \in Handlers : subscribe(h)
    \/ \E h \in Handlers : unsubscribe(FilterOf[h])
    \/ Register
    \/ \E p \in Packets : BrokerPublishes(p)
    \/ Read /\ UNCHANGED <<tableVars, asked, messageVars, losses, removals>>
    \/ handlePublishReceived \/ RunCallback \/ CallbacksDone
    \/ Malformed \/ Lost

-----------------------------------------------------------------------------
(* What the application may count on. *)

AllRan == phase = "callbacks" /\ todo = <<>>

\* Every callback registered for a filter that matches the topic has run once
\* for the message, in whichever table it is and whatever was unsubscribed or
\* resubscribed before, if no level of the two but the last is empty
\* (cpp:364-388, Helper.cpp:70-91).
NoCallbackMissed ==
    AllRan =>
        LET topic == buffer[1].topic IN
        \A h \in Registered :
            Plain(topic) /\ Plain(FilterOf[h]) /\ Matches(topic, FilterOf[h])
                => Cardinality({i \in DOMAIN ran : ran[i] = h}) = 1

\* No callback sees a message of a topic it has not subscribed to, unless its
\* filter has more levels than the topic, and none that has been unsubscribed.
NoStrayCallback ==
    \A i \in DOMAIN ran :
        LET topic == buffer[1].topic
            filter == FilterOf[ran[i]] IN
        phase = "callbacks" =>
            /\ ran[i] \in Registered
            /\ Plain(topic) /\ Plain(filter) /\ Len(topic) >= Len(filter)
                  => Matches(topic, filter)

\* The callbacks that are registered or queued are those passed to subscribe()
\* and not revoked, each of them registered once or queued once, and in the table
\* of its topic's kind: none is lost and none doubled, however often the client
\* reconnects in the middle of a message, or a callback throws (cpp:80-84,
\* 119-132, 381, 436-449).  An unsubscribe() revokes those it finds registered.
RegisteredOnce ==
    /\ Known = wanted
    /\ IsInjective(queued \o mAdvancedCallbacks)
    /\ Registered \cap Range(queued) = {}
    /\ \A h \in Registered :
          h \in mSimpleCallbacks <=> ~isTopicAdvanced(FilterOf[h])

\* The three hold together with this: a callback is in the table of its kind, and
\* those that have run for a message and those that have not are the ones
\* handlePublishReceived found, in their order (proved in WireProofs).
TablesInv ==
    /\ RegisteredOnce
    /\ \A h \in Range(mAdvancedCallbacks) : isTopicAdvanced(FilterOf[h])
    /\ IsFiniteSet(mSimpleCallbacks)
    /\ phase = "callbacks" => ran \o todo \in CallbacksFor(buffer[1].topic)

\* At QoS 0 a message is handled at most once, and in the order of the broker:
\* what the reader has in its buffer or in the stream is still on its way.
Inbound == INSTANCE AtMostOnce WITH
    Messages <- Packets, accepted <- sent, delivered <- handled,
    pending <- IF Complete THEN buffer \o stream ELSE stream

InboundSpec == Inbound!Spec

=============================================================================

------------------------- MODULE EpicsSubscriptions -------------------------
(***************************************************************************)
(* The subscriptions to EPICS channels.  GeminiUtilImpl keeps one          *)
(* JmsEpicsManager, which asks the GMP for the names of the valid channels *)
(* over a session of its own, and maps each subscribed channel to an       *)
(* EpicsConsumer with a session of its own.                                *)
(*                                                                         *)
(* One client thread subscribes and unsubscribes, as the examples do, also *)
(* after the connection was lost and re-established.  Each consumer has a  *)
(* dispatch thread that hands the updates of its channel to a handler.     *)
(* Connections are numbered; a session works while its connection is the   *)
(* current one.                                                            *)
(***************************************************************************)
EXTENDS EpicsItems

CONSTANTS
  Channels,       \* names a client asks for
  ValidChannels,  \* those among them the GMP lists
  MaxCalls,       \* bound: subscribe and unsubscribe calls
  Cells,          \* characters, bytes and numbers an update may contain
  Forms,          \* the bytes messages the GMP may publish
  MaxConnections, \* bound: connections
  MaxUpdates      \* bound: updates published

ASSUME EpicsAssumption ==
  /\ ValidChannels \subseteq Channels
  /\ ValidChannels # {}
  /\ MaxCalls \in Nat \ {0}
  /\ MaxConnections \in Nat \ {0}
  /\ MaxUpdates \in Nat

\* The type in a message is an unsigned char, if it is there.  Only a string has more or fewer cells
\* than one, and no cell is an exception.
ASSUME FormsAssumption ==
  /\ Forms \subseteq [code : 0..255 \cup {CutShort}, count : Int,
                     elements : Seq(Seq(Cells))]
  /\ \A m \in Forms : m.code # DataType.STRING =>
       \A i \in 1..Len(m.elements) : Len(m.elements[i]) = 1
  /\ InvalidOperation[1] \notin Cells

Operations == {"subscribe", "unsubscribe"}
Results    == {"OK", "ERROR", "TimeoutException", "CommunicationException"}
Consumers  == 1..MaxCalls
Updates    == 1..MaxUpdates

NoUpdate == Message(-1, 0, <<>>)

\* A message that is not a BytesMessage.
OtherMessage == Message(256, 0, <<>>)

\* Updates a handler can read: strings and bytes that are all there.
CompleteUpdates ==
  {m \in Forms :
     /\ m.count \in 0..Len(m.elements)
     /\ \/ m.code = DataType.BYTE
        \/ /\ m.code = DataType.STRING
           /\ \A i \in 1..m.count : \A p \in 1..Len(m.elements[i]) :
                m.elements[i][p] # NUL}

Numeric == {DataType.SHORT, DataType.INT, DataType.FLOAT, DataType.DOUBLE}

\* What makes an update unsafe: elements larger than a byte, a negative number of
\* bytes, a missing string, a type without a builder, a header that is cut short.
UnsafeUpdates ==
  {m \in Forms :
     \/ m.code \in Numeric /\ m.count # 0
     \/ m.code = DataType.BYTE /\ m.count < 0
     \/ m.code = DataType.STRING /\ Truncated(m)
     \/ m.code \notin Numeric \cup {DataType.BYTE, DataType.STRING}}

\* The items that may come of them.
Items == {NullItem} \cup UNION {buildEpicsStatusItem(m) : m \in Forms \cup {NoUpdate}}

VARIABLES
  connection,  \* the current connection, 0 while there is none that works
  connections, \* number of connections so far
  session,     \* connection of the manager's session, 0 without a manager
  opening,     \* the same for a manager under construction
  known,       \* _epicsChannels
  pc,          \* what the client does next
  op,          \* its call
  name,        \* the channel it names
  disturbed,   \* history: there was no connection at some time in that call
  unlisted,    \* history: the GMP named no channel when that call asked for them
  calls,       \* number of calls so far
  result,      \* what the last call returned or threw
  created,     \* number of consumers so far
  channel,     \* the channel of each consumer
  origin,      \* the connection of each consumer's session
  open,        \* consumers that have not been destroyed
  fresh,       \* the consumer subscribeEpicsStatus has yet to store, or 0
  holder,      \* _epicsConsumersMap; 0 is no entry
  recent,      \* history: consumer of the last good subscription, 0 when undone
  published,   \* number of updates so far
  form,        \* the message of each
  queue,       \* updates waiting in the session of each consumer
  handling,    \* the update the handler of each consumer works on, or 0
  item,        \* the item it was given
  seen,        \* history: updates the handler of each consumer has returned from
  crashed      \* the program was terminated

vars == <<connection, connections, session, opening, known, pc, op, name,
          disturbed, unlisted, calls, result, created, channel, origin, open, fresh,
          holder, recent, published, form, queue, handling, item, seen, crashed>>

connectionVars == <<connection, connections>>
callVars       == <<op, name, disturbed, unlisted, calls>>
consumerVars   == <<created, channel, origin, open, fresh, holder, recent, queue>>
updateVars     == <<published, form, handling, item, seen, crashed>>

-----------------------------------------------------------------------------
Init ==
  /\ connection = 1
  /\ connections = 1
  /\ session = 0
  /\ opening = 0
  /\ known = {}
  /\ pc = "idle"
  /\ op = "subscribe"
  /\ name = CHOOSE ch \in ValidChannels : TRUE
  /\ disturbed = FALSE
  /\ unlisted = FALSE
  /\ calls = 0
  /\ result = "OK"
  /\ created = 0
  /\ channel = [c \in Consumers |-> CHOOSE ch \in ValidChannels : TRUE]
  /\ origin = [c \in Consumers |-> 0]
  /\ open = {}
  /\ fresh = 0
  /\ holder = [ch \in Channels |-> 0]
  /\ recent = [ch \in Channels |-> 0]
  /\ published = 0
  /\ form = [u \in Updates |-> NoUpdate]
  /\ queue = [c \in Consumers |-> <<>>]
  /\ handling = [c \in Consumers |-> 0]
  /\ item = [c \in Consumers |-> NullItem]
  /\ seen = [c \in Consumers |-> {}]
  /\ crashed = FALSE

Returns(r) ==
  /\ result' = r
  /\ pc' = "idle"

\* Mutation of Closed: the session goes away while the handler is running.
ClosedAtOnce(c) ==
  /\ open' = open \ {c}
  /\ queue' = [d \in Consumers |-> IF d = c THEN <<>> ELSE queue[d]]

\* Consumer c, if there is one, is destroyed: closing it waits for its handler
\* and drops the updates it has queued.
Closed(c) ==
  /\ c # 0 => handling[c] = 0
  /\ open' = open \ {c}
  /\ queue' = [d \in Consumers |-> IF d = c THEN <<>> ELSE queue[d]]

-----------------------------------------------------------------------------
(* The client's calls                                                      *)

Call(o, ch) ==
  /\ pc = "idle"
  /\ calls < MaxCalls
  /\ calls' = calls + 1
  /\ op' = o
  /\ name' = ch
  /\ disturbed' = (connection = 0)
  /\ unlisted' = FALSE
  /\ pc' = IF session = 0 THEN "instance" ELSE "ready"
  /\ UNCHANGED <<connectionVars, session, opening, known, result, consumerVars,
                 updateVars>>

\* GeminiUtilImpl::Instance() makes the manager on the first call, and again when
\* that failed.
OpenSession ==
  /\ pc = "instance"
  /\ connection # 0
  /\ opening' = connection
  /\ pc' = "configure"
  /\ UNCHANGED <<connectionVars, session, known, callVars, result, consumerVars,
                 updateVars>>

\* The names of the channels arrive, or the constructor goes on without them, because
\* none arrive in time or the GMP names none.
Configure ==
  /\ pc = "configure"
  /\ opening = connection
  /\ known' \in {{}, ValidChannels}
  /\ pc' = "services"
  /\ UNCHANGED <<connectionVars, session, opening, callVars, result, consumerVars,
                 updateVars>>

\* The other services of GeminiUtilImpl open their sessions.
OpenServices ==
  /\ pc = "services"
  /\ connection # 0
  /\ session' = opening
  /\ opening' = 0
  /\ pc' = "ready"
  /\ UNCHANGED <<connectionVars, known, callVars, result, consumerVars, updateVars>>

\* Nothing is kept of a GeminiUtilImpl whose constructor throws.
InstanceThrows ==
  /\ \/ pc \in {"instance", "services"} /\ connection = 0
     \/ pc = "configure" /\ opening # connection
  /\ opening' = 0
  /\ known' = {}
  /\ Returns("CommunicationException")
  /\ UNCHANGED <<connectionVars, session, callVars, consumerVars, updateVars>>

\* Subscribing asks for the names again while none are known.
IsInitialized ==
  /\ pc = "ready"
  /\ pc' = IF op = "subscribe" /\ known = {} THEN "request" ELSE "lookup"
  /\ UNCHANGED <<connectionVars, session, opening, known, callVars, result,
                 consumerVars, updateVars>>

\* The call goes on with the names in the answer, which may have none.
RequestChannels ==
  /\ pc = "request"
  /\ session = connection
  /\ known' \in {{}, ValidChannels}
  /\ unlisted' = (known' = {})
  /\ pc' = "lookup"
  /\ UNCHANGED <<connectionVars, session, opening, op, name, disturbed, calls, result,
                 consumerVars, updateVars>>

\* Mutation of RequestTimesOut: the timeout is ignored, as in the constructor.
RequestTimeoutIgnored ==
  /\ pc = "request"
  /\ session = connection
  /\ pc' = "lookup"
  /\ UNCHANGED <<connectionVars, session, opening, known, callVars, result,
                 consumerVars, updateVars>>

RequestTimesOut ==
  /\ pc = "request"
  /\ session = connection
  /\ Returns("TimeoutException")
  /\ UNCHANGED <<connectionVars, session, opening, known, callVars, consumerVars,
                 updateVars>>

\* The manager's session is not replaced when its connection is.
RequestThrows ==
  /\ pc = "request"
  /\ session # connection
  /\ Returns("CommunicationException")
  /\ UNCHANGED <<connectionVars, session, opening, known, callVars, consumerVars,
                 updateVars>>

\* Mutation of HasNoChannel: a lookup that inserts, as operator[] of a map does.
HasNoChannelInserts ==
  /\ pc = "lookup"
  /\ name \notin known
  /\ known' = known \cup {name}
  /\ Returns("ERROR")
  /\ UNCHANGED <<connectionVars, session, opening, callVars, consumerVars,
                 updateVars>>

HasNoChannel ==
  /\ pc = "lookup"
  /\ name \notin known
  /\ Returns("ERROR")
  /\ UNCHANGED <<connectionVars, session, opening, known, callVars, consumerVars,
                 updateVars>>

HasChannel ==
  /\ pc = "lookup"
  /\ name \in known
  /\ pc' = IF op = "subscribe" THEN "create" ELSE "erase"
  /\ UNCHANGED <<connectionVars, session, opening, known, callVars, result,
                 consumerVars, updateVars>>

\* Mutation of SessionOf: the consumer shares the manager's session.
SessionOfManager == session

\* A new consumer gets a session of the current connection.
SessionOf == connection

\* From here on the new consumer gets updates, beside the one it replaces.
CreateConsumer ==
  /\ pc = "create"
  /\ SessionOf # 0 /\ SessionOf = connection
  /\ created' = created + 1
  /\ fresh' = created + 1
  /\ channel' = [channel EXCEPT ![created + 1] = name]
  /\ origin' = [origin EXCEPT ![created + 1] = SessionOf]
  /\ open' = open \cup {created + 1}
  /\ pc' = "store"
  /\ UNCHANGED <<connectionVars, session, opening, known, callVars, result, holder,
                 recent, queue, updateVars>>

\* The old consumer, if there is one, stays in the map.
CreateConsumerThrows ==
  /\ pc = "create"
  /\ SessionOf = 0 \/ SessionOf # connection
  /\ Returns("CommunicationException")
  /\ UNCHANGED <<connectionVars, session, opening, known, callVars, consumerVars,
                 updateVars>>

\* Mutation of StoreConsumer: the old consumer is not destroyed.
StoreConsumerLeaks ==
  /\ pc = "store"
  /\ holder' = [holder EXCEPT ![name] = fresh]
  /\ recent' = [recent EXCEPT ![name] = fresh]
  /\ fresh' = 0
  /\ Returns("OK")
  /\ UNCHANGED <<connectionVars, session, opening, known, callVars, created, channel,
                 origin, open, queue, updateVars>>

StoreConsumer ==
  /\ pc = "store"
  /\ Closed(holder[name])
  /\ holder' = [holder EXCEPT ![name] = fresh]
  /\ recent' = [recent EXCEPT ![name] = fresh]
  /\ fresh' = 0
  /\ Returns("OK")
  /\ UNCHANGED <<connectionVars, session, opening, known, callVars, created, channel,
                 origin, updateVars>>

EraseConsumer ==
  /\ pc = "erase"
  /\ Closed(holder[name])
  /\ holder' = [holder EXCEPT ![name] = 0]
  /\ recent' = [recent EXCEPT ![name] = 0]
  /\ Returns("OK")
  /\ UNCHANGED <<connectionVars, session, opening, known, callVars, created, channel,
                 origin, fresh, updateVars>>

Client ==
  \/ \E o \in Operations, ch \in Channels : Call(o, ch)
  \/ OpenSession \/ Configure \/ OpenServices \/ InstanceThrows
  \/ IsInitialized \/ RequestChannels \/ RequestTimesOut \/ RequestThrows
  \/ HasNoChannel \/ HasChannel
  \/ CreateConsumer \/ CreateConsumerThrows \/ StoreConsumer
  \/ EraseConsumer

-----------------------------------------------------------------------------
(* Updates and the dispatch threads                                        *)

\* Every consumer of the channel whose session works gets a copy.
Publish(ch, f) ==
  /\ connection # 0
  /\ published < MaxUpdates
  /\ published' = published + 1
  /\ form' = [form EXCEPT ![published + 1] = f]
  /\ queue' = [c \in Consumers |->
                 IF c \in open /\ channel[c] = ch /\ origin[c] = connection
                 THEN Append(queue[c], published + 1) ELSE queue[c]]
  /\ UNCHANGED <<connectionVars, session, opening, known, pc, callVars, result,
                 created, channel, origin, open, fresh, holder, recent, handling,
                 item, seen, crashed>>

\* Mutation of OnMessage: the update is built and the handler not called.
OnMessageDrops(c) ==
  /\ handling[c] = 0
  /\ queue[c] # <<>>
  /\ queue' = [queue EXCEPT ![c] = Tail(@)]
  /\ UNCHANGED <<connectionVars, session, opening, known, pc, callVars, result,
                 created, channel, origin, open, fresh, holder, recent, published,
                 form, handling, item, seen, crashed>>

\* The dispatch thread of c takes the next update.  What the builder throws is not
\* caught in onMessage, which promises to throw nothing.
OnMessage(c) ==
  /\ handling[c] = 0
  /\ queue[c] # <<>>
  /\ LET u == Head(queue[c])
     IN IF form[u] = OtherMessage THEN UNCHANGED <<handling, item, crashed>>
        ELSE \E built \in buildEpicsStatusItem(form[u]) :
               /\ handling' = [handling EXCEPT ![c] = u]
               /\ item' = [item EXCEPT ![c] = built]
               /\ crashed' = (built.outcome = "terminated")
  /\ queue' = [queue EXCEPT ![c] = Tail(@)]
  /\ UNCHANGED <<connectionVars, session, opening, known, pc, callVars, result,
                 created, channel, origin, open, fresh, holder, recent, published,
                 form, seen>>

\* channelChanged returns, in the handler of the test always.
HandlerReturns(c) ==
  /\ handling[c] # 0
  /\ seen' = [seen EXCEPT ![c] = @ \cup {handling[c]}]
  /\ handling' = [handling EXCEPT ![c] = 0]
  /\ item' = [item EXCEPT ![c] = NullItem]
  /\ UNCHANGED <<connectionVars, session, opening, known, pc, callVars, result,
                 consumerVars, published, form, crashed>>

\* The handler of the example throws, and onMessage lets that through too.
HandlerThrows(c) ==
  /\ handling[c] # 0
  /\ EpicsHandlerDemoThrows(item[c])
  /\ crashed' = TRUE
  /\ UNCHANGED <<connectionVars, session, opening, known, pc, callVars, result,
                 consumerVars, published, form, handling, item, seen>>

Dispatch(c) == OnMessage(c) \/ HandlerReturns(c) \/ HandlerThrows(c)

-----------------------------------------------------------------------------
(* The connection                                                          *)

\* The sessions of the connection are disposed with what they have queued.
Disconnect ==
  /\ connection # 0
  /\ connection' = 0
  /\ disturbed' = TRUE
  /\ queue' = [c \in Consumers |-> <<>>]
  /\ UNCHANGED <<connections, session, opening, known, pc, op, name, unlisted, calls,
                 result, created, channel, origin, open, fresh, holder, recent,
                 updateVars>>

\* By onException, or by Instance() in a client thread.
Reconnect ==
  /\ connection = 0
  /\ connections < MaxConnections
  /\ connections' = connections + 1
  /\ connection' = connections + 1
  /\ UNCHANGED <<session, opening, known, pc, callVars, result, consumerVars,
                 updateVars>>

-----------------------------------------------------------------------------
\* A program that was terminated takes no step any more.
Next ==
  /\ ~crashed
  /\ \/ Client
     \/ \E ch \in Channels, f \in Forms \cup {OtherMessage} : Publish(ch, f)
     \/ \E c \in Consumers : Dispatch(c)
     \/ Disconnect
     \/ Reconnect

Spec == Init /\ [][Next]_vars

\* The dispatch threads run, and handlers return.
Fairness == \A c \in Consumers : WF_vars(~crashed /\ Dispatch(c))

FairSpec == Spec /\ Fairness

-----------------------------------------------------------------------------
(* Properties                                                              *)

Labels == {"idle", "instance", "configure", "services", "ready", "request",
           "lookup", "create", "store", "erase"}

\* Every variable keeps its type.
TypeOK ==
  /\ connection \in 0..MaxConnections
  /\ connections \in 1..MaxConnections
  /\ session \in 0..MaxConnections
  /\ opening \in 0..MaxConnections
  /\ known \subseteq ValidChannels
  /\ pc \in Labels
  /\ op \in Operations
  /\ name \in Channels
  /\ disturbed \in BOOLEAN
  /\ unlisted \in BOOLEAN
  /\ calls \in 0..MaxCalls
  /\ result \in Results
  /\ created \in 0..calls
  /\ channel \in [Consumers -> Channels]
  /\ origin \in [Consumers -> 0..MaxConnections]
  /\ open \subseteq 1..created
  /\ fresh \in 0..created
  /\ holder \in [Channels -> 0..created]
  /\ recent \in [Channels -> 0..created]
  /\ published \in 0..MaxUpdates
  /\ form \in [Updates -> Forms \cup {OtherMessage, NoUpdate}]
  /\ queue \in [Consumers -> Seq(Updates)]
  /\ handling \in [Consumers -> 0..MaxUpdates]
  /\ item \in [Consumers -> Items]
  /\ seen \in [Consumers -> SUBSET Updates]
  /\ crashed \in BOOLEAN

\* "The most recently registered epics status handler will be used": between
\* calls the consumers that exist are those of the last successful subscription
\* to each channel that was not undone.  (GeminiUtil.h, line 26)
MostRecentIsUsed ==
  pc = "idle" =>
    /\ holder = recent
    /\ open = {c \in 1..created : recent[channel[c]] = c}

\* subscribeEpicsStatus returns ERROR only for a channel the GMP does not list, or
\* when it listed none at all to this very call, however late the names of the
\* channels were received: never because they were not.  (GeminiUtil.h, line 31)
ErrorMeansInvalid ==
  pc = "idle" /\ calls > 0 /\ op = "subscribe" /\ result = "ERROR"
    => name \notin ValidChannels \/ unlisted

\* Once the names are known, a subscription made after a connection was lost and
\* replaced works: it fails only if there was no connection during the call.
ResubscribeWhenKnown ==
  pc = "idle" /\ op = "subscribe" /\ result = "CommunicationException" /\ known # {}
    => disturbed

\* "We use a GiapiErrorHandler to reconnect/resubscribe the EPICS channels": the
\* same, whether the names are known or not.  (epicssubscription.cpp, lines 21-23)
ResubscribeWorks ==
  pc = "idle" /\ op = "subscribe" /\ result = "CommunicationException" => disturbed

\* What a handler reads of an item is what was published: each string and each byte
\* at its own index, and InvalidOperation outside 0 <= index < getCount().
\* (EpicsStatusItem.h, lines 67-80 and 132-145)
ItemsReadBack ==
  \A c \in Consumers :
    handling[c] # 0 /\ form[handling[c]] \in CompleteUpdates =>
      LET sent == form[handling[c]]
          got(index) == EpicsStatusItem(item[c], index)[item[c].type]
      IN \A index \in -1..(sent.count + 1) :
           got(index) = IF index \in 0..(sent.count - 1) THEN sent.elements[index + 1]
                        ELSE InvalidOperation

\* Updates end the program only when one of them was unsafe: strings that are all
\* there, whatever characters they have, and bytes, all there or not, pass through
\* the builders and through the handlers of the examples.
OnlyUnsafeUpdatesTerminate ==
  crashed => \E u \in 1..published : form[u] \in UnsafeUpdates

\* To its handler a consumer is what Delivery describes, whatever is subscribed,
\* undone or lost in the meantime; what is not a BytesMessage is skipped.
D == INSTANCE Delivery WITH Receivers <- Consumers, joined <- 1..created,
       active <- open, pending <- [c \in Consumers |-> Range(queue[c])]

ImplementsDelivery == D!Spec

\* An update received for the most recent subscription reaches its handler, unless
\* it is subscribed again or undone, its connection fails or the program ends.
UpdateReachesHandler ==
  \A c \in Consumers, u \in Updates :
    form[u] # OtherMessage /\ (\E i \in 1..Len(queue[c]) : queue[c][i] = u)
      ~> u \in seen[c] \/ c \notin open \/ origin[c] # connection \/ crashed
=============================================================================

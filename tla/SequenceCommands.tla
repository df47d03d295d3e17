-------------------------- MODULE SequenceCommands --------------------------
(***************************************************************************)
(* The sequence commands of one client: CommandUtil and JmsCommandUtil     *)
(* register handlers, a SequenceCommandConsumer receives the commands the  *)
(* GMP publishes on a topic and answers each with what its handler says.   *)
(*                                                                         *)
(* The consumer of the n-th subscription is the number n, and stands for   *)
(* its handler too.  A consumer lives as long as a shared pointer to it    *)
(* does: the local variable of subscribeSequenceCommand, or an entry of    *)
(* the ActivityHolder of its topic.  Each consumer has a session, hence a  *)
(* queue and a dispatch thread, of its own; closing it waits for a running *)
(* onMessage and drops what is queued.  The connection stays up.           *)
(***************************************************************************)
EXTENDS Naturals, Sequences, Functions

CONSTANTS
  Topics,           \* topics of sequence commands and apply prefixes
  MaxSubscriptions, \* bound: subscriptions in a behaviour
  MaxCommands,      \* bound: commands the GMP publishes
  MaxSendFailures   \* bound: replies that cannot be sent

ASSUME SequenceCommandsAssumption ==
  /\ Topics # {}
  /\ MaxSubscriptions \in Nat
  /\ MaxCommands \in Nat
  /\ MaxSendFailures \in Nat

Activities == {"PRESET", "START", "PRESET_START", "CANCEL"}

\* The activities whose commands pass the selector of a consumer.  SET_START
\* falls to the default of the switch: the selector text has no activity in it
\* and is malformed.
Selector ==
  [SET_PRESET              |-> {"PRESET"},
   SET_START               |-> {},
   SET_PRESET_START        |-> {"PRESET", "START", "PRESET_START"},
   SET_CANCEL              |-> {"CANCEL"},
   SET_PRESET_CANCEL       |-> {"PRESET", "CANCEL"},
   SET_START_CANCEL        |-> {"START", "CANCEL"},
   SET_PRESET_START_CANCEL |-> {"PRESET", "START", "PRESET_START", "CANCEL"}]

\* Mutation of Entries: a case of the switch files the consumer under an
\* activity of another one.
EntriesSwapped ==
  [SET_PRESET              |-> <<"PRESET">>,
   SET_START               |-> <<"START">>,
   SET_PRESET_START        |-> <<"PRESET_START">>,
   SET_CANCEL              |-> <<"CANCEL">>,
   SET_PRESET_CANCEL       |-> <<"PRESET", "START">>,
   SET_START_CANCEL        |-> <<"START", "CANCEL">>,
   SET_PRESET_START_CANCEL |-> <<"PRESET", "CANCEL", "START">>]

\* The entries of the ActivityHolder registerConsumer writes, in order.
Entries ==
  [SET_PRESET              |-> <<"PRESET">>,
   SET_START               |-> <<"START">>,
   SET_PRESET_START        |-> <<"PRESET_START">>,
   SET_CANCEL              |-> <<"CANCEL">>,
   SET_PRESET_CANCEL       |-> <<"PRESET", "CANCEL">>,
   SET_START_CANCEL        |-> <<"START", "CANCEL">>,
   SET_PRESET_START_CANCEL |-> <<"PRESET", "CANCEL", "START">>]

ActivitySets == DOMAIN Selector

Consumers == 1..MaxSubscriptions
Commands  == 1..MaxCommands

VARIABLES
  created,     \* number of consumers created so far
  topic,       \* the topic each consumer listens to
  set,         \* the activity set each consumer was created for
  holder,      \* the ActivityHolder of each topic; 0 is the null pointer
  registering, \* the consumer subscribeSequenceCommand is storing, or 0
  todo,        \* the entries registerConsumer has yet to write for it
  result,      \* what the last subscription returned
  published,   \* number of commands the GMP has published so far
  noReplyTo,   \* those among them without a reply destination
  queue,       \* the commands waiting in the session of each consumer
  handling,    \* the command the handler of each consumer works on, or 0
  recipients,  \* history: consumers each command was delivered to
  answers,     \* history: consumers that answered each command, in order
  sendFailures \* number of replies that could not be sent

vars == <<created, topic, set, holder, registering, todo, result, published,
          noReplyTo, queue, handling, recipients, answers, sendFailures>>

consumerVars == <<created, topic, set>>
commandVars  == <<published, noReplyTo, recipients, answers, sendFailures>>

-----------------------------------------------------------------------------
Selects(c) == Selector[set[c]]

Registered(c) == \E t \in Topics : \E a \in Activities : holder[t][a] = c

\* A shared pointer to the consumer exists.
Alive(c) == c \in 1..created /\ (c = registering \/ Registered(c))

\* The consumers a command for activity a on topic t is delivered to.
Listeners(t, a) == {c \in 1..created : Alive(c) /\ topic[c] = t /\ a \in Selects(c)}

Init ==
  /\ created = 0
  /\ topic = [c \in Consumers |-> CHOOSE t \in Topics : TRUE]
  /\ set = [c \in Consumers |-> "SET_PRESET"]
  /\ holder = [t \in Topics |-> [a \in Activities |-> 0]]
  /\ registering = 0
  /\ todo = <<>>
  /\ result = "OK"
  /\ published = 0
  /\ noReplyTo = {}
  /\ queue = [c \in Consumers |-> <<>>]
  /\ handling = [c \in Consumers |-> 0]
  /\ recipients = [m \in Commands |-> {}]
  /\ answers = [m \in Commands |-> <<>>]
  /\ sendFailures = 0

-----------------------------------------------------------------------------
(* Subscribing: one client thread                                          *)

\* The constructor of the consumer: from here on it receives commands.
CreateConsumer(t, s) ==
  /\ registering = 0
  /\ created < MaxSubscriptions
  /\ Selector[s] # {}
  /\ created' = created + 1
  /\ topic' = [topic EXCEPT ![created + 1] = t]
  /\ set' = [set EXCEPT ![created + 1] = s]
  /\ registering' = created + 1
  /\ todo' = Entries[s]
  /\ UNCHANGED <<holder, result, queue, handling, commandVars>>

\* Mutation of CreateConsumerThrows: a status code in place of an exception.
CreateConsumerReturnsError(t, s) ==
  /\ registering = 0
  /\ Selector[s] = {}
  /\ result' = "ERROR"
  /\ UNCHANGED <<consumerVars, holder, registering, todo, queue, handling,
                 commandVars>>

\* The broker rejects the malformed selector; the constructor cleans up and
\* throws CommunicationException.
CreateConsumerThrows(t, s) ==
  /\ registering = 0
  /\ Selector[s] = {}
  /\ result' = "CommunicationException"
  /\ UNCHANGED <<consumerVars, holder, registering, todo, queue, handling,
                 commandVars>>

\* The consumer that entry a of topic t holds loses its last reference when the
\* entry is overwritten.
Discarded(t, a) ==
  {c \in {holder[t][a]} \ {0, registering} :
     \A u \in Topics, b \in Activities : <<u, b>> # <<t, a>> => holder[u][b] # c}

\* Mutation of RegisterActivity: an entry in use is not overwritten.
RegisterActivityOnce ==
  /\ registering # 0
  /\ todo # <<>>
  /\ LET t == topic[registering]
         a == Head(todo)
     IN holder' = [holder EXCEPT ![t][a] = IF @ = 0 THEN registering ELSE @]
  /\ todo' = Tail(todo)
  /\ UNCHANGED <<consumerVars, registering, result, queue, handling, commandVars>>

\* Mutation of RegisterActivity: the old consumer is destroyed while its handler
\* is running.
RegisterActivityAtOnce ==
  /\ registering # 0
  /\ todo # <<>>
  /\ LET t == topic[registering]
         a == Head(todo)
     IN /\ queue' = [c \in Consumers |-> IF c \in Discarded(t, a) THEN <<>>
                                         ELSE queue[c]]
        /\ holder' = [holder EXCEPT ![t][a] = registering]
  /\ todo' = Tail(todo)
  /\ UNCHANGED <<consumerVars, registering, result, handling, commandVars>>

\* Overwriting an entry destroys the old consumer when nothing else refers to
\* it: that waits for its onMessage and drops the commands it has queued.
RegisterActivity ==
  /\ registering # 0
  /\ todo # <<>>
  /\ LET t == topic[registering]
         a == Head(todo)
     IN /\ \A c \in Discarded(t, a) : handling[c] = 0
        /\ queue' = [c \in Consumers |-> IF c \in Discarded(t, a) THEN <<>>
                                         ELSE queue[c]]
        /\ holder' = [holder EXCEPT ![t][a] = registering]
  /\ todo' = Tail(todo)
  /\ UNCHANGED <<consumerVars, registering, result, handling, commandVars>>

\* subscribeSequenceCommand returns and its local pointer goes away.
SubscribeReturns ==
  /\ registering # 0
  /\ todo = <<>>
  /\ registering' = 0
  /\ result' = "OK"
  /\ UNCHANGED <<consumerVars, holder, todo, queue, handling, commandVars>>

-----------------------------------------------------------------------------
(* Commands: the GMP and the dispatch threads                              *)

\* The GMP publishes the next command; every consumer of the topic whose
\* selector lets it pass gets a copy.
Publish(t, a) ==
  /\ published < MaxCommands
  /\ LET m  == published + 1
         to == Listeners(t, a)
     IN /\ published' = m
        /\ noReplyTo' \in {noReplyTo, noReplyTo \cup {m}}
        /\ recipients' = [recipients EXCEPT ![m] = to]
        /\ queue' = [c \in Consumers |-> IF c \in to THEN Append(queue[c], m)
                                         ELSE queue[c]]
  /\ UNCHANGED <<consumerVars, holder, registering, todo, result, handling,
                 answers, sendFailures>>

\* Mutation of OnMessage: the message stays in the queue.
OnMessageKeeps(c) ==
  /\ handling[c] = 0
  /\ queue[c] # <<>>
  /\ handling' = [handling EXCEPT ![c] = Head(queue[c])]
  /\ UNCHANGED <<consumerVars, holder, registering, todo, result, queue,
                 commandVars>>

\* Mutation of OnMessage: the message is taken and the handler not called.
OnMessageLoses(c) ==
  /\ handling[c] = 0
  /\ queue[c] # <<>>
  /\ queue' = [queue EXCEPT ![c] = Tail(@)]
  /\ UNCHANGED <<consumerVars, holder, registering, todo, result, handling,
                 commandVars>>

\* The dispatch thread of c takes the next command and calls the handler; the rest of
\* onMessage is Reply or ReplyThrows.
OnMessage(c) ==
  /\ handling[c] = 0
  /\ queue[c] # <<>>
  /\ handling' = [handling EXCEPT ![c] = Head(queue[c])]
  /\ queue' = [queue EXCEPT ![c] = Tail(@)]
  /\ UNCHANGED <<consumerVars, holder, registering, todo, result, commandVars>>

\* The handler returned.  Without a destination (noReplyTo) onMessage returns early
\* and nothing is sent; otherwise the reply goes there.
Reply(c) ==
  /\ handling[c] # 0
  /\ answers' = [m \in Commands |-> IF m = handling[c] /\ m \notin noReplyTo
                                    THEN Append(answers[m], c) ELSE answers[m]]
  /\ handling' = [handling EXCEPT ![c] = 0]
  /\ UNCHANGED <<consumerVars, holder, registering, todo, result, queue,
                 published, noReplyTo, recipients, sendFailures>>

\* CMSException on the way to the reply: it is printed, the message is gone.
ReplyThrows(c) ==
  /\ handling[c] # 0
  /\ sendFailures < MaxSendFailures
  /\ sendFailures' = sendFailures + 1
  /\ handling' = [handling EXCEPT ![c] = 0]
  /\ UNCHANGED <<consumerVars, holder, registering, todo, result, queue,
                 published, noReplyTo, recipients, answers>>

-----------------------------------------------------------------------------
Client ==
  \/ \E t \in Topics, s \in ActivitySets :
       CreateConsumer(t, s) \/ CreateConsumerThrows(t, s)
  \/ RegisterActivity
  \/ SubscribeReturns

Dispatch(c) == OnMessage(c) \/ Reply(c) \/ ReplyThrows(c)

Next ==
  \/ Client
  \/ \E t \in Topics, a \in Activities : Publish(t, a)
  \/ \E c \in Consumers : Dispatch(c)

Spec == Init /\ [][Next]_vars

\* The dispatch threads run and handlers return.
Fairness == \A c \in Consumers : WF_vars(OnMessage(c)) /\ WF_vars(Reply(c))

FairSpec == Spec /\ Fairness

-----------------------------------------------------------------------------
(* Properties                                                              *)

\* Every variable keeps its type; the local state of a subscription in
\* progress belongs to the consumer created last.
TypeOK ==
  /\ created \in 0..MaxSubscriptions
  /\ topic \in [Consumers -> Topics]
  /\ set \in [Consumers -> ActivitySets]
  /\ holder \in [Topics -> [Activities -> 0..MaxSubscriptions]]
  /\ registering \in {0, created}
  /\ todo \in Seq(Activities)
  /\ result \in {"OK", "CommunicationException"}
  /\ published \in 0..MaxCommands
  /\ noReplyTo \subseteq 1..published
  /\ queue \in [Consumers -> Seq(Commands)]
  /\ handling \in [Consumers -> 0..MaxCommands]
  /\ recipients \in [Commands -> SUBSET Consumers]
  /\ answers \in [Commands -> Seq(Consumers)]
  /\ sendFailures \in 0..MaxSendFailures

\* registerConsumer and buildSelector decompose an activity set in two separate
\* switches: whatever has been registered, the consumer an ActivityHolder holds
\* for an activity listens to that topic and receives that activity.
HolderReceives ==
  \A t \in Topics, a \in Activities :
    LET c == holder[t][a] IN
    c # 0 => c \in 1..created /\ topic[c] = t /\ a \in Selects(c)

\* c is the most recent consumer on its topic that receives activity a.
MostRecent(c, a) ==
  /\ c \in 1..created
  /\ a \in Selects(c)
  /\ \A d \in 1..created : d > c /\ topic[d] = topic[c] => a \notin Selects(d)

\* "The most recently registered sequence command handler will be used": after
\* any sequence of subscriptions, in any order and also in the middle of one,
\* the most recent consumer for PRESET, START or CANCEL is still alive, so these
\* commands never go unheard once they have been subscribed.
MostRecentIsUsed ==
  \A c \in Consumers, a \in Activities \ {"PRESET_START"} :
    MostRecent(c, a) => Alive(c)

\* A command is answered at most once by a consumer, and only by consumers that
\* were listening for it when it was published.
AnsweredOnce ==
  \A m \in Commands :
    /\ \A i \in 1..Len(answers[m]) : answers[m][i] \in recipients[m]
    /\ \A i, j \in 1..Len(answers[m]) : answers[m][i] = answers[m][j] => i = j

Answered(m, c) == \E i \in 1..Len(answers[m]) : answers[m][i] = c

\* A command that reached a consumer is answered, unless it asks for no answer
\* or the consumer is discarded by a later subscription before its turn.
CommandAnswered ==
  \A m \in Commands, c \in Consumers :
    c \in recipients[m] ~>
      Answered(m, c) \/ m \in noReplyTo \/ ~Alive(c) \/ sendFailures > 0

\* To its handler a consumer is what Delivery describes, whatever is subscribed in
\* the meantime: it exists from its constructor on until the last entry of an
\* ActivityHolder that refers to it is overwritten.
D == INSTANCE Delivery WITH Receivers <- Consumers, joined <- 1..created,
       active <- {c \in Consumers : Alive(c)},
       pending <- [c \in Consumers |-> Range(queue[c])]

ImplementsDelivery == D!Spec

\* "The most recently registered sequence command handler for a sequence command
\* will be used", for PRESET_START as for the other activities.
\* (CommandUtil.h, line 35)
MostRecentIsUsedForAll ==
  \A c \in Consumers, a \in Activities : MostRecent(c, a) => Alive(c)
=============================================================================

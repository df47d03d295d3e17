# A verification model of giapi-glue

giapi-glue is the C++ library through which Gemini instrument code talks to the
Gemini Master Process (GMP): it receives sequence commands, posts status items and
events, subscribes to EPICS channels and asks the GMP for values, all over an
ActiveMQ broker.  This directory holds TLA+ modules of its core, the TLC
configurations that check them on small instances, and proofs that TLAPS checks for
every value of the constants.

The library's code is in the repository's `src/`, to which the file names in the first
table are relative, and its public headers are in `giapi/`.

## 1. The system: components, state, interactions

| Component | State it keeps | Operations | Interacts with |
|---|---|---|---|
| Connection manager (`gmp/ConnectionManager.cpp`) | one `_connection`, two `std::set`s of error handlers | `Instance`, `startup`, `createSession`, `registerOperation`, `registerHandler`, `onException` | every other component takes its sessions here; the transport thread of ActiveMQ calls `onException`, which calls the client's error handlers |
| Sequence commands (`commands/JmsCommandUtil.cpp`, `SequenceCommandConsumer.cpp`) | an `ActivityHolder` per topic: four shared pointers to consumers | `subscribeSequenceCommand`, `subscribeApply`, `onMessage` | broker selects by topic and selector; dispatch threads call the handler and reply |
| Handlers and completion info (`commands/CommandUtil.cpp`, `HandlerResponse.cpp`, `CompletionInfoProducer.cpp`; the handlers of `examples/`) | a worker and its thread per handler, the action and the label it was told last; a session and a producer for completion info | `handle`, `run`, `postCompletionInfo` | dispatch threads call `handle`, which starts a thread; that posts events, status items and completion info through singletons |
| Status items and posting (`status/`) | the list and the map of items; per item its value, alarm fields and dirty flag | create, set value, set or clear alarm, set health, post one, post all | called by client threads and by command handlers (`examples/ObsGdsHandler.h:86,97`); sends one message per dirty item |
| Calls that send (`services/`, `data/`, `gemini/tcs/jms/`, `gemini/pcs/jms/`, `gemini/epics/jms/JmsEpicsFetcher.cpp`, `JmsEpicsConfiguration.cpp`) | three singletons with a session and a producer per service; per request a message, a temporary queue and its consumer | `systemLog`, `postObservationEvent`, file events, `postPcsUpdate`; `getProperty`, `getTcsContext`, `getChannel`, `tcsApplyOffset`, request for the channel names | the first call makes the singleton, over `ConnectionManager`; the GMP answers requests on the temporary queue, or not; the programs of `examples/` catch some of the exceptions |
| EPICS subscriptions (`gemini/epics/jms/JmsEpicsManager.cpp`, `EpicsConsumer.cpp`, `JmsEpicsFactory.cpp`, the builders; `gemini/epics/EpicsStatusItemImpl.cpp`) | the valid names, a map from channel to consumer; per update an item, which is memory and a type | `subscribeEpicsStatus`, `unsubscribeEpicsStatus`, `onMessage` | uses the request for the names; error handlers re-subscribe after a reconnection; the client's handler reads the item through getters |
| Configurations, conversions (`commands/Configuration.cpp`, `util/`) | a map; none | set and get; format | – |

What is hard in this code, and what the properties are for:

* **No lock anywhere.**  `ConnectionManager::Instance()`, `startup()` and
  `onException()` run in client threads and in ActiveMQ's transport threads; status
  items are set by one thread and posted by another.
* **Failure at every call of the broker.**  A connection can fail between any two
  steps; a message may not be sent; an answer may be late or never come.  The broker's
  address is `failover:(...)` with `connection.useAsyncSend=true`
  (`gmp/ConnectionManager.cpp:58-66`): while the transport reconnects by itself a send
  blocks, or returns though its message is lost; `onException` is called when the broker
  closes the connection or the transport gives up.
* **Exceptions that reach nobody.**  `onMessage` promises `throw()`; threads swallow what
  leaves `run()`; the classes of the exceptions are not what the examples catch.
* **Two tables that must agree.**  `buildSelector` and `registerConsumer` decompose
  the activity sets in two separate switches.
* **Ownership by shared pointer.**  Overwriting an entry of a map destroys the
  consumer in it, with its thread and the messages it has queued.
* **Stale sessions.**  Singletons keep the session of the connection they were made
  on, and a connection is replaced after a failure.

What makes each component correct:

* connection: no connection object leaked or used after it was deleted, sessions opened
  on the one in place only and ending with theirs, its listener installed, a loss always
  followed by a recovery, every handler told;
* commands: the most recent handler of an activity is the one that hears of it; a
  command is answered, and answered once by a consumer;
* actions: the GMP sees one answer and at most one completion of each, which do not
  contradict each other, and an observation's events in order, all of them, before it;
* status: a change is sent by the next post, once, and an alarm that is over leaves
  no cause and no message;
* calls: a call takes its own answer only, frees what it made, ends when it should,
  returns what the documentation says, sends what it says it sent, and ends no program
  that catches the library's exceptions;
* EPICS: the most recent handler is the only one, wrong names are refused and right
  ones are not, a client can re-subscribe after a reconnection, and a handler reads what
  was published.

## 2. Modules

```
Sessions <= ConnectionManager <- MCConnectionManager   (symmetry of the client threads)
                              <- ConnectionManager_proofs
Delivery <= SequenceCommands  <- SequenceCommands_proofs
Actions  <= ActionHandlers    <- ActionHandlers_proofs
            StatusPosting     <- StatusPosting_proofs
Requests <= RequestReply      <- RequestReply_proofs
GiapiCalls <- RequestReply
EpicsItems <- EpicsSubscriptions <- MCEpicsSubscriptions  (forms of updates)
Delivery   <= EpicsSubscriptions <- EpicsSubscriptions_proofs
EpicsItems <- EpicsItems_proofs  <- EpicsSubscriptions_proofs
Queues_proofs <- SequenceCommands_proofs, EpicsSubscriptions_proofs

A <- B: B extends A.   A <= B: B implements A, by INSTANCE A WITH a refinement mapping.
```

The state machines are alternatives, not layers: each models its component in full and
its neighbours as far as the component can tell.  `EpicsSubscriptions` and
`ActionHandlers` use a summary of `ConnectionManager` (numbered connections that come and
go), `ActionHandlers` one of `SequenceCommands` (a handler has one consumer) and of the
calls that send (they work, throw, or lose the message), and `EpicsSubscriptions` one of
the request for the names in `RequestReply` (it answers, times out or throws).
`GiapiCalls` and `EpicsItems` are tables and operators without state.  Operators whose
comment begins with "Mutation of" are deliberate mistakes: put in place of the
operator they name, each makes one property of one run fail, which shows that the
property depends on the code.  No specification uses them.

### ConnectionManager

A process is a client thread (`Threads`) or an invocation of `onException` in the
transport thread of a connection that failed (`Recoveries`).  `pc` names the next
statement.  `Instance` is the null test of a client; `CreateSession` and `RegisterHandler`
are what it calls then.  `_connection` is a `std::tr1::shared_ptr`
(`util/JmsSmartPointers.h:20`), so line 74 takes three steps: `CreateConnection` makes the
new object, which only its process knows (`temp`); `ReplaceConnection` is the swap in
`reset()`, after which everybody sees the new pointer and `temp` holds the old one;
`CloseReplaced` destroys that, which closes it and disposes its sessions, while the other
processes go on.  `StartConnection` and `SetExceptionListener` act on whatever the pointer
holds by then.  In `onException`, `TestConnection` and `StopConnection` are the null test
and the call of `stop()`; `DropConnection` and `CloseDropped` are the swap with the null
pointer and the destruction; then `AwaitRetry`, the steps of `startup()`, `InvokeFunction` and
`InvokeObject`.  Iterating over a `std::set` is visiting the smallest key ahead of the
iterator, so a handler inserted meanwhile may or may not be seen, as in the library.

`failed` are the connections whose transport failed, `dead` those of them that failed with
nobody listening, on which every call throws.  Following a null pointer is the state
`crashed`.  Abstracted: the swap of the pointer and a call through it are one step each, so
an object destroyed while another thread is inside one of its functions, which is
undefined, is not modelled; and closing a connection is one step.

`Sessions` is what the parts that open sessions see of it: `current` is the connection that
is in place and has not failed, if there is one (in `ConnectionManager` it is `None` as soon
as the transport of the one in place has failed, heard or not), and sessions are opened on
it only.  Connections are put in place and dropped; a session ends by its owner or with its
connection, which fails or is closed some time after it was dropped or replaced, and no
other session ends with it.  That is the summary of connections `ActionHandlers` and
`EpicsSubscriptions` use, who let a replacement and its disposal be one step.

### SequenceCommands

`CreateConsumer` is the constructor of the n-th consumer, after which the broker
delivers to it; `RegisterActivity` writes one entry of the `ActivityHolder` and destroys
the consumer that loses its last reference; `SubscribeReturns` drops the local pointer.
`Publish` copies a command to the queues of all consumers whose selector passes it;
`OnMessage`, `Reply` and `ReplyThrows` are a dispatch thread: a command without a reply
destination (`noReplyTo`) is handled and not answered.  Destroying a consumer waits
for its `onMessage` and empties its queue: ActiveMQ closes a consumer under the monitor
its dispatch holds.  One client thread subscribes.

`Delivery` is what a consumer, of commands or of updates, promises its handler: messages
published while it exists, in the order they were published, one at a time, none twice, and
nothing once it is destroyed.  In `SequenceCommands` the active receivers are the consumers
that are `Alive`, in `EpicsSubscriptions` those that are `open`; the messages pending for
one are what is in its queue.  That a queue is in order is for the refinement to show:
`Delivery` has sets, of which the least message is taken.

### Actions and ActionHandlers

`Actions` is what the GMP may see of the actions it starts: issued, answered once,
observed, completed.  `ActionHandlers` is how the library and the handlers of the examples
get there.  `Handle` is `onMessage` up to the decision of `handle()`, which `Decisions`
gives for each handler class; `StartWorker` is the join of the handler's last thread and
the start of the next, in the dispatch thread; `Reply` the answer.  The thread of an
action goes through `Plan`, one send a step: `ReadLabel`, `PostEvent`, `PostStatus`,
`Complete`.  A worker is shared by all threads of its handler, so `Complete` reads the id
the worker was told last.  `Sends` is a call of a singleton, which is made on the first
one (`InstanceReturns`, `InstanceThrows`) and keeps its session: `Fate` says what becomes of
a message over a session of connection c.  `LinkFails` and `LinkRecovers` are the failover
transport, `Drop` and `Reconnect` `ConnectionManager::onException`, which waits for the
dispatch threads and not for the others.  An `InstCmdHandler` answers and posts whatever
its client likes.

The refinement mapping takes `1..issued` for the issued actions and the history variables
`answer`, `completion` and `events` for what the GMP has seen.

### StatusPosting

Each setter is split at every write: `CompareValue`, `MarkValue`, `AssignValue`;
`CompareAlarm`, `AssignSeverity`, `AssignCause`, `AssignMessage`, `MarkAlarm`.  Posting is
`PostItem` or `PostAll`, then per item `Check`, `ClearChanged`, `Serialize` (one field per
step) and `Send` or `SendThrows`.  Reading a field another thread writes returns any value
of its type: a data race has no better outcome.  `CreateItem` is the client's: an item is
listed before the threads set it.

### GiapiCalls and RequestReply

`GiapiCalls` says what distinguishes the ten kinds of calls: what a method rejects, what
it throws when the broker does, what it makes of each kind of answer or of none, and when
it deletes its message (`MethodOf`); which handlers catch which exception (`HandlersOf`); and
the calls the example programs make, with the handlers around them (`ProgramCalls`).
`Careful` adds a program that catches `GiapiException` around every kind of call, each with a
timeout except `getProperty`, which stands for the requests without one.

In `RequestReply` call n is a process: `Instance` or `InstanceThrows` (the singleton),
`Reject` (arguments), `CreateMessage`, `Post` for calls that only send; `CreateReplyQueue`,
`CreateConsumer`, `Send`, `Receive`, `TakeReply` or `ReceiveNothing`, `DestroyQueue`, and `FinishAnswered` or
`FinishUnanswered` for the others.  `Throw` is a `CMSException`, which any operation on a
session may throw, whether it works or not, and must once it is disposed; one that throws
has had no effect (closing the consumer and destroying the queue are one step).  `Catch` is
the method's handler, which deletes the message again and leaves the queue and its consumer
where they are.  A
program ends (`crashed`) by an exception it does not catch, one in the detached thread of a
callback, text that is no number under `throw()`, or a double delete, which may or may not
end it.  `Disconnect` disposes the sessions that exist, for good; a singleton made
afterwards works.

`Requests` is what a call promises its program: its message is sent once at most, it returns
once, and what it returns has a reason.  Its arguments were rejected and nothing was sent; or
what is not answered was sent; or the GMP answered this very request and the result is what
such an answer means; or the request was sent and no answer taken; or the library failed.
The answers under way are those in the queues.

### EpicsItems and EpicsSubscriptions

One client thread subscribes and unsubscribes.  `OpenSession`, `Configure` and
`OpenServices` are the construction of `GeminiUtilImpl` on the first call and
`InstanceThrows` its failure; `RequestChannels`, `RequestTimesOut` and `RequestThrows` are
the request for the names while none are known, to which the GMP may answer with no name
at all (`unlisted`); `CreateConsumer` and `StoreConsumer` make
the new consumer and then destroy the old one, in that order; `EraseConsumer` undoes it.
Connections are numbered; a session works while its number is the current one.

`OnMessage` turns an update into an item by `buildEpicsStatusItem` of `EpicsItems`.  Memory
there is a sequence of cells.  The builders of numbers allocate one byte per element:
what writing behind that does is undefined, so their result is the item, an item with
other values, or the end of the program.  No item comes of a type without a builder, nor of
a message that ends within its type, its name or its count (`CutShort`), whose exception is
caught.  The getters find an element again, strings by
skipping the ones before it.  `HandlerThrows` is the handler of the example, which reads
every element with the getter of `GetterOf` and catches nothing.

## 3. Runs

| Run | States | Shows |
|---|---|---|
| `connection_threads` | 710 000 | Two client threads, one failure, a handler of each kind: `ConnectionsOwned` (every connection object that exists is in place or owned by one process, none is deleted twice, and a session that works is of one of these), `ListenerInstalled` (a started connection without listener is being closed, or is in place with somebody about to install it), `AllHandlersInvoked` (what was registered before the failure is invoked before `onException` returns, whatever is registered meanwhile), `ImplementsSessions` (to those with sessions it is `Sessions`). |
| `connection_recovery` | 82 000 | One client thread, two failures, two `onException`: a session lost on an established connection is always followed by a run of the handlers (`SessionLossAnnounced`); an `onException` that got past `stop()` gets a connection and reaches the handlers (`RecoverySucceeds`). |
| `connection_lost_failure` | violation | `FailureIsHandled`: a failure between `start()` and `setExceptionListener()` is never handled. |
| `commands` | 165 000 | `HolderReceives`, `MostRecentIsUsed`, `AnsweredOnce`, `CommandAnswered`, `ImplementsDelivery` for all sequences of three subscriptions with a command at any moment. |
| `commands_preset_start` | violation | `MostRecentIsUsedForAll`: the same for `PRESET_START` does not hold. |
| `action_handlers` | 164 000 | `ImplementsActions`: all the GMP sees is allowed by `Actions`; `ObservationComplete`: a completed observation was told in full; `EveryActionAnswered`: joining an earlier thread delays an answer but does not prevent it; `RunningIsCompleted`: a running action is completed while the singletons are of the connection that is up. |
| `status_posting` | 3 000 000 | `PublishedIsCurrent`, `PostedOnlyIfMarked`, `OkAlarmIsClean` with one thread for values and posts and one for alarms. |
| `status_set_post_race` | violation | `PublishedIsCurrent` with the value set by another thread than the one that posts. |
| `requests` | 232 000 | `OwnAnswer`, `QueuesReleased`, `UntimedNeverTimesOut`, `PostsAsReported`, `CarefulProgramSurvives`, `CallReturns`, `ImplementsRequests` for two calls of one program, of the 27 in `ProgramCalls`. |
| `requests_offset` | violation | `OffsetReported`: 0, which is `status::OK`, is returned for an offset that was refused. |
| `epics` | 478 000 | `MostRecentIsUsed`, `ErrorMeansInvalid`, `ResubscribeWhenKnown`, `ItemsReadBack`, `OnlyUnsafeUpdatesTerminate`, `UpdateReachesHandler`, `ImplementsDelivery` for three calls, two connections and two updates of any of six forms. |
| `epics_stale_session` | violation | `ResubscribeWorks`: without the names, no subscription succeeds on a new connection. |

### Bounds

* `connection_threads`: two threads are the fewest that race in `startup()`, and one
  failure brings `onException` in as the third process; one handler of each kind may be
  registered before, during or after it.  Threads are interchangeable there, so the run
  uses symmetry; the runs with liveness do not.  `connection_recovery` has two failures, so
  a second `onException` begins while the first is at work; more of them, with more
  connections, are in the proof of `SessionLossAnnounced`.  `RecoverySucceeds` speaks of an
  `onException` that is past `stop()`, for which a further failure means no more than another
  round of its loop; of one that is not there yet it promises nothing, since with three
  failures the connection it finds may itself be dead.  There are as many `onException` as failures, and more
  connection objects than processes, since each may own one beside the one in place
  (`PoolAssumption`).
* Three subscriptions are the fewest in which an entry is overwritten through two others;
  the holder has four entries and no set is filed under more than three.  The proofs
  cover any number.
* Two actions are the fewest of which one waits for the other's thread, and two
  connections and one failure the fewest for a stale singleton; the three programs hold
  all six classes of handlers, and a program with two handlers has two dispatch threads.
* Two items, one of them an alarm item, three setting calls and one failing post: one item
  is set while the other is posted, and a set item is set again before and after a post.
* Two calls are what one call can mistake for another; their kinds, answers and the order
  of everything are free, but both are of one program (`OfOneProgram`), whose process holds
  the singletons.  `Careful` is the program that makes calls of all kinds.  `getProperty` stands for the requests without a timeout.
* Three EPICS calls allow a failed first call, a subscription, and one that replaces it on
  the new connection or undoes it; two updates, one for the old consumer and one for the
  new, or both for the same, in order (`commands` has one command and leaves the order to
  `epics` and to the proof).  `MCEpicsSubscriptions` gives the forms of updates: strings,
  one of them empty; strings with a NUL inside, one of them missing; bytes; a number, which
  is larger than its memory; a header that is cut short, which, like an unknown type, makes a
  null item.  A message that is no `BytesMessage` is
  always among them.  `Forms` is a constant, and the proofs cover any.

### Fairness, and why the code justifies it

* `ConnectionManager`: the transport thread runs `onException` and its `await()` ends
  (weak fairness of its steps).  Reaching the broker is strong fairness of
  `CreateConnection` and `StartConnection`: a broker tried for ever is reached in the end.
  Nothing is assumed of clients.
* `SequenceCommands`, `EpicsSubscriptions`: dispatch threads run and handlers return.
* `ActionHandlers`: dispatch threads and the threads of actions run, sleeps and callbacks
  end, except while the link is failing, when a send may block as long as that lasts.
  Neither the recovery of the link nor a reconnection is assumed.
* `RequestReply`: threads run and `receive(timeout)` ends.  The GMP is not assumed to
  answer; therefore `CallReturns` promises nothing to a call without a timeout while the
  connection is up.

Deadlock is checked in the connection and status runs.  The others say
`CHECK_DEADLOCK FALSE`, since a client that asks for nothing more leaves the library idle,
and a call without a timeout may wait for ever.

## 4. Proofs

All theorems are of the specification without fairness and hold for every value of the
constants that the modules' named assumptions allow.

**ConnectionManager_proofs.** `TypeCorrect`; `EveryConnectionOwned` (`ConnectionsOwned`)
and `ListenerAlwaysInstalled` from `OwnInv`.  What the properties say of objects is not
inductive without what it means for the processes: a process owns an object exactly between
making or swapping it out and giving it away (`TempInv`), one that is about to be put in
place was never in place, so it is neither heard nor has it sessions (`FreshInv`), and one
that does not exist is neither heard nor failed (`FreeInv`).  With these the parts of
`ConnectionsOwned` and `ListenerInstalled` are inductive together, because
`CreateConnection`, the swap and the destruction of what was swapped out are the only steps
that move an object, and every call acts on the one in place.
`EveryHandlerInvoked` is an action property, from `HandlersInv`: what an
`onException` has invoked is all that was registered up to the key of its iterator, so
when nothing is ahead everything of `before` has been invoked.  It assumes that no
handler throws; with one that throws it is false.  `SessionLossAlwaysAnnounced`, for one
client thread, from `LossInv`: the property counts an `onException` at `stop()`, which may
yet return with nothing done, so the invariant asks for one that is past it, or for one
that will find in place a connection that failed while it was heard, on which `stop()` does
not throw, while the client is not about to replace it (`Announcing`); and a client inside
`startup()` has no session, unless an `onException` is closing it (`StarterInv`).
`ManagerImplementsSessions` (`ImplementsSessions`) is the refinement, from `OwnInv`: what the
swap puts in place has no session yet, and closing what it replaced ends the sessions of
that one and of no other.

**SequenceCommands_proofs.** `TypeCorrect`; `HolderAlwaysReceives` and
`MostRecentAlwaysUsed` from `HolderInv`.  `MostRecentIsUsed` is not inductive: the
invariant says that the most recent consumer for an activity is in its key entry
(`PRESET_START` for a consumer of `SET_PRESET_START`, the activity itself for all others)
or about to be written there.  It is inductive because every entry is of a consumer that
receives that activity, and an entry for `PRESET_START` always comes from
`SET_PRESET_START`, so whoever overwrites a key entry receives the activity and is more
recent.  `AlwaysAnsweredOnce` from `AnswerInv`: a command waits at most once in a queue, not
in that of a consumer that is handling it, and is owed an answer while it waits and while
it is handled.  `CommandsImplementDelivery` (`ImplementsDelivery`) from `DeliveryInv`: every
queue is strictly increasing, so its head is its least message and no message is there
twice (`QueuesInOrder`); a consumer that is not alive has an empty queue and no handler at
work (`DeadAreSilent`); and no consumer is alive that does not exist yet (`Stored`).
**Queues_proofs** has the lemmas about increasing queues that this refinement and the one of
`EpicsSubscriptions` share.

**ActionHandlers_proofs.** `TypeCorrect` and `HandlersImplementActions`
(`ImplementsActions`), the refinement: initial states map to initial states and each step
to a step of `Actions` or a stutter.  The invariant says who may still speak for an action.
A command in a queue is there once and nothing has been done for it (`Queued`,
`Unissued`); one in a dispatch thread is unanswered, and untouched if it is to be answered
`STARTED` (`Handled`, `Joining`); while a thread runs, its worker was last told this very
action, its action is not completed, and its events are of earlier steps (`Told`,
`Running`); without a thread there is no completion and no event (`Idle`).  That the worker
was told this action is what the join in `handle()` is for.  `ObservationAlwaysComplete`
from `ObservationInv`: as long as no link has failed nothing is lost and nothing throws, so
an observation has sent exactly the events of the steps it is past.

**StatusPosting_proofs.** `TypeCorrect`; `NothingLost` (`PublishedIsCurrent`) for one
thread that posts and is the only one to set values, from `PubInv`, which accounts for
every item: it is dirty, or an alarm setter is at work that will mark it, or the message
being made agrees with it in every field already read, or it has been sent as it is (or
its last post threw).  The assumption is needed, as `status_set_post_race` shows.
`EveryPostHasItsMark` (`PostedOnlyIfMarked`) for one thread that posts and any that set,
from `MarkInv`: posts, plus one while the flag is up, never exceed marks.  `AlarmsReset`
(`OkAlarmIsClean`) for one thread that sets alarms, from `AlarmInv`: severity OK beside a
cause or a message that is not reset means that thread is about to reset it.

**RequestReply_proofs.** `TypeCorrect`; `AnswersAreOwn`, `QueuesAlwaysReleased` and
`UntimedNeverTimesOutEver` from `ReplyInv`: past `instance` a call has a singleton
(`SessionsMade`), it waits on the queue of its own number and a message there is addressed
to it (`AnswersInPlace`), a queue exists only while its call is between making and
destroying it, or after a call that an exception ended on a session that works
(`QueuesInUse`), and a call that received nothing has a timeout or lost its
session (`NoAnswerReason`).  `PostsAlwaysAsReported` from `PostsInv`, which follows the flaws
of a call to the guard that rejects them: what comes past it has none.
`CarefulProgramAlwaysSurvives` from the tables of `GiapiCalls`, where every exception a
method throws is one a handler for `GiapiException` catches, and from `DeletedSent`: a
message that is deleted before the end of its call was sent, so the handlers of
`CMSException` delete it a second time only after the send, which is what the property
exempts.
`CallsImplementRequests` (`ImplementsRequests`) from `RequestInv`: a call has sent its message
exactly if it is past sending it, has taken no answer before the end of its wait and returned
nothing before its end (`SentOnce`); a request the GMP has yet to answer was sent, and a queue
holds one answer at most and none while its request is pending (`AnsweredAtMostOnce`).  With
`AnswersInPlace` of `ReplyInv` the answers under way to a call are those in its queue, so
taking one removes it and destroying the queue loses no other's.

**EpicsSubscriptions_proofs.** `TypeCorrect`, which needs that every consumer belongs to
a call (`CountInv`).  `MostRecentIsUsedCorrect` from `HolderInv`: the property says
nothing of the time inside a call, when the consumer about to be stored and the one it
replaces both exist; the invariant does, and adds that a consumer is held under its own
channel only, so destroying the one held under `name` touches no other channel.
`ErrorMeansInvalidCorrect` and `ResubscribeWhenKnownCorrect` from `NamesInv`: the names
are all known or none is, a subscription reaches the lookup with names, unless the GMP has
just listed none to it, and asks for them without, so the stale session is used only while nothing is known.
`ItemsAlwaysReadBack` and `OnlyUnsafeUpdatesEverTerminate` from `ItemsInv`: the item in a
handler was built from the update it handles, which was published and does not change
while it waits.  `UpdatesImplementDelivery` (`ImplementsDelivery`) from `DeliveryInv`: queues
in order, and a closed consumer silent, as for the commands; a lost connection is the step
of `Delivery` that empties what is pending.

**EpicsItems_proofs.** What a handler reads of an update of any size: `StringsReadBack` (each
string as far as its first NUL, for any number of strings of any length that are all there)
and `BytesReadBack`, from which `ItemsAlwaysReadBack` follows.  The loop of the builder is a
recursive function, which joins the strings with their NULs: what has been joined stays
where it is (`FlatteningGrows`), so each string starts where those before it end
(`FlatteningBlock`), and its first NUL is its last character (`StringsStart`), since what
`strcpy` copied has none (`CStrings`, `FirstNul`).  The loop of the getter is another one,
which by induction over the index stands at the start of the string (`StringsFound`).  The
induction is over the natural numbers: `Induct` concludes that a set contains them all,
since otherwise one of them would be the least that is missing (`LeastElement`).

Only model-checked: liveness (`RecoverySucceeds`, `CommandAnswered`, `EveryActionAnswered`,
`RunningIsCompleted`, `CallReturns`, `UpdateReachesHandler`), which with fairness and
`ENABLED` is out of the prover's reach, and the runs that find a violation.  The induction
theorems of the library take a predicate, which these provers cannot instantiate; where
induction is needed, the set of the numbers that satisfy the predicate takes its place.

## 5. Where the code departs from what it says

Each of the first five has a run.

* A failure of the transport before the listener is installed is reported to nobody, and
  the dead connection stays for good (`connection_lost_failure`).
* `SET_PRESET_START_CANCEL` receives `PRESET_START` but is not filed under it: later
  subscriptions that do not receive it destroy its consumer (`commands_preset_start`).
* An item is marked before its value is assigned, so a post in between loses the value
  (`status_set_post_race`).
* `tcsApplyOffset` returns 1 for an applied offset and 0, `status::OK`, for a refused one
  (`requests_offset`).
* `JmsEpicsConfiguration` keeps a session that a reconnection disposes
  (`epics_stale_session`).

The models contain these too, without a property that denies them:

* `startup()` stores the connection before it starts it: when `start()` throws, the next
  `Instance()` takes the half-made connection for a good one.
* `onException` runs only for connections the broker closes or the transport gives up;
  while the failover transport reconnects, asynchronous sends are lost without an error.
* `onException` may reset the pointer between a client's `Instance()` and its
  `createSession()`, which then dereferences null.
* Two threads that both find no connection both run `startup()`; the later one swaps out
  the connection of the earlier one and then closes it, and its sessions with it, of which
  nobody is told.  `SessionLossAnnounced` is therefore checked with one client thread.  Until
  it is closed, sessions of the replaced connection go on working.
* An `onException` that finds in place a connection which failed unheard leaves with the
  exception of `stop()`: it neither reconnects nor runs the handlers.
* A handler that throws keeps the handlers after it from being invoked.
* `SET_START` has no case in `buildSelector`, and subscribing to it throws.
* Overlapping activity sets (`SET_PRESET` and `SET_PRESET_START`) leave two consumers
  alive that both handle `PRESET`.
* A subscription destroys the commands or updates queued for the consumer it replaces.
* A failed post leaves the item clean: `PublishedIsCurrent` exempts it.
* Two threads that post may send an item twice, the older value last, and two that set one
  alarm may leave a mixture of both: `PublishedIsCurrent` and `OkAlarmIsClean` are of one.
* A reply to a command that cannot be sent is printed and forgotten: the GMP waits for it.
* A repeated alarm of severity OK with a cause is compared with the stored cause, which
  was reset, and marks the item again.
* A request that ends with a `CMSException` on a connection that stays up leaves its
  temporary queue, and the consumer if there is one already, behind: the handler deletes the
  request and nothing else.
* The handlers of `CMSException` in four request classes delete a request that was
  deleted after it was sent; so does `sendOffset` for an answer it cannot parse.
* The singletons of the library keep the sessions they were made with: after a
  reconnection an action in progress, and every later one, is never completed and no
  event is sent.  What its thread throws ends the thread and is noticed by nobody.
* A handler of the examples joins its last thread inside `handle()`: the next command waits
  for it, and so does every other of its consumer.
* `TimeoutException`, `PostException` and `CommunicationException` end the example programs
  that catch `GmpException` only.
* A callback request returns at once; what its detached thread throws ends the program,
  since nobody can catch it there.
* `getChannel` returns a null pointer for a header it cannot parse, and `epicsget.cpp`
  uses it.
* The builders of numbers write behind their buffer, which is one byte per element.
* `EpicsHandlerDemo` uses the null item made of an unknown type or of a header that is cut
  short, and reads integers with
  `getDataAsDouble`, which throws out of `onMessage`.

And these are outside the state the models keep:

* An empty status name is never found, so it can be created again and again; items of type
  `BOOLEAN`, `BYTE` and `SHORT` are posted without a value; `setValueAsInt` takes any
  integer for a health item.
* Topics of EPICS channels are upper-cased: channels that differ in case share one.
* An activity in a message that the library does not know is taken for `PRESET`.
* Received messages are never deleted; `epicssubscription.cpp` unsubscribes at its end from
  channels it never subscribed to.

## 6. Not modelled, and why

* `Configuration` and `PropertiesUtil`: maps without behaviour.  `TimeUtil`, time stamps
  and the layout of status messages: conversions no state depends on.
* Calls made inside a handler (a subscription or a request inside `handle()` or
  `channelChanged()`), and several threads that subscribe at once: they race on standard
  containers, whose outcomes are not in terms of the model.
* An object that is destroyed while another thread is inside one of its functions, as a
  connection may be through the pointer it was called by: the behaviour is undefined from
  there on.
* A connection that fails while a consumer is being replaced; `SequenceCommands` keeps
  the connection up, and `ActionHandlers`, where it fails, has one consumer per handler.
* The session of the status sender in `StatusPosting`: a post fails or not, for whatever
  reason.  In `ActionHandlers` the sender goes stale like the other singletons.
* The log senders and `LogCommandUtil`, which only log; the destructors that run at exit;
  the simulators of whole instruments among the examples, and the tests, which were read
  for what clients do.  Vendored libraries are external in the map.

## 7. Plan

1. *Done*: the connection manager, sequence commands, the actions and their handlers,
   status items, the calls that send or ask, EPICS subscriptions and items; what the GMP
   sees of actions and what the manager promises those with sessions, a consumer its handler
   and a call its program, as abstract specifications; proofs of all safety properties, of
   the five refinements, and of what the getters read of any update.
2. Subscriptions and requests inside a handler: dispatch threads in `RequestReply`, so that
   `stop()`, which waits for them, meets a `receive()` without a timeout.
3. The consumers of `ActionHandlers` as another implementation of `Delivery`, and a safety
   property behind `EveryActionAnswered`: what a dispatch thread joins is a thread that waits
   for nobody.  (An abstract specification of status posting has little to say: with one
   thread the calls are sequential, and with two a field that is read may have any value.)
4. The small pure algorithms as operators: elapsed time, time stamps, the fields the
   serializer writes for each type.

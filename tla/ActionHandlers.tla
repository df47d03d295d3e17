--------------------------- MODULE ActionHandlers ---------------------------
(***************************************************************************)
(* What becomes of an action.  The dispatch thread of a consumer calls the *)
(* handler, which decides on the answer; for an action that takes time it  *)
(* starts a thread that posts observation events and status items and, at  *)
(* its end, the completion info, each through the producer of a singleton. *)
(* The handlers are those of the examples, which are what an instrument    *)
(* takes as its pattern.                                                   *)
(*                                                                         *)
(* A singleton keeps the session it was made with.  Connections are        *)
(* numbered: a producer works while its number is that of the connection   *)
(* and the link of that connection is up.  While the link is failing, a    *)
(* message is lost in spite of a normal return (sends are asynchronous) or *)
(* refused with an exception; the failover transport may restore the link. *)
(* Once ConnectionManager has dropped the connection every call throws.    *)
(***************************************************************************)
EXTENDS Naturals, Sequences

CONSTANTS
  Programs,       \* the sets of handlers a program may have, each of its own class
  Activities,     \* the activities that pass their selectors
  Configs,        \* what matters of a configuration
  MaxActions,     \* bound: actions the GMP starts
  MaxConnections, \* bound: connections
  MaxFailures     \* bound: times a link fails

HandlerKinds == {"MyHandler", "ApplyHandler", "GenericHandler",
                 "EngineeringHandler", "ObsGdsHandler", "InstCmdHandler"}

ASSUME ActionHandlersAssumption ==
  /\ Programs # {} /\ {} \notin Programs /\ UNION Programs \subseteq HandlerKinds
  /\ Activities \subseteq {"PRESET", "START", "PRESET_START", "CANCEL"}
  /\ Configs \subseteq {"empty", "testFast", "testSlow", "label"}
  /\ MaxActions \in Nat
  /\ MaxConnections \in Nat \ {0}
  /\ MaxFailures \in Nat

Handlers  == UNION Programs
Ids       == 1..MaxActions
Messages  == [id : Ids, activity : Activities, config : Configs]
NoMessage == [id |-> 0, activity |-> "", config |-> ""]

Responses   == {"ACCEPTED", "STARTED", "COMPLETED", "ERROR"}
Completions == {"COMPLETED", "ERROR"}

\* The singletons that send: JmsCommandUtil, DataUtilImpl, the status sender.
Singletons == {"commands", "data", "status"}

VARIABLES
  connections, \* number of connections so far, the last being the current one
  link,        \* that one is "up", "failing" or "down" (dropped)
  failures,    \* times a link has failed
  session,     \* the connection each singleton was made on, 0 before its first use
  program,     \* the handlers this program has
  consumer,    \* the connection of the consumer of each, 0 before it subscribes
  queue,       \* the messages waiting in the consumer's session
  doing,       \* what its dispatch thread does: "idle", "join" or "reply"
  message,     \* the message its onMessage works on
  response,    \* what the handler returned for it
  id,          \* the action the worker of a handler was told last, 0 before the first
  label,       \* the data label it was told with it
  step,        \* the next step of the thread of each action; 0 without one
  dataLabel,   \* the label that thread has read
  issued,      \* number of actions the GMP has started
  handler,     \* the handler each action was sent to
  answer,      \* history: the answer that reached the GMP, or "none"
  completion,  \* history: the completion info that reached it, or "none"
  events,      \* history: the observation events that reached it, by label
  refused,     \* history: actions whose completion info was refused
  crashed      \* the program was terminated

linkVars     == <<connections, link, failures>>
dispatchVars == <<queue, doing, message, response>>
workerVars   == <<id, label>>
threadVars   == <<step, dataLabel>>
gmpVars      == <<issued, handler>>
seenVars     == <<answer, completion, events, refused>>

vars == <<linkVars, session, program, consumer, dispatchVars, workerVars,
          threadVars, gmpVars, seenVars, crashed>>

-----------------------------------------------------------------------------
(* The handlers: what each class may answer, where "worker" is to start a   *)
(* thread and answer STARTED, and "throws" an exception                     *)

MyHandler(msg) == IF msg.activity = "PRESET" THEN {"ACCEPTED"} ELSE {"worker"}

ApplyHandler(msg) == {"worker"}

GenericHandler(msg) ==
  IF msg.activity \in {"PRESET", "CANCEL"} THEN {"ACCEPTED"} ELSE {"COMPLETED", "worker"}

EngineeringHandler(msg) ==
  IF msg.activity \in {"PRESET", "CANCEL"} THEN {"ACCEPTED"}
  ELSE CASE msg.config = "testFast" -> {"COMPLETED"}
         [] msg.config = "testSlow" -> {"worker"}
         [] OTHER -> {"ERROR"}

ObsGdsHandler(msg) ==
  IF msg.activity \in {"PRESET", "CANCEL"} THEN {"ACCEPTED"} ELSE {"worker"}

\* The callback of a client decides.
InstCmdHandler(msg) == Responses \cup {"throws"}

Decisions(h, msg) ==
  CASE h = "MyHandler"          -> MyHandler(msg)
    [] h = "ApplyHandler"       -> ApplyHandler(msg)
    [] h = "GenericHandler"     -> GenericHandler(msg)
    [] h = "EngineeringHandler" -> EngineeringHandler(msg)
    [] h = "ObsGdsHandler"      -> ObsGdsHandler(msg)
    [] h = "InstCmdHandler"     -> InstCmdHandler(msg)

\* The configurations that make a difference to handler h.
ConfigsOf(h) ==
  CASE h = "EngineeringHandler" -> Configs \ {"label"}
    [] h = "ObsGdsHandler"      -> Configs \cap {"empty", "label"}
    [] OTHER                    -> Configs \cap {"empty"}

\* The observation events, numbered in the order of an observation.
ObservationEvent ==
  [OBS_PREP |-> 1, OBS_START_ACQ |-> 2, OBS_END_ACQ |-> 3, OBS_START_READOUT |-> 4,
   OBS_END_READOUT |-> 5, OBS_START_DSET_WRITE |-> 6, OBS_END_DSET_WRITE |-> 7]

\* Mutation of Plan: two events in the wrong order.
PlanSwapped ==
  <<"label", "OBS_PREP", "status", "OBS_START_ACQ", "status", "OBS_START_READOUT",
    "OBS_END_ACQ", "OBS_END_READOUT", "OBS_START_DSET_WRITE", "OBS_END_DSET_WRITE",
    "complete">>

\* What the worker of an ObsGdsHandler does; the other workers only complete.
Plan ==
  <<"label", "OBS_PREP", "status", "OBS_START_ACQ", "status", "OBS_END_ACQ",
    "OBS_START_READOUT", "OBS_END_READOUT", "OBS_START_DSET_WRITE",
    "OBS_END_DSET_WRITE", "complete">>

Last == Len(Plan)
Done == Last + 1

FirstStep(h) == IF h = "ObsGdsHandler" THEN 1 ELSE Last

\* The thread of action m is alive and about to take step s of the plan.
AtStep(m, s) == step[m] \in 1..Last /\ Plan[step[m]] = s

\* The worker the thread of m runs, and the client's own thread of an action that
\* an InstCmdHandler has started.
HasWorker(m) == handler[m] # "InstCmdHandler"

-----------------------------------------------------------------------------
(* Sending                                                                 *)

\* What may become of a message sent over a session of connection c.
Fate(c) ==
  IF c # connections \/ link = "down" THEN {"throws"}
  ELSE IF link = "up" THEN {"sent"} ELSE {"lost", "throws"}

\* Instance() of singleton s makes it on the current connection the first time: it
\* returns, or throws.
InstanceReturns(s) ==
  \/ session[s] # 0 /\ UNCHANGED session
  \/ session[s] = 0 /\ link # "down" /\ session' = [session EXCEPT ![s] = connections]

InstanceThrows(s) == session[s] = 0 /\ link # "up" /\ UNCHANGED session

ConnectionOf(s) == IF session[s] = 0 THEN connections ELSE session[s]

\* A call of singleton s that sends a message ends with f.
Sends(s, f) ==
  \/ f \in Fate(ConnectionOf(s)) /\ InstanceReturns(s)
  \/ f = "throws" /\ InstanceThrows(s)

\* A call of singleton s that sends nothing.
SendsNothing(s, f) ==
  \/ f = "lost" /\ InstanceReturns(s)
  \/ f = "throws" /\ InstanceThrows(s)

-----------------------------------------------------------------------------
Init ==
  /\ connections = 1
  /\ link = "up"
  /\ failures = 0
  /\ session = [s \in Singletons |-> 0]
  /\ program \in Programs
  /\ consumer = [h \in Handlers |-> 0]
  /\ queue = [h \in Handlers |-> <<>>]
  /\ doing = [h \in Handlers |-> "idle"]
  /\ message = [h \in Handlers |-> NoMessage]
  /\ response = [h \in Handlers |-> "none"]
  /\ id = [h \in Handlers |-> 0]
  /\ label = [h \in Handlers |-> 0]
  /\ step = [m \in Ids |-> 0]
  /\ dataLabel = [m \in Ids |-> 0]
  /\ issued = 0
  /\ handler = [m \in Ids |-> CHOOSE h \in Handlers : TRUE]
  /\ answer = [m \in Ids |-> "none"]
  /\ completion = [m \in Ids |-> "none"]
  /\ events = [m \in Ids |-> <<>>]
  /\ refused = {}
  /\ crashed = FALSE

-----------------------------------------------------------------------------
(* The client and the GMP                                                  *)

\* The client subscribes handler h, and again when its connection is gone.
Subscribe(h) ==
  /\ h \in program
  /\ link = "up"
  /\ consumer[h] # connections
  /\ InstanceReturns("commands")
  /\ consumer' = [consumer EXCEPT ![h] = connections]
  /\ UNCHANGED <<linkVars, program, dispatchVars, workerVars, threadVars, gmpVars,
                 seenVars, crashed>>

\* The consumer cannot be made; JmsCommandUtil stays.
SubscribeThrows(h) ==
  /\ h \in program
  /\ link = "failing"
  /\ InstanceReturns("commands")
  /\ UNCHANGED <<linkVars, program, consumer, dispatchVars, workerVars, threadVars,
                 gmpVars, seenVars, crashed>>

\* The GMP starts an action by a message to the consumer of h.
Issue(h, a, c) ==
  /\ issued < MaxActions
  /\ link = "up"
  /\ consumer[h] = connections
  /\ c \in ConfigsOf(h)
  /\ issued' = issued + 1
  /\ handler' = [handler EXCEPT ![issued + 1] = h]
  /\ queue' = [queue EXCEPT ![h] = Append(@, [id |-> issued + 1, activity |-> a,
                                              config |-> c])]
  /\ UNCHANGED <<linkVars, session, program, consumer, doing, message, response,
                 workerVars, threadVars, seenVars, crashed>>

-----------------------------------------------------------------------------
(* The dispatch thread of a handler                                        *)

\* onMessage calls handle(), which decides.  An InstCmdHandler's client goes on
\* with the action in a thread of its own.
Handle(h) ==
  /\ doing[h] = "idle"
  /\ queue[h] # <<>>
  /\ queue' = [queue EXCEPT ![h] = Tail(@)]
  /\ LET msg == Head(queue[h]) IN
       /\ message' = [message EXCEPT ![h] = msg]
       /\ \E d \in Decisions(h, msg) \ {"throws"} :
            /\ doing' = [doing EXCEPT ![h] = IF d = "worker" THEN "join" ELSE "reply"]
            /\ response' = [response EXCEPT ![h] = IF d = "worker" THEN "STARTED" ELSE d]
            /\ step' = IF h = "InstCmdHandler" /\ d = "STARTED"
                       THEN [step EXCEPT ![msg.id] = Last] ELSE step
  /\ UNCHANGED <<linkVars, session, program, consumer, workerVars, dataLabel, gmpVars,
                 seenVars, crashed>>

\* onMessage promises to throw nothing and catches CMSException only.
HandleThrows(h) ==
  /\ doing[h] = "idle"
  /\ queue[h] # <<>>
  /\ "throws" \in Decisions(h, Head(queue[h]))
  /\ crashed' = TRUE
  /\ UNCHANGED <<linkVars, session, program, consumer, dispatchVars, workerVars,
                 threadVars, gmpVars, seenVars>>

\* Mutation of Joined: a thread that ended by an exception is waited for.
JoinedCompleted(h) == id[h] # 0 => completion[id[h]] # "none"

\* Mutation of Joined: the thread is not joined.
JoinedAtOnce(h) == TRUE

\* join() returns: the handler's last thread is over.
Joined(h) == id[h] # 0 => step[id[h]] = Done

\* The worker, of which a handler has one for all its threads, is told the action
\* and the label, and a new thread runs it.
StartWorker(h) ==
  /\ doing[h] = "join"
  /\ Joined(h)
  /\ LET msg == message[h] IN
       /\ id' = [id EXCEPT ![h] = msg.id]
       /\ label' = [label EXCEPT ![h] = IF msg.config = "label" THEN msg.id ELSE 0]
       /\ step' = [step EXCEPT ![msg.id] = FirstStep(h)]
  /\ doing' = [doing EXCEPT ![h] = "reply"]
  /\ UNCHANGED <<linkVars, session, program, consumer, queue, message, response,
                 dataLabel, gmpVars, seenVars, crashed>>

\* onMessage sends the answer over the consumer's session, and returns whether
\* that throws or not.
Reply(h) ==
  /\ doing[h] = "reply"
  /\ \E f \in Fate(consumer[h]) :
       answer' = IF f = "sent" THEN [answer EXCEPT ![message[h].id] = response[h]]
                 ELSE answer
  /\ doing' = [doing EXCEPT ![h] = "idle"]
  /\ message' = [message EXCEPT ![h] = NoMessage]
  /\ response' = [response EXCEPT ![h] = "none"]
  /\ UNCHANGED <<linkVars, session, program, consumer, queue, workerVars, threadVars,
                 gmpVars, completion, events, refused, crashed>>

-----------------------------------------------------------------------------
(* The thread of an action.  An exception leaves its run() and ends it.    *)

Advance(m, f) ==
  step' = [step EXCEPT ![m] = IF f = "throws" THEN Done ELSE @ + 1]

ReadLabel(m) ==
  /\ AtStep(m, "label")
  /\ dataLabel' = [dataLabel EXCEPT ![m] = label[handler[m]]]
  /\ Advance(m, "sent")
  /\ UNCHANGED <<linkVars, session, program, consumer, dispatchVars, workerVars,
                 gmpVars, seenVars, crashed>>

\* Without a label the event is refused with ERROR, which is only printed.
PostEvent(m, e) ==
  /\ AtStep(m, e)
  /\ \E f \in {"sent", "lost", "throws"} :
       /\ IF dataLabel[m] = 0 THEN SendsNothing("data", f) ELSE Sends("data", f)
       /\ Advance(m, f)
       /\ events' = IF f = "sent"
                    THEN [events EXCEPT ![dataLabel[m]] = Append(@, ObservationEvent[e])]
                    ELSE events
  /\ UNCHANGED <<linkVars, program, consumer, dispatchVars, workerVars, dataLabel,
                 gmpVars, answer, completion, refused, crashed>>

\* Posting the status sends something if an item has changed.
PostStatus(m) ==
  /\ AtStep(m, "status")
  /\ \E f \in {"sent", "lost", "throws"} :
       /\ SendsNothing("status", f) \/ Sends("status", f)
       /\ Advance(m, f)
  /\ UNCHANGED <<linkVars, program, consumer, dispatchVars, workerVars, dataLabel,
                 gmpVars, seenVars, crashed>>

\* The arguments of postCompletionInfo, and those it refuses with ERROR.
CompletionArguments == {"null", "ACCEPTED", "STARTED", "COMPLETED", "ERROR",
                        "ERROR without message"}

\* Mutation of Refused: nothing is validated.
RefusedNothing(r) == FALSE

\* Mutation of Refused: the case of COMPLETED is missing.
RefusedCompleted(r) == r # "ERROR"

Refused(r) == r \notin {"COMPLETED", "ERROR"}

\* The worker posts COMPLETED for the action it was last told; the client posts what
\* it likes, for its own action.
Complete(m, r) ==
  /\ AtStep(m, "complete")
  /\ HasWorker(m) => r = "COMPLETED"
  /\ \E f \in {"sent", "lost", "throws"} :
       /\ IF Refused(r) THEN f = "lost" /\ UNCHANGED session ELSE Sends("commands", f)
       /\ Advance(m, f)
       /\ completion' = IF f = "sent"
                        THEN [completion EXCEPT ![IF HasWorker(m) THEN id[handler[m]]
                                                  ELSE m] = r]
                        ELSE completion
  /\ refused' = IF Refused(r) THEN refused \cup {m} ELSE refused
  /\ UNCHANGED <<linkVars, program, consumer, dispatchVars, workerVars, dataLabel,
                 gmpVars, answer, events, crashed>>

-----------------------------------------------------------------------------
(* The connection                                                          *)

LinkFails ==
  /\ link = "up"
  /\ failures < MaxFailures
  /\ failures' = failures + 1
  /\ link' = "failing"
  /\ UNCHANGED <<connections, session, program, consumer, dispatchVars, workerVars,
                 threadVars, gmpVars, seenVars, crashed>>

\* The failover transport connects again; ConnectionManager does not notice.
LinkRecovers ==
  /\ link = "failing"
  /\ link' = "up"
  /\ UNCHANGED <<connections, failures, session, program, consumer, dispatchVars,
                 workerVars, threadVars, gmpVars, seenVars, crashed>>

\* onException stops the connection, which waits for every onMessage that runs but
\* not for the handlers' threads, and drops it with what the sessions have queued.
Drop ==
  /\ link = "failing"
  /\ \A h \in Handlers : doing[h] = "idle"
  /\ link' = "down"
  /\ queue' = [h \in Handlers |-> <<>>]
  /\ UNCHANGED <<connections, failures, session, program, consumer, doing, message,
                 response, workerVars, threadVars, gmpVars, seenVars, crashed>>

Reconnect ==
  /\ link = "down"
  /\ connections < MaxConnections
  /\ link' = "up"
  /\ connections' = connections + 1
  /\ UNCHANGED <<failures, session, program, consumer, dispatchVars, workerVars,
                 threadVars, gmpVars, seenVars, crashed>>

-----------------------------------------------------------------------------
Client == \E h \in Handlers : Subscribe(h) \/ SubscribeThrows(h)

onMessage(h) == Handle(h) \/ HandleThrows(h) \/ StartWorker(h) \/ Reply(h)

run(m) ==
  \/ ReadLabel(m)
  \/ \E e \in DOMAIN ObservationEvent : PostEvent(m, e)
  \/ PostStatus(m)
  \/ \E r \in CompletionArguments : Complete(m, r)

Connection == LinkFails \/ LinkRecovers \/ Drop \/ Reconnect

\* A program that was terminated takes no step any more.
Next ==
  /\ ~crashed
  /\ \/ Client
     \/ \E h \in Handlers, a \in Activities, c \in Configs : Issue(h, a, c)
     \/ \E h \in Handlers : onMessage(h)
     \/ \E m \in Ids : run(m)
     \/ Connection

Spec == Init /\ [][Next]_vars

\* Dispatch threads and the threads of actions run, sleeps and callbacks end.  While
\* the link fails a send may block, for as long as that lasts.
Fairness ==
  /\ \A h \in Handlers : WF_vars(~crashed /\ link # "failing" /\ onMessage(h))
  /\ \A m \in Ids : WF_vars(~crashed /\ link # "failing" /\ run(m))

FairSpec == Spec /\ Fairness

-----------------------------------------------------------------------------
(* Properties                                                              *)

\* Every variable keeps its type; what reaches the GMP as completion info is COMPLETED
\* or ERROR.
TypeOK ==
  /\ connections \in 1..MaxConnections
  /\ link \in {"up", "failing", "down"}
  /\ session \in [Singletons -> 0..connections]
  /\ program \in Programs
  /\ consumer \in [Handlers -> 0..connections]
  /\ queue \in [Handlers -> Seq(Messages)]
  /\ doing \in [Handlers -> {"idle", "join", "reply"}]
  /\ message \in [Handlers -> Messages \cup {NoMessage}]
  /\ response \in [Handlers -> Responses \cup {"none"}]
  /\ failures \in 0..MaxFailures
  /\ id \in [Handlers -> 0..MaxActions]
  /\ label \in [Handlers -> 0..MaxActions]
  /\ step \in [Ids -> 0..Done]
  /\ dataLabel \in [Ids -> 0..MaxActions]
  /\ issued \in 0..MaxActions
  /\ handler \in [Ids -> Handlers]
  /\ answer \in [Ids -> Responses \cup {"none"}]
  /\ completion \in [Ids -> Completions \cup {"none"}]
  /\ events \in [Ids -> Seq(1..7)]
  /\ refused \subseteq Ids
  /\ crashed \in BOOLEAN

\* What the GMP sees is what Actions allows, whatever the handlers answer, however
\* their threads and the replies interleave and whenever the connection fails: one
\* answer, one completion of an action that was answered STARTED if at all, and the
\* events of an observation in their order and before its completion.
A == INSTANCE Actions WITH Ids <- Ids, Events <- 1..7, issued <- 1..issued,
                           answer <- answer, completion <- completion, events <- events

ImplementsActions == A!Spec

\* An observation the GMP sees completed has been told in full, unless a connection
\* failed: all its events have reached the GMP by then.
ObservationComplete ==
  \A m \in Ids :
    completion[m] = "COMPLETED" /\ dataLabel[m] # 0 /\ failures = 0
      => events[dataLabel[m]] = <<1, 2, 3, 4, 5, 6, 7>>

\* A command that has reached the consumer of a handler is answered, although the
\* handler may have to wait for the thread of an earlier one, and whatever became of
\* that, unless the connection fails or the program ends.
EveryActionAnswered ==
  \A m \in Ids :
    (\E i \in 1..Len(queue[handler[m]]) : queue[handler[m]][i].id = m)
      ~> answer[m] # "none" \/ link # "up" \/ crashed

\* The singletons an action depends on were made on the connection that is up.
Needs(m) == IF handler[m] = "ObsGdsHandler" THEN Singletons ELSE {"commands"}

Works(m) == link = "up" /\ \A s \in Needs(m) : session[s] \in {0, connections}

\* An action whose thread runs is completed, as long as the singletons it needs were
\* made on the connection that is up, and that stays up; after a reconnection it never
\* is.  A client that posts what is no completion info has only itself to blame.
RunningIsCompleted ==
  \A m \in Ids :
    step[m] \in 1..Last
      ~> \/ completion[m] # "none"
         \/ m \in refused /\ ~HasWorker(m)
         \/ ~Works(m)
         \/ crashed
=============================================================================

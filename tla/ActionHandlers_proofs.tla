----------------------- MODULE ActionHandlers_proofs -----------------------
(***************************************************************************)
(* Proofs about ActionHandlers, for every set of programs and every number *)
(* of actions, connections and failures of the link.                       *)
(***************************************************************************)
EXTENDS ActionHandlers, TLAPS

-----------------------------------------------------------------------------
(* The inductive invariant                                                 *)

\* The actions nothing has been done for yet.
Fresh ==
  {m \in Ids : /\ step[m] = 0 /\ answer[m] = "none" /\ completion[m] = "none"
               /\ events[m] = <<>> /\ dataLabel[m] = 0}

Unissued == \A m \in Ids : m > issued => m \in Fresh

Queued ==
  \A h \in Handlers : \A i \in 1..Len(queue[h]) :
    /\ queue[h][i].id <= issued
    /\ handler[queue[h][i].id] = h
    /\ queue[h][i].id \in Fresh
    /\ \A j \in 1..Len(queue[h]) : queue[h][i].id = queue[h][j].id => i = j

\* The message a dispatch thread works on.
Handled ==
  \A h \in Handlers : doing[h] # "idle" =>
    /\ message[h] \in Messages
    /\ message[h].id <= issued
    /\ handler[message[h].id] = h
    /\ answer[message[h].id] = "none"
    /\ response[h] \in Responses
    /\ \A i \in 1..Len(queue[h]) : queue[h][i].id # message[h].id
    /\ response[h] # "STARTED" \/ doing[h] = "join" => message[h].id \in Fresh

Joining == \A h \in Handlers : doing[h] = "join" => response[h] = "STARTED"

Told ==
  \A h \in Handlers :
    /\ label[h] \in {0, id[h]}
    /\ id[h] # 0 => id[h] <= issued /\ handler[id[h]] = h

\* All events of m are of earlier steps than the next one.
EventsBefore(m) ==
  \A i \in 1..Len(events[m]) : \A s \in 1..Last :
    s >= step[m] /\ Plan[s] \in DOMAIN ObservationEvent
      => events[m][i] < ObservationEvent[Plan[s]]

Running ==
  \A m \in Ids : step[m] # 0 =>
    /\ m <= issued
    /\ answer[m] \in {"none", "STARTED"}
    /\ dataLabel[m] \in {0, m}
    /\ step[m] # Done => /\ completion[m] = "none"
                         /\ HasWorker(m) => id[handler[m]] = m
                         /\ EventsBefore(m)

Idle ==
  \A m \in Ids : step[m] = 0 =>
    completion[m] = "none" /\ events[m] = <<>> /\ dataLabel[m] = 0

ClientThreads ==
  \A m \in Ids : ~HasWorker(m) => step[m] \in {0, Last, Done}

Inv == Unissued /\ Queued /\ Handled /\ Joining /\ Told /\ Running /\ Idle
       /\ ClientThreads

IInv == TypeOK /\ Inv

-----------------------------------------------------------------------------
(* Lemmas about the constants and about sequences                          *)

LEMMA HandlersNonempty == Handlers # {} /\ Handlers \subseteq HandlerKinds
BY ActionHandlersAssumption DEF Handlers

LEMMA NothingIsNoMessage == NoMessage.id = 0
BY DEF NoMessage

\* Whatever a handler decides is an answer, a worker or an exception.
LEMMA DecisionsType ==
  ASSUME NEW h \in Handlers, NEW msg, NEW d \in Decisions(h, msg)
  PROVE  d \in Responses \cup {"worker", "throws"}
<1>1. h \in HandlerKinds
  BY HandlersNonempty
<1> QED
  BY <1>1 DEF Decisions, HandlerKinds, MyHandler, ApplyHandler, GenericHandler,
              EngineeringHandler, ObsGdsHandler, InstCmdHandler, Responses

LEMMA PlanLength == Last = 11 /\ Done = 12
BY DEF Plan, Last, Done

\* The events of the plan come in the order of their numbers.
LEMMA PlanIsOrdered ==
  \A s \in 1..Last : Plan[s] \in DOMAIN ObservationEvent =>
    /\ ObservationEvent[Plan[s]] \in 1..7
    /\ \A u \in 1..Last : u > s /\ Plan[u] \in DOMAIN ObservationEvent
         => ObservationEvent[Plan[s]] < ObservationEvent[Plan[u]]
<1>1. Last = 11
  BY PlanLength
<1>2. DOMAIN ObservationEvent =
        {"OBS_PREP", "OBS_START_ACQ", "OBS_END_ACQ", "OBS_START_READOUT",
         "OBS_END_READOUT", "OBS_START_DSET_WRITE", "OBS_END_DSET_WRITE"}
  BY DEF ObservationEvent
<1>3. /\ Plan[1] = "label" /\ Plan[2] = "OBS_PREP" /\ Plan[3] = "status"
      /\ Plan[4] = "OBS_START_ACQ" /\ Plan[5] = "status" /\ Plan[6] = "OBS_END_ACQ"
      /\ Plan[7] = "OBS_START_READOUT" /\ Plan[8] = "OBS_END_READOUT"
      /\ Plan[9] = "OBS_START_DSET_WRITE" /\ Plan[10] = "OBS_END_DSET_WRITE"
      /\ Plan[11] = "complete"
  BY DEF Plan
<1>4. /\ ObservationEvent["OBS_PREP"] = 1 /\ ObservationEvent["OBS_START_ACQ"] = 2
      /\ ObservationEvent["OBS_END_ACQ"] = 3 /\ ObservationEvent["OBS_START_READOUT"] = 4
      /\ ObservationEvent["OBS_END_READOUT"] = 5
      /\ ObservationEvent["OBS_START_DSET_WRITE"] = 6
      /\ ObservationEvent["OBS_END_DSET_WRITE"] = 7
  BY DEF ObservationEvent
<1>5. \A s \in 1..11 : s = 1 \/ s = 2 \/ s = 3 \/ s = 4 \/ s = 5 \/ s = 6 \/ s = 7
                       \/ s = 8 \/ s = 9 \/ s = 10 \/ s = 11
  OBVIOUS
<1> DEFINE n(s) == IF s = 2 THEN 1 ELSE IF s = 4 THEN 2 ELSE IF s = 6 THEN 3 ELSE s - 3
<1>6. \A s \in 1..11 : Plan[s] \in DOMAIN ObservationEvent =>
        s \notin {1, 3, 5, 11} /\ ObservationEvent[Plan[s]] = n(s)
  BY <1>2, <1>3, <1>4, <1>5
<1>7. \A s, u \in 1..11 : s < u /\ s \notin {1, 3, 5, 11} /\ u \notin {1, 3, 5, 11}
        => n(s) < n(u) /\ n(s) \in 1..7
  BY <1>5
<1>8. \A s \in 1..11 : s \notin {1, 3, 5, 11} => n(s) \in 1..7
  BY <1>5
<1> HIDE DEF n
<1> QED
  BY <1>1, <1>6, <1>7, <1>8

\* The first element of a queue and the others.
LEMMA HeadAndTail ==
  ASSUME NEW S, NEW s \in Seq(S), s # <<>>
  PROVE  /\ Head(s) \in S /\ Tail(s) \in Seq(S)
         /\ 1 \in 1..Len(s) /\ Head(s) = s[1]
         /\ \A i \in 1..Len(Tail(s)) : i + 1 \in 1..Len(s) /\ Tail(s)[i] = s[i + 1]
OBVIOUS

\* A queue with one more element.
LEMMA AppendLast ==
  ASSUME NEW S, NEW s \in Seq(S), NEW e \in S
  PROVE  /\ Append(s, e) \in Seq(S)
         /\ Len(Append(s, e)) = Len(s) + 1 /\ Len(s) \in Nat
         /\ \A i \in 1..Len(s) : Append(s, e)[i] = s[i]
         /\ Append(s, e)[Len(s) + 1] = e
OBVIOUS

-----------------------------------------------------------------------------
(* Type correctness                                                        *)

\* What a call of a singleton does to the sessions.
LEMMA SendsType ==
  ASSUME NEW s \in Singletons, NEW f, TypeOK,
         InstanceReturns(s) \/ InstanceThrows(s) \/ Sends(s, f) \/ SendsNothing(s, f)
  PROVE  session' \in [Singletons -> 0..connections]
BY DEF TypeOK, InstanceReturns, InstanceThrows, Sends, SendsNothing

LEMMA InitType == Init => TypeOK
<1> SUFFICES ASSUME Init PROVE TypeOK
  OBVIOUS
<1>1. (CHOOSE h \in Handlers : TRUE) \in Handlers
  BY HandlersNonempty
<1>2. Done \in Nat /\ MaxActions \in Nat
  BY PlanLength, ActionHandlersAssumption
<1>3. /\ connections \in 1..MaxConnections /\ failures \in 0..MaxFailures
      /\ issued \in 0..MaxActions
  BY ActionHandlersAssumption DEF Init
<1>4. /\ session \in [Singletons -> 0..connections]
      /\ consumer \in [Handlers -> 0..connections] /\ handler \in [Ids -> Handlers]
      /\ step \in [Ids -> 0..Done] /\ dataLabel \in [Ids -> 0..MaxActions]
      /\ id \in [Handlers -> 0..MaxActions] /\ label \in [Handlers -> 0..MaxActions]
  BY <1>1, <1>2 DEF Init
<1>5. /\ queue \in [Handlers -> Seq(Messages)] /\ events \in [Ids -> Seq(1..7)]
      /\ message \in [Handlers -> Messages \cup {NoMessage}]
  BY DEF Init
<1>6. /\ doing \in [Handlers -> {"idle", "join", "reply"}]
      /\ response \in [Handlers -> Responses \cup {"none"}]
      /\ answer \in [Ids -> Responses \cup {"none"}]
      /\ completion \in [Ids -> Completions \cup {"none"}]
      /\ refused \subseteq Ids /\ crashed \in BOOLEAN /\ program \in Programs
      /\ link \in {"up", "failing", "down"}
  BY DEF Init
<1> QED
  BY <1>3, <1>4, <1>5, <1>6 DEF TypeOK

LEMMA IssueType ==
  ASSUME TypeOK, NEW h \in Handlers, NEW a \in Activities, NEW c \in Configs,
         Issue(h, a, c)
  PROVE  TypeOK' /\ issued + 1 \in Ids /\ [id |-> issued + 1, activity |-> a, config |-> c] \in Messages
<1>1. issued + 1 \in Ids /\ issued' \in 0..MaxActions
  BY ActionHandlersAssumption DEF TypeOK, Issue, Ids
<1>2. [id |-> issued + 1, activity |-> a, config |-> c] \in Messages
  BY <1>1 DEF Messages
<1>3. queue' \in [Handlers -> Seq(Messages)]
  <2>1. queue[h] \in Seq(Messages)
    BY DEF TypeOK
  <2>2. Append(queue[h], [id |-> issued + 1, activity |-> a, config |-> c])
          \in Seq(Messages)
    BY <1>2, <2>1, AppendLast
  <2> QED
    BY <2>2 DEF Issue, TypeOK
<1>4. handler' \in [Ids -> Handlers]
  BY <1>1 DEF Issue, TypeOK
<1> QED
  BY <1>1, <1>2, <1>3, <1>4
     DEF Issue, TypeOK, linkVars, workerVars, threadVars, seenVars

LEMMA HandleType ==
  ASSUME TypeOK, NEW h \in Handlers, Handle(h)
  PROVE  /\ TypeOK'
         /\ Head(queue[h]) \in Messages
         /\ doing'[h] # "idle" /\ response'[h] \in Responses
<1>1. Head(queue[h]) \in Messages /\ Tail(queue[h]) \in Seq(Messages)
  BY HeadAndTail DEF TypeOK, Handle
<1>2. Head(queue[h]).id \in Ids
  BY <1>1 DEF Messages
<1>3. PICK d \in Decisions(h, Head(queue[h])) \ {"throws"} :
        /\ doing' = [doing EXCEPT ![h] = IF d = "worker" THEN "join" ELSE "reply"]
        /\ response' = [response EXCEPT ![h] = IF d = "worker" THEN "STARTED" ELSE d]
        /\ step' = IF h = "InstCmdHandler" /\ d = "STARTED"
                   THEN [step EXCEPT ![Head(queue[h]).id] = Last] ELSE step
  BY DEF Handle
<1>4. d \in Responses \cup {"worker"}
  BY DecisionsType
<1>5. /\ doing' \in [Handlers -> {"idle", "join", "reply"}] /\ doing'[h] # "idle"
      /\ response' \in [Handlers -> Responses \cup {"none"}]
      /\ response'[h] \in Responses
  BY <1>3, <1>4 DEF TypeOK, Responses
<1>6. step' \in [Ids -> 0..Done]
  BY <1>2, <1>3, PlanLength DEF TypeOK
<1>7. /\ queue' \in [Handlers -> Seq(Messages)]
      /\ message' \in [Handlers -> Messages \cup {NoMessage}]
  BY <1>1 DEF Handle, TypeOK
<1> QED
  BY <1>1, <1>5, <1>6, <1>7 DEF Handle, TypeOK, linkVars, workerVars, gmpVars, seenVars

LEMMA StartWorkerType ==
  ASSUME TypeOK, NEW h \in Handlers, StartWorker(h), message[h] \in Messages
  PROVE  TypeOK' /\ FirstStep(h) \in 1..Last
<1>1. message[h].id \in Ids /\ message[h].id \in 0..MaxActions /\ 0 \in 0..MaxActions
  BY ActionHandlersAssumption DEF Messages, Ids
<1>2. FirstStep(h) \in 1..Last /\ FirstStep(h) \in 0..Done
  BY PlanLength DEF FirstStep
<1>3. /\ id' \in [Handlers -> 0..MaxActions] /\ label' \in [Handlers -> 0..MaxActions]
      /\ step' \in [Ids -> 0..Done]
  BY <1>1, <1>2 DEF StartWorker, TypeOK
<1> QED
  BY <1>2, <1>3 DEF StartWorker, TypeOK, linkVars, gmpVars, seenVars

LEMMA ReplyType ==
  ASSUME TypeOK, NEW h \in Handlers, Reply(h), message[h] \in Messages,
         response[h] \in Responses
  PROVE  TypeOK'
<1>1. message[h].id \in Ids
  BY DEF Messages
<1>2. answer' \in [Ids -> Responses \cup {"none"}]
  BY <1>1 DEF Reply, TypeOK
<1> QED
  BY <1>2 DEF Reply, TypeOK, linkVars, workerVars, threadVars, gmpVars

\* Taking a step keeps the type of step.
LEMMA AdvanceType ==
  ASSUME TypeOK, NEW m \in Ids, NEW f, Advance(m, f), step[m] \in 1..Last
  PROVE  /\ step' \in [Ids -> 0..Done]
         /\ step'[m] > step[m] /\ step'[m] \in 2..Done
         /\ \A n \in Ids : n # m => step'[n] = step[n]
<1>1. Done = 12 /\ step[m] \in 1..11 /\ step[m] + 1 \in 2..12 /\ step[m] + 1 > step[m]
  BY PlanLength
<1>2. PICK k \in {Done, step[m] + 1} : step' = [step EXCEPT ![m] = k]
  BY Zenon DEF Advance
<1>3. k \in 2..12 /\ k \in 0..Done /\ k > step[m] /\ Done = 12
  BY <1>1
<1>4. step' \in [Ids -> 0..Done] /\ step'[m] = k /\ \A n \in Ids : n # m => step'[n] = step[n]
  BY <1>2, <1>3 DEF TypeOK
<1> QED
  BY <1>3, <1>4

LEMMA ReadLabelType ==
  ASSUME TypeOK, NEW m \in Ids, ReadLabel(m)
  PROVE  TypeOK'
<1>1. step' \in [Ids -> 0..Done]
  BY AdvanceType DEF ReadLabel, AtStep
<1>2. dataLabel' \in [Ids -> 0..MaxActions]
  BY DEF ReadLabel, TypeOK
<1> QED
  BY <1>1, <1>2 DEF ReadLabel, TypeOK, linkVars, dispatchVars, workerVars, gmpVars, seenVars

LEMMA PostEventType ==
  ASSUME TypeOK, NEW m \in Ids, NEW e \in DOMAIN ObservationEvent, PostEvent(m, e),
         dataLabel[m] \in {0, m}
  PROVE  TypeOK'
<1>1. PICK f \in {"sent", "lost", "throws"} :
        /\ IF dataLabel[m] = 0 THEN SendsNothing("data", f) ELSE Sends("data", f)
        /\ Advance(m, f)
        /\ events' = IF f = "sent"
                     THEN [events EXCEPT ![dataLabel[m]] = Append(@, ObservationEvent[e])]
                     ELSE events
  BY DEF PostEvent
<1>2. step' \in [Ids -> 0..Done]
  BY <1>1, AdvanceType DEF PostEvent, AtStep
<1>3. session' \in [Singletons -> 0..connections]
  BY <1>1, SendsType DEF Singletons
<1>4. ObservationEvent[e] \in 1..7
  BY PlanIsOrdered DEF PostEvent, AtStep
<1>5. f = "sent" => dataLabel[m] = m
  BY <1>1 DEF SendsNothing
<1>6. events' \in [Ids -> Seq(1..7)]
  <2>1. Append(events[m], ObservationEvent[e]) \in Seq(1..7)
    BY <1>4, AppendLast DEF TypeOK
  <2> QED
    BY <1>1, <1>5, <2>1 DEF TypeOK
<1> QED
  BY <1>2, <1>3, <1>6 DEF PostEvent, TypeOK, linkVars, dispatchVars, workerVars, gmpVars

LEMMA PostStatusType ==
  ASSUME TypeOK, NEW m \in Ids, PostStatus(m)
  PROVE  TypeOK'
<1>1. step' \in [Ids -> 0..Done]
  BY AdvanceType DEF PostStatus, AtStep
<1>2. session' \in [Singletons -> 0..connections]
  BY SendsType DEF PostStatus, Singletons
<1> QED
  BY <1>1, <1>2
     DEF PostStatus, TypeOK, linkVars, dispatchVars, workerVars, gmpVars, seenVars

\* The action that a completion info is for.
CompletedBy(m) == IF HasWorker(m) THEN id[handler[m]] ELSE m

LEMMA CompleteType ==
  ASSUME TypeOK, NEW m \in Ids, NEW r \in CompletionArguments, Complete(m, r),
         CompletedBy(m) \in Ids
  PROVE  TypeOK'
<1>1. PICK f \in {"sent", "lost", "throws"} :
        /\ IF Refused(r) THEN f = "lost" /\ UNCHANGED session ELSE Sends("commands", f)
        /\ Advance(m, f)
        /\ completion' = IF f = "sent" THEN [completion EXCEPT ![CompletedBy(m)] = r]
                         ELSE completion
  BY DEF Complete, CompletedBy
<1>2. step' \in [Ids -> 0..Done]
  BY <1>1, AdvanceType DEF Complete, AtStep
<1>3. session' \in [Singletons -> 0..connections]
  BY <1>1, SendsType DEF Singletons, TypeOK
<1>4. completion' \in [Ids -> Completions \cup {"none"}]
  BY <1>1 DEF TypeOK, Refused, Completions
<1>5. refused' \subseteq Ids
  BY DEF Complete, TypeOK
<1> QED
  BY <1>2, <1>3, <1>4, <1>5
     DEF Complete, TypeOK, linkVars, dispatchVars, workerVars, gmpVars


-----------------------------------------------------------------------------
(* The invariant is inductive                                              *)

LEMMA InitInv == Init => Inv
<1> SUFFICES ASSUME Init PROVE Inv
  OBVIOUS
<1>1. \A m \in Ids : m \in Fresh
  BY DEF Init, Fresh
<1>2. \A h \in Handlers : Len(queue[h]) = 0
  BY DEF Init
<1>3. Queued
  BY <1>2 DEF Queued
<1>4. Handled /\ Told
  BY DEF Handled, Told, Init
<1>j. Joining
  BY DEF Joining, Init
<1>5. Unissued /\ Idle /\ ClientThreads
  BY <1>1 DEF Unissued, Idle, ClientThreads, Fresh
<1>6. Running
  BY <1>1 DEF Running, Fresh
<1> QED
  BY <1>3, <1>4, <1>j, <1>5, <1>6 DEF Inv

\* A step of the connection or of the client leaves what the invariant is about alone.
LEMMA UnchangedInv ==
  ASSUME Inv, UNCHANGED <<dispatchVars, workerVars, threadVars, gmpVars>>,
         UNCHANGED <<answer, completion, events>>
  PROVE  Inv'
BY DEF Inv, Unissued, Queued, Handled, Joining, Told, Running, Idle, ClientThreads, Fresh,
       EventsBefore, HasWorker, dispatchVars, workerVars, threadVars, gmpVars

\* A step of the thread of m, which changes what is kept for m alone.
LEMMA ThreadInv ==
  ASSUME TypeOK, Inv, NEW m \in Ids, step[m] \in 1..Last,
         UNCHANGED <<dispatchVars, workerVars, gmpVars>>, answer' = answer,
         \A n \in Ids : n # m => /\ step'[n] = step[n] /\ completion'[n] = completion[n]
                                 /\ events'[n] = events[n] /\ dataLabel'[n] = dataLabel[n],
         dataLabel'[m] \in {0, m}, step'[m] \in 2..Done, step'[m] > step[m],
         step'[m] # Done => completion'[m] = "none" /\ EventsBefore(m)'
  PROVE  Inv'
<1> USE DEF dispatchVars, workerVars, gmpVars
<1>1. step[m] # 0 /\ step[m] # Done /\ m \notin Fresh
  BY PlanLength DEF Fresh
<1>2. \A n \in Ids : (n \in Fresh) => (n \in Fresh')
  BY <1>1 DEF Fresh
<1>3. m <= issued
  BY <1>1 DEF Inv, Running
<1>4. Unissued'
  BY <1>2 DEF Inv, Unissued
<1>5. Queued'
  <2>1. ASSUME NEW h \in Handlers, NEW i \in 1..Len(queue[h])
        PROVE  queue[h][i] \in Messages /\ queue[h][i].id \in Ids
    <3>1. queue[h] \in Seq(Messages)
      BY DEF TypeOK
    <3>2. queue[h][i] \in Messages
      BY <3>1
    <3> QED
      BY <3>2 DEF Messages
  <2> QED
    BY <1>2, <2>1 DEF Inv, Queued
<1>6. Handled'
  <2>1. \A h \in Handlers : message[h] \in Messages => message[h].id \in Ids
    BY DEF Messages
  <2> QED
    BY <1>2, <2>1 DEF Inv, Handled
<1>7. Told'
  BY DEF Inv, Told
<1>8. Running'
  <2> SUFFICES ASSUME NEW n \in Ids, step'[n] # 0
               PROVE  /\ n <= issued' /\ answer'[n] \in {"none", "STARTED"}
                      /\ dataLabel'[n] \in {0, n}
                      /\ step'[n] # Done => /\ completion'[n] = "none"
                                            /\ HasWorker(n)' => id'[handler'[n]] = n
                                            /\ EventsBefore(n)'
    BY DEF Running
  <2>1. CASE n = m
    BY <1>1, <2>1 DEF Inv, Running, HasWorker
  <2>2. CASE n # m
    BY <2>2 DEF Inv, Running, HasWorker, EventsBefore
  <2> QED
    BY <2>1, <2>2
<1>9. Idle'
  BY DEF Inv, Idle
<1>10. Joining'
  BY DEF Inv, Joining
<1>11. ClientThreads'
  <2>1. step[m] \in {0, Last, Done} => step'[m] = Done
    BY <1>1, PlanLength
  <2> QED
    BY <2>1 DEF Inv, ClientThreads, HasWorker
<1> QED
  BY <1>4, <1>5, <1>6, <1>7, <1>8, <1>9, <1>10, <1>11 DEF Inv

\* The events of m stay before its next step when none is added.
LEMMA StillBefore ==
  ASSUME TypeOK, Inv, NEW m \in Ids, step[m] \in 1..Last, step'[m] \in 2..Done,
         step'[m] > step[m], events'[m] = events[m]
  PROVE  EventsBefore(m)'
<1>1. EventsBefore(m)
  BY PlanLength DEF Inv, Running
<1>2. \A s \in 1..Last : s >= step'[m] => s >= step[m]
  BY PlanLength
<1> QED
  BY <1>1, <1>2 DEF EventsBefore

LEMMA IssueInv ==
  ASSUME TypeOK, Inv, NEW h \in Handlers, NEW a \in Activities, NEW c \in Configs,
         Issue(h, a, c)
  PROVE  Inv'
<1> DEFINE m == issued + 1
           msg == [id |-> m, activity |-> a, config |-> c]
<1>0. /\ doing' = doing /\ message' = message /\ response' = response
      /\ id' = id /\ label' = label /\ step' = step /\ dataLabel' = dataLabel
      /\ answer' = answer /\ completion' = completion /\ events' = events
      /\ issued' = m
  BY DEF Issue, workerVars, threadVars, seenVars
<1>q. /\ handler' = [handler EXCEPT ![m] = h]
      /\ queue' = [queue EXCEPT ![h] = Append(@, msg)]
  BY DEF Issue, workerVars, threadVars, seenVars
<1>1. m \in Ids /\ msg \in Messages /\ msg.id = m /\ issued \in Nat /\ m > issued
  BY IssueType DEF TypeOK
<1>2. m \in Fresh /\ \A n \in Ids : (n <= issued => n # m /\ n <= m) /\ (n > m => n > issued)
  BY <1>1 DEF Inv, Unissued, Ids
<1>3. \A n \in Ids : /\ (n \in Fresh' <=> n \in Fresh)
                     /\ EventsBefore(n)' <=> EventsBefore(n)
  BY <1>0 DEF Fresh, EventsBefore
<1>4. handler'[m] = h /\ \A n \in Ids : n # m => handler'[n] = handler[n]
  BY <1>q, <1>1 DEF TypeOK
<1>5. \A g \in Handlers : g # h => queue'[g] = queue[g]
  BY <1>q DEF TypeOK
<1>6. /\ queue[h] \in Seq(Messages) /\ Len(queue[h]) \in Nat
      /\ Len(queue'[h]) = Len(queue[h]) + 1
      /\ \A i \in 1..Len(queue[h]) : queue'[h][i] = queue[h][i]
      /\ queue'[h][Len(queue[h]) + 1] = msg
  <2>1. queue[h] \in Seq(Messages) /\ queue'[h] = Append(queue[h], msg)
    BY <1>q DEF TypeOK
  <2> QED
    BY <1>1, <2>1, AppendLast
<1>7. \A g \in Handlers : \A i \in 1..Len(queue[g]) :
        queue[g][i].id \in Ids /\ queue[g][i].id <= issued /\ queue[g][i].id # m
  <2>1. ASSUME NEW g \in Handlers, NEW i \in 1..Len(queue[g])
        PROVE  queue[g][i].id \in Ids
    <3>1. queue[g] \in Seq(Messages)
      BY DEF TypeOK
    <3>2. queue[g][i] \in Messages
      BY <3>1
    <3> QED
      BY <3>2 DEF Messages
  <2> QED
    BY <1>2, <2>1 DEF Inv, Queued
<1> HIDE DEF m, msg
<1>8. Unissued'
  BY <1>0, <1>2, <1>3 DEF Inv, Unissued
<1>9. Queued'
  <2> SUFFICES ASSUME NEW g \in Handlers, NEW i \in 1..Len(queue'[g])
               PROVE  /\ queue'[g][i].id <= m
                      /\ handler'[queue'[g][i].id] = g
                      /\ queue'[g][i].id \in Fresh'
                      /\ \A j \in 1..Len(queue'[g]) :
                           queue'[g][i].id = queue'[g][j].id => i = j
    BY <1>0 DEF Queued
  <2>1. CASE g # h
    <3>1. queue'[g] = queue[g]
      BY <1>5, <2>1
    <3>2. /\ queue[g][i].id \in Ids /\ queue[g][i].id <= issued
          /\ queue[g][i].id # m
      BY <1>7, <3>1
    <3>3. /\ handler[queue[g][i].id] = g /\ queue[g][i].id \in Fresh
          /\ \A j \in 1..Len(queue[g]) : queue[g][i].id = queue[g][j].id => i = j
      BY <3>1 DEF Inv, Queued
    <3> QED
      BY <1>2, <1>3, <1>4, <3>1, <3>2, <3>3
  <2>2. \A j \in 1..Len(queue'[h]) : j \in 1..Len(queue[h]) \/ j = Len(queue[h]) + 1
    BY <1>6
  <2>3. CASE g = h /\ i \in 1..Len(queue[h])
    <3>1. queue'[h][i] = queue[h][i] /\ queue[h][i].id # m /\ queue[h][i].id \in Ids
          /\ queue[h][i].id <= issued
      BY <1>6, <1>7, <2>3
    <3>2. \A j \in 1..Len(queue'[h]) : queue'[h][i].id = queue'[h][j].id => i = j
      <4>1. \A j \in 1..Len(queue[h]) : queue[h][i].id = queue[h][j].id => i = j
        BY <2>3 DEF Inv, Queued
      <4> QED
        BY <1>1, <1>6, <2>2, <3>1, <4>1
    <3>3. handler[queue[h][i].id] = h /\ queue[h][i].id \in Fresh
      BY <2>3 DEF Inv, Queued
    <3> QED
      BY <1>2, <1>3, <1>4, <2>3, <3>1, <3>2, <3>3
  <2>4. CASE g = h /\ i = Len(queue[h]) + 1
    <3>1. queue'[h][i].id = m
      BY <1>1, <1>6, <2>4
    <3>2. \A j \in 1..Len(queue'[h]) : queue'[h][i].id = queue'[h][j].id => i = j
      BY <1>6, <1>7, <2>2, <2>4, <3>1
    <3>3. m <= m
      BY <1>1 DEF Ids
    <3> QED
      BY <1>1, <1>2, <1>3, <1>4, <2>4, <3>1, <3>2, <3>3
  <2> QED
    BY <2>1, <2>2, <2>3, <2>4
<1>10. Handled'
  <2> SUFFICES ASSUME NEW g \in Handlers, doing[g] # "idle"
               PROVE  /\ message[g] \in Messages
                      /\ message[g].id <= m
                      /\ handler'[message[g].id] = g
                      /\ answer[message[g].id] = "none"
                      /\ response[g] \in Responses
                      /\ \A i \in 1..Len(queue'[g]) : queue'[g][i].id # message[g].id
                      /\ response[g] # "STARTED" \/ doing[g] = "join"
                           => message[g].id \in Fresh'
    BY <1>0 DEF Handled
  <2>1. /\ message[g] \in Messages /\ message[g].id <= issued
        /\ handler[message[g].id] = g /\ answer[message[g].id] = "none"
        /\ response[g] \in Responses
        /\ \A i \in 1..Len(queue[g]) : queue[g][i].id # message[g].id
        /\ response[g] # "STARTED" \/ doing[g] = "join" => message[g].id \in Fresh
    BY DEF Inv, Handled
  <2>2. message[g].id \in Ids /\ message[g].id # m /\ message[g].id <= m
    <3>1. message[g].id \in Ids
      BY <2>1 DEF Messages
    <3> QED
      BY <1>2, <2>1, <3>1
  <2>3. \A i \in 1..Len(queue'[g]) : queue'[g][i].id # message[g].id
    <3>1. CASE g # h
      BY <1>5, <2>1, <3>1
    <3>2. CASE g = h
      <4>1. \A j \in 1..Len(queue'[h]) : j \in 1..Len(queue[h]) \/ j = Len(queue[h]) + 1
        BY <1>6
      <4> QED
        BY <1>1, <1>6, <2>1, <2>2, <3>2, <4>1
    <3> QED
      BY <3>1, <3>2
  <2> QED
    BY <1>3, <1>4, <2>1, <2>2, <2>3
<1>11. Told'
  <2> SUFFICES ASSUME NEW g \in Handlers
               PROVE  /\ label[g] \in {0, id[g]}
                      /\ id[g] # 0 => id[g] <= m /\ handler'[id[g]] = g
    BY <1>0 DEF Told
  <2>1. id[g] # 0 => id[g] \in Ids
    BY ActionHandlersAssumption DEF TypeOK, Ids
  <2> QED
    BY <1>2, <1>4, <2>1 DEF Inv, Told
<1>12. Running'
  <2> SUFFICES ASSUME NEW n \in Ids, step[n] # 0
               PROVE  /\ n <= m /\ answer[n] \in {"none", "STARTED"}
                      /\ dataLabel[n] \in {0, n}
                      /\ step[n] # Done => /\ completion[n] = "none"
                                           /\ HasWorker(n)' => id[handler'[n]] = n
                                           /\ EventsBefore(n)'
    BY <1>0 DEF Running
  <2>1. n <= issued /\ n # m /\ n <= m
    BY <1>2 DEF Inv, Running
  <2>2. handler'[n] = handler[n] /\ (HasWorker(n)' <=> HasWorker(n))
    BY <1>4, <2>1 DEF HasWorker
  <2> QED
    BY <1>3, <2>1, <2>2 DEF Inv, Running
<1>13. Idle'
  BY <1>0 DEF Inv, Idle
<1>14. Joining'
  BY <1>0 DEF Inv, Joining
<1>15. ClientThreads'
  <2>1. step[m] = 0
    BY <1>2 DEF Fresh
  <2> QED
    BY <1>0, <1>4, <2>1 DEF Inv, ClientThreads, HasWorker
<1> QED
  BY <1>8, <1>9, <1>10, <1>11, <1>12, <1>13, <1>14, <1>15 DEF Inv

\* Every message that waits is for an action of its handler.
LEMMA QueueIds ==
  ASSUME TypeOK, Inv, NEW h \in Handlers, NEW i \in 1..Len(queue[h])
  PROVE  /\ queue[h][i] \in Messages /\ queue[h][i].id \in Ids
         /\ queue[h][i].id <= issued /\ handler[queue[h][i].id] = h
         /\ queue[h][i].id \in Fresh
         /\ \A j \in 1..Len(queue[h]) : queue[h][i].id = queue[h][j].id => i = j
<1>1. queue[h] \in Seq(Messages)
  BY DEF TypeOK
<1>2. queue[h][i] \in Messages
  BY <1>1
<1> QED
  BY <1>2 DEF Messages, Inv, Queued

LEMMA HandleInv ==
  ASSUME TypeOK, Inv, NEW h \in Handlers, Handle(h)
  PROVE  Inv'
<1> DEFINE msg == Head(queue[h])
           m == msg.id
<1>0. /\ id' = id /\ label' = label /\ dataLabel' = dataLabel /\ issued' = issued
      /\ handler' = handler /\ answer' = answer /\ completion' = completion
      /\ events' = events
  BY DEF Handle, workerVars, gmpVars, seenVars
<1>1. /\ \A g \in Handlers : g # h => /\ queue'[g] = queue[g] /\ doing'[g] = doing[g]
                                      /\ message'[g] = message[g]
                                      /\ response'[g] = response[g]
      /\ queue'[h] = Tail(queue[h]) /\ message'[h] = msg
  BY Zenon DEF Handle, TypeOK
<1>2. /\ msg \in Messages /\ m \in Ids /\ m <= issued /\ handler[m] = h /\ m \in Fresh
      /\ \A i \in 1..Len(Tail(queue[h])) :
           /\ i + 1 \in 1..Len(queue[h]) /\ Tail(queue[h])[i] = queue[h][i + 1]
           /\ Tail(queue[h])[i].id # m
      /\ response'[h] \in Responses
  <2>1. queue[h] \in Seq(Messages) /\ queue[h] # <<>>
    BY DEF TypeOK, Handle
  <2>2. /\ 1 \in 1..Len(queue[h]) /\ msg = queue[h][1]
        /\ \A i \in 1..Len(Tail(queue[h])) : /\ i + 1 \in 1..Len(queue[h])
                                             /\ Tail(queue[h])[i] = queue[h][i + 1]
                                             /\ 1 # i + 1
    BY <2>1, HeadAndTail
  <2> QED
    BY <2>2, QueueIds, HandleType
<1>3. \/ step' = step
      \/ /\ step' = [step EXCEPT ![m] = Last] /\ h = "InstCmdHandler"
         /\ response'[h] = "STARTED" /\ doing'[h] = "reply"
  <2>1. PICK d \in Decisions(h, msg) \ {"throws"} :
          /\ doing' = [doing EXCEPT ![h] = IF d = "worker" THEN "join" ELSE "reply"]
          /\ response' = [response EXCEPT ![h] = IF d = "worker" THEN "STARTED" ELSE d]
          /\ step' = IF h = "InstCmdHandler" /\ d = "STARTED"
                     THEN [step EXCEPT ![m] = Last] ELSE step
    BY DEF Handle
  <2>2. d \in Responses \cup {"worker"}
    BY <2>1, DecisionsType
  <2>3. d = "STARTED" => doing'[h] = "reply" /\ response'[h] = "STARTED"
    BY <2>1 DEF TypeOK
  <2> QED
    BY <2>1, <2>2, <2>3
<1>j. doing'[h] = "join" => response'[h] = "STARTED"
  BY DEF Handle, TypeOK
<1>4. \A n \in Ids : n # m => step'[n] = step[n] /\ (n \in Fresh' <=> n \in Fresh)
  BY <1>0, <1>2, <1>3 DEF Fresh, TypeOK
<1>5. response'[h] # "STARTED" \/ doing'[h] = "join" => m \in Fresh'
  BY <1>0, <1>2, <1>3 DEF Fresh
<1> HIDE DEF m, msg
<1>6. Unissued'
  <2>1. \A n \in Ids : n > issued => n # m
    BY <1>2 DEF Ids, TypeOK
  <2> QED
    BY <1>0, <1>4, <2>1 DEF Inv, Unissued
<1>7. Queued'
  <2> SUFFICES ASSUME NEW g \in Handlers, NEW i \in 1..Len(queue'[g])
               PROVE  /\ queue'[g][i].id <= issued
                      /\ handler[queue'[g][i].id] = g
                      /\ queue'[g][i].id \in Fresh'
                      /\ \A j \in 1..Len(queue'[g]) :
                           queue'[g][i].id = queue'[g][j].id => i = j
    BY <1>0 DEF Queued
  <2>1. CASE g # h
    <3>1. queue'[g] = queue[g]
      BY <1>1, <2>1
    <3>2. /\ queue[g][i].id \in Ids
          /\ queue[g][i].id <= issued /\ handler[queue[g][i].id] = g
          /\ queue[g][i].id \in Fresh
          /\ \A j \in 1..Len(queue[g]) : queue[g][i].id = queue[g][j].id => i = j
      BY <3>1, QueueIds
    <3>3. queue[g][i].id # m
      BY <1>2, <2>1, <3>2
    <3> QED
      BY <1>4, <3>1, <3>2, <3>3
  <2>2. CASE g = h
    <3>1. /\ queue'[h] = Tail(queue[h]) /\ i \in 1..Len(Tail(queue[h]))
          /\ i + 1 \in 1..Len(queue[h]) /\ Tail(queue[h])[i] = queue[h][i + 1]
          /\ Tail(queue[h])[i].id # m
      BY <1>1, <1>2, <2>2
    <3>2. /\ queue[h][i + 1].id \in Ids
          /\ queue[h][i + 1].id <= issued /\ handler[queue[h][i + 1].id] = h
          /\ queue[h][i + 1].id \in Fresh
          /\ \A j \in 1..Len(queue[h]) : queue[h][i + 1].id = queue[h][j].id => i + 1 = j
      BY <3>1, QueueIds
    <3>3. \A j \in 1..Len(Tail(queue[h])) :
            Tail(queue[h])[i].id = Tail(queue[h])[j].id => i = j
      BY <1>2, <3>1, <3>2
    <3> QED
      BY <1>4, <2>2, <3>1, <3>2, <3>3
  <2> QED
    BY <2>1, <2>2
<1>8. Handled'
  <2> SUFFICES ASSUME NEW g \in Handlers, doing'[g] # "idle"
               PROVE  /\ message'[g] \in Messages
                      /\ message'[g].id <= issued
                      /\ handler[message'[g].id] = g
                      /\ answer[message'[g].id] = "none"
                      /\ response'[g] \in Responses
                      /\ \A i \in 1..Len(queue'[g]) : queue'[g][i].id # message'[g].id
                      /\ response'[g] # "STARTED" \/ doing'[g] = "join"
                           => message'[g].id \in Fresh'
    BY <1>0 DEF Handled
  <2>1. CASE g = h
    <3>1. answer[m] = "none"
      BY <1>2 DEF Fresh
    <3> QED
      BY <1>1, <1>2, <1>5, <2>1, <3>1 DEF m
  <2>2. CASE g # h
    <3>1. /\ queue'[g] = queue[g] /\ doing'[g] = doing[g] /\ message'[g] = message[g]
          /\ response'[g] = response[g]
      BY <1>1, <2>2
    <3>2. /\ message[g] \in Messages /\ message[g].id <= issued
          /\ handler[message[g].id] = g /\ answer[message[g].id] = "none"
          /\ response[g] \in Responses
          /\ \A i \in 1..Len(queue[g]) : queue[g][i].id # message[g].id
          /\ response[g] # "STARTED" \/ doing[g] = "join" => message[g].id \in Fresh
      BY <3>1 DEF Inv, Handled
    <3>3. message[g].id \in Ids /\ message[g].id # m
      BY <1>2, <2>2, <3>2 DEF Messages
    <3> QED
      BY <1>4, <3>1, <3>2, <3>3
  <2> QED
    BY <2>1, <2>2
<1>9. Told'
  BY <1>0 DEF Inv, Told
<1>10. Running'
  <2> SUFFICES ASSUME NEW n \in Ids, step'[n] # 0
               PROVE  /\ n <= issued /\ answer[n] \in {"none", "STARTED"}
                      /\ dataLabel[n] \in {0, n}
                      /\ step'[n] # Done => /\ completion[n] = "none"
                                            /\ HasWorker(n) => id[handler[n]] = n
                                            /\ EventsBefore(n)'
    BY <1>0 DEF Running, HasWorker
  <2>1. CASE n = m
    <3>1. /\ answer[m] = "none" /\ dataLabel[m] = 0 /\ completion[m] = "none"
          /\ events[m] = <<>> /\ step[m] = 0
      BY <1>2 DEF Fresh
    <3>2. ~HasWorker(m)
      BY <1>2, <1>3, <2>1, <3>1 DEF HasWorker
    <3>3. EventsBefore(n)'
      BY <1>0, <2>1, <3>1 DEF EventsBefore
    <3> QED
      BY <1>2, <2>1, <3>1, <3>2, <3>3
  <2>2. CASE n # m
    BY <1>0, <1>4, <2>2 DEF Inv, Running, EventsBefore
  <2> QED
    BY <2>1, <2>2
<1>11. Idle'
  <2>1. \A n \in Ids : step'[n] = 0 => step[n] = 0
    BY <1>2, <1>4 DEF Fresh
  <2> QED
    BY <1>0, <2>1 DEF Inv, Idle
<1>12. Joining'
  BY <1>1, <1>j DEF Inv, Joining
<1>13. ClientThreads'
  <2>1. step'[m] \in {step[m], Last}
    BY <1>2, <1>3 DEF TypeOK
  <2> QED
    BY <1>0, <1>4, <2>1 DEF Inv, ClientThreads, HasWorker
<1> QED
  BY <1>6, <1>7, <1>8, <1>9, <1>10, <1>11, <1>12, <1>13 DEF Inv

\* What the invariant says of a message that is being handled.
LEMMA MessageInv ==
  ASSUME Inv, NEW h \in Handlers, doing[h] # "idle"
  PROVE  /\ message[h] \in Messages /\ message[h].id \in Ids
         /\ message[h].id <= issued /\ handler[message[h].id] = h
         /\ answer[message[h].id] = "none" /\ response[h] \in Responses
         /\ \A i \in 1..Len(queue[h]) : queue[h][i].id # message[h].id
         /\ response[h] # "STARTED" \/ doing[h] = "join" => message[h].id \in Fresh
<1>1. message[h] \in Messages
  BY DEF Inv, Handled
<1> QED
  BY <1>1 DEF Inv, Handled, Messages

LEMMA StartWorkerInv ==
  ASSUME TypeOK, Inv, NEW h \in Handlers, StartWorker(h)
  PROVE  Inv'
<1> DEFINE msg == message[h]
           m == msg.id
<1>0. /\ queue' = queue /\ message' = message /\ response' = response
      /\ dataLabel' = dataLabel /\ issued' = issued /\ handler' = handler
      /\ answer' = answer /\ completion' = completion /\ events' = events
  BY DEF StartWorker, gmpVars, seenVars
<1>1. doing[h] = "join" /\ (id[h] # 0 => step[id[h]] = Done)
  BY DEF StartWorker, Joined
<1>2. /\ msg \in Messages /\ m \in Ids /\ m <= issued /\ handler[m] = h
      /\ m \in Fresh /\ m # 0
      /\ \A i \in 1..Len(queue[h]) : queue[h][i].id # m
  BY <1>1, MessageInv DEF Ids
<1>3. /\ id'[h] = m /\ label'[h] \in {0, m} /\ step'[m] = FirstStep(h)
      /\ doing'[h] = "reply" /\ FirstStep(h) # 0
      /\ \A n \in Ids : n # m => step'[n] = step[n]
      /\ \A g \in Handlers : g # h => /\ id'[g] = id[g] /\ label'[g] = label[g]
                                      /\ doing'[g] = doing[g]
  <2>1. /\ id' = [id EXCEPT ![h] = m] /\ doing' = [doing EXCEPT ![h] = "reply"]
        /\ step' = [step EXCEPT ![m] = FirstStep(h)]
        /\ label' = [label EXCEPT ![h] = IF msg.config = "label" THEN m ELSE 0]
    BY DEF StartWorker
  <2>2. /\ id \in [Handlers -> 0..MaxActions] /\ label \in [Handlers -> 0..MaxActions]
        /\ doing \in [Handlers -> {"idle", "join", "reply"}]
        /\ step \in [Ids -> 0..Done]
    BY DEF TypeOK
  <2>3. FirstStep(h) # 0
    BY <1>2, StartWorkerType
  <2> HIDE DEF m, msg
  <2> QED
    BY <1>2, <2>1, <2>2, <2>3
<1>4. \A n \in Ids : n # m /\ n \in Fresh => n \in Fresh'
  BY <1>0, <1>3 DEF Fresh
<1> HIDE DEF m, msg
<1>5. Unissued'
  <2>1. \A n \in Ids : n > issued => n # m
    BY <1>2 DEF Ids, TypeOK
  <2> QED
    BY <1>0, <1>4, <2>1 DEF Inv, Unissued
<1>6. Queued'
  <2>1. ASSUME NEW g \in Handlers, NEW i \in 1..Len(queue[g])
        PROVE  queue[g][i].id \in Ids /\ queue[g][i].id # m
    <3>1. queue[g][i].id \in Ids /\ handler[queue[g][i].id] = g
      BY QueueIds
    <3> QED
      BY <1>2, <3>1
  <2> QED
    BY <1>0, <1>4, <2>1 DEF Inv, Queued
<1>7. Handled'
  <2> SUFFICES ASSUME NEW g \in Handlers, doing'[g] # "idle"
               PROVE  /\ message[g] \in Messages
                      /\ message[g].id <= issued
                      /\ handler[message[g].id] = g
                      /\ answer[message[g].id] = "none"
                      /\ response[g] \in Responses
                      /\ \A i \in 1..Len(queue[g]) : queue[g][i].id # message[g].id
                      /\ response[g] # "STARTED" \/ doing'[g] = "join"
                           => message[g].id \in Fresh'
    BY <1>0 DEF Handled
  <2>1. CASE g = h
    <3>1. response[h] = "STARTED" /\ doing'[h] # "join"
      BY <1>1, <1>3 DEF Inv, Joining
    <3> QED
      BY <1>1, <2>1, <3>1, MessageInv
  <2>2. CASE g # h
    <3>1. doing'[g] = doing[g]
      BY <1>3, <2>2
    <3>2. message[g].id # m /\ message[g].id \in Ids
      BY <1>2, <2>2, <3>1, MessageInv
    <3> QED
      BY <1>4, <3>1, <3>2, MessageInv
  <2> QED
    BY <2>1, <2>2
<1>8. Told'
  BY <1>0, <1>2, <1>3 DEF Inv, Told
<1>9. Running'
  <2> SUFFICES ASSUME NEW n \in Ids, step'[n] # 0
               PROVE  /\ n <= issued /\ answer[n] \in {"none", "STARTED"}
                      /\ dataLabel[n] \in {0, n}
                      /\ step'[n] # Done => /\ completion[n] = "none"
                                            /\ HasWorker(n) => id'[handler[n]] = n
                                            /\ EventsBefore(n)'
    BY <1>0 DEF Running, HasWorker
  <2>1. CASE n = m
    <3>1. /\ answer[m] = "none" /\ dataLabel[m] = 0 /\ completion[m] = "none"
          /\ events[m] = <<>>
      BY <1>2 DEF Fresh
    <3>2. EventsBefore(n)'
      BY <1>0, <2>1, <3>1 DEF EventsBefore
    <3> QED
      BY <1>2, <1>3, <2>1, <3>1, <3>2
  <2>2. CASE n # m
    <3>1. step'[n] = step[n]
      BY <1>3, <2>2
    <3>2. /\ n <= issued /\ answer[n] \in {"none", "STARTED"} /\ dataLabel[n] \in {0, n}
          /\ step[n] # Done => /\ completion[n] = "none" /\ EventsBefore(n)
                               /\ HasWorker(n) => id[handler[n]] = n
      BY <3>1 DEF Inv, Running
    <3>3. EventsBefore(n)' <=> EventsBefore(n)
      BY <1>0, <3>1 DEF EventsBefore
    <3>4. step[n] # Done /\ HasWorker(n) => handler[n] # h
      <4> SUFFICES ASSUME step[n] # Done, HasWorker(n), handler[n] = h
                   PROVE  FALSE
        OBVIOUS
      <4>1. id[h] = n
        BY <3>2
      <4> QED
        BY <1>1, <4>1 DEF Ids
    <3>5. handler[n] \in Handlers
      BY DEF TypeOK
    <3> QED
      BY <1>3, <3>1, <3>2, <3>3, <3>4, <3>5
  <2> QED
    BY <2>1, <2>2
<1>10. Idle'
  <2>1. \A n \in Ids : step'[n] = 0 => step[n] = 0
    BY <1>3
  <2> QED
    BY <1>0, <2>1 DEF Inv, Idle
<1>11. Joining'
  BY <1>0, <1>3 DEF Inv, Joining
<1>12. ClientThreads'
  <2>1. h = "InstCmdHandler" => step'[m] = Last
    BY <1>3 DEF FirstStep
  <2> QED
    BY <1>0, <1>2, <1>3, <2>1 DEF Inv, ClientThreads, HasWorker
<1> QED
  BY <1>5, <1>6, <1>7, <1>8, <1>9, <1>10, <1>11, <1>12 DEF Inv

LEMMA ReplyInv ==
  ASSUME TypeOK, Inv, NEW h \in Handlers, Reply(h)
  PROVE  Inv'
<1> DEFINE m == message[h].id
<1>0. /\ queue' = queue /\ id' = id /\ label' = label /\ step' = step
      /\ dataLabel' = dataLabel /\ issued' = issued /\ handler' = handler
      /\ completion' = completion /\ events' = events
      /\ doing[h] = "reply" /\ doing'[h] = "idle"
      /\ \A g \in Handlers : g # h => /\ doing'[g] = doing[g] /\ message'[g] = message[g]
                                      /\ response'[g] = response[g]
  BY DEF Reply, TypeOK, workerVars, threadVars, gmpVars
<1>1. /\ m \in Ids /\ m <= issued /\ handler[m] = h /\ answer[m] = "none"
      /\ response[h] \in Responses
      /\ \A i \in 1..Len(queue[h]) : queue[h][i].id # m
      /\ response[h] # "STARTED" => m \in Fresh
  BY <1>0, MessageInv
<1>2. /\ \A n \in Ids : n # m => answer'[n] = answer[n]
      /\ answer'[m] \in {"none", response[h]}
  <2>1. \/ answer' = answer
        \/ answer' = [answer EXCEPT ![m] = response[h]]
    BY DEF Reply
  <2>2. answer \in [Ids -> Responses \cup {"none"}]
    BY DEF TypeOK
  <2> HIDE DEF m
  <2> QED
    BY <1>1, <2>1, <2>2
<1>3. \A n \in Ids : n # m => (n \in Fresh' <=> n \in Fresh)
  BY <1>0, <1>2 DEF Fresh
<1> HIDE DEF m
<1>4. Unissued'
  <2>1. \A n \in Ids : n > issued => n # m
    BY <1>1 DEF Ids, TypeOK
  <2> QED
    BY <1>0, <1>3, <2>1 DEF Inv, Unissued
<1>5. Queued'
  <2>1. ASSUME NEW g \in Handlers, NEW i \in 1..Len(queue[g])
        PROVE  queue[g][i].id \in Ids /\ queue[g][i].id # m
    <3>1. queue[g][i].id \in Ids /\ handler[queue[g][i].id] = g
      BY QueueIds
    <3> QED
      BY <1>1, <3>1
  <2> QED
    BY <1>0, <1>3, <2>1 DEF Inv, Queued
<1>6. Handled'
  <2> SUFFICES ASSUME NEW g \in Handlers, doing'[g] # "idle"
               PROVE  /\ message'[g] \in Messages
                      /\ message'[g].id <= issued
                      /\ handler[message'[g].id] = g
                      /\ answer'[message'[g].id] = "none"
                      /\ response'[g] \in Responses
                      /\ \A i \in 1..Len(queue[g]) : queue[g][i].id # message'[g].id
                      /\ response'[g] # "STARTED" \/ doing'[g] = "join"
                           => message'[g].id \in Fresh'
    BY <1>0 DEF Handled
  <2>1. g # h /\ doing'[g] = doing[g] /\ message'[g] = message[g]
        /\ response'[g] = response[g]
    BY <1>0
  <2>2. message[g].id # m /\ message[g].id \in Ids
    BY <1>1, <2>1, MessageInv
  <2> QED
    BY <1>2, <1>3, <2>1, <2>2, MessageInv
<1>7. Told'
  BY <1>0 DEF Inv, Told
<1>8. Running'
  <2> SUFFICES ASSUME NEW n \in Ids, step[n] # 0
               PROVE  /\ n <= issued /\ answer'[n] \in {"none", "STARTED"}
                      /\ dataLabel[n] \in {0, n}
                      /\ step[n] # Done => /\ completion[n] = "none"
                                           /\ HasWorker(n) => id[handler[n]] = n
                                           /\ EventsBefore(n)'
    BY <1>0 DEF Running, HasWorker
  <2>1. answer'[n] \in {"none", "STARTED"}
    <3>1. CASE n = m
      <4>1. m \notin Fresh
        BY <3>1 DEF Fresh
      <4> QED
        BY <1>1, <1>2, <3>1, <4>1
    <3>2. CASE n # m
      <4>1. answer'[n] = answer[n]
        BY <1>2, <3>2
      <4> QED
        BY <4>1 DEF Inv, Running
    <3> QED
      BY <3>1, <3>2
  <2>2. EventsBefore(n)' <=> EventsBefore(n)
    BY <1>0 DEF EventsBefore
  <2> QED
    BY <2>1, <2>2 DEF Inv, Running
<1>9. Idle'
  BY <1>0 DEF Inv, Idle
<1>10. Joining'
  BY <1>0 DEF Inv, Joining
<1>11. ClientThreads'
  BY <1>0 DEF Inv, ClientThreads, HasWorker
<1> QED
  BY <1>4, <1>5, <1>6, <1>7, <1>8, <1>9, <1>10, <1>11 DEF Inv

\* What the invariant says of an action whose thread runs.
LEMMA RunningInv ==
  ASSUME TypeOK, Inv, NEW m \in Ids, step[m] \in 1..Last
  PROVE  /\ m <= issued /\ answer[m] \in {"none", "STARTED"} /\ completion[m] = "none"
         /\ dataLabel[m] \in {0, m} /\ EventsBefore(m)
         /\ HasWorker(m) => id[handler[m]] = m
         /\ handler[m] \in Handlers
<1>1. step[m] # 0 /\ step[m] # Done
  BY PlanLength
<1>2. handler[m] \in Handlers
  BY DEF TypeOK
<1> QED
  BY <1>1, <1>2 DEF Inv, Running

LEMMA ReadLabelInv ==
  ASSUME TypeOK, Inv, NEW m \in Ids, ReadLabel(m)
  PROVE  Inv'
<1>1. /\ step[m] \in 1..Last /\ Plan[step[m]] = "label" /\ Advance(m, "sent")
      /\ dataLabel' = [dataLabel EXCEPT ![m] = label[handler[m]]]
      /\ UNCHANGED <<dispatchVars, workerVars, gmpVars, answer, completion, events>>
  BY DEF ReadLabel, AtStep, seenVars
<1>2. /\ step'[m] > step[m] /\ step'[m] \in 2..Done
      /\ \A n \in Ids : n # m => step'[n] = step[n]
  BY <1>1, AdvanceType
<1>3. EventsBefore(m)'
  BY <1>1, <1>2, StillBefore
<1>4. HasWorker(m)
  <2>1. step[m] \notin {0, Last, Done}
    BY <1>1, PlanLength DEF Plan
  <2> QED
    BY <2>1 DEF Inv, ClientThreads
<1>5. dataLabel'[m] \in {0, m} /\ \A n \in Ids : n # m => dataLabel'[n] = dataLabel[n]
  BY <1>1, <1>4, RunningInv DEF Inv, Told, TypeOK
<1> QED
  BY <1>1, <1>2, <1>3, <1>5, RunningInv, ThreadInv

LEMMA PostEventInv ==
  ASSUME TypeOK, Inv, NEW m \in Ids, NEW e \in DOMAIN ObservationEvent, PostEvent(m, e)
  PROVE  /\ Inv'
         /\ \/ events' = events
            \/ /\ events' = [events EXCEPT ![m] = Append(@, ObservationEvent[e])]
               /\ \A i \in 1..Len(events[m]) : events[m][i] < ObservationEvent[e]
               /\ ObservationEvent[e] \in 1..7
<1>1. /\ step[m] \in 1..Last /\ Plan[step[m]] = e
      /\ UNCHANGED <<dispatchVars, workerVars, gmpVars, dataLabel, answer, completion>>
  BY DEF PostEvent, AtStep
<1>2. PICK f \in {"sent", "lost", "throws"} :
        /\ IF dataLabel[m] = 0 THEN SendsNothing("data", f) ELSE Sends("data", f)
        /\ Advance(m, f)
        /\ events' = IF f = "sent"
                     THEN [events EXCEPT ![dataLabel[m]] = Append(@, ObservationEvent[e])]
                     ELSE events
  BY DEF PostEvent
<1>3. /\ step'[m] > step[m] /\ step'[m] \in 2..Done
      /\ \A n \in Ids : n # m => step'[n] = step[n]
  BY <1>1, <1>2, AdvanceType
<1>4. f = "sent" => dataLabel[m] = m
  <2>1. f = "sent" => dataLabel[m] # 0
    BY <1>2 DEF SendsNothing
  <2> QED
    BY <1>1, <2>1, RunningInv
<1>5. ObservationEvent[e] \in 1..7
  BY <1>1, PlanIsOrdered
<1>6. CASE events' = events
  <2>1. EventsBefore(m)'
    BY <1>1, <1>3, <1>6, StillBefore
  <2> QED
    BY <1>1, <1>3, <1>6, <2>1, RunningInv, ThreadInv
<1>7. CASE events' = [events EXCEPT ![m] = Append(@, ObservationEvent[e])]
  <2>1. /\ events[m] \in Seq(1..7) /\ events'[m] = Append(events[m], ObservationEvent[e])
        /\ \A n \in Ids : n # m => events'[n] = events[n]
    BY <1>7 DEF TypeOK
  <2>2. /\ Len(events'[m]) = Len(events[m]) + 1 /\ Len(events[m]) \in Nat
        /\ \A i \in 1..Len(events[m]) : events'[m][i] = events[m][i]
        /\ events'[m][Len(events[m]) + 1] = ObservationEvent[e]
    BY <1>5, <2>1, AppendLast
  <2>3. \A i \in 1..Len(events[m]) : events[m][i] < ObservationEvent[e]
    BY <1>1, RunningInv DEF EventsBefore
  <2>4. EventsBefore(m)'
    <3> SUFFICES ASSUME NEW i \in 1..Len(events'[m]), NEW s \in 1..Last,
                        s >= step'[m], Plan[s] \in DOMAIN ObservationEvent
                 PROVE  events'[m][i] < ObservationEvent[Plan[s]]
      BY DEF EventsBefore
    <3>1. s > step[m] /\ s >= step[m]
      BY <1>1, <1>3, PlanLength
    <3>2. CASE i \in 1..Len(events[m])
      BY <1>1, <2>2, <3>1, <3>2, RunningInv DEF EventsBefore
    <3>3. CASE i = Len(events[m]) + 1
      BY <1>1, <2>2, <3>1, <3>3, PlanIsOrdered
    <3> QED
      BY <2>2, <3>2, <3>3
  <2> QED
    BY <1>1, <1>3, <1>5, <1>7, <2>1, <2>3, <2>4, RunningInv, ThreadInv
<1> QED
  BY <1>2, <1>4, <1>6, <1>7

LEMMA PostStatusInv ==
  ASSUME TypeOK, Inv, NEW m \in Ids, PostStatus(m)
  PROVE  Inv'
<1>1. /\ step[m] \in 1..Last
      /\ UNCHANGED <<dispatchVars, workerVars, gmpVars, dataLabel, answer, completion, events>>
  BY DEF PostStatus, AtStep, seenVars
<1>2. /\ step'[m] > step[m] /\ step'[m] \in 2..Done
      /\ \A n \in Ids : n # m => step'[n] = step[n]
  BY <1>1, AdvanceType DEF PostStatus
<1>3. EventsBefore(m)'
  BY <1>1, <1>2, StillBefore
<1> QED
  BY <1>1, <1>2, <1>3, RunningInv, ThreadInv

\* A completion info is for the action whose thread posts it.
LEMMA CompletesItself ==
  ASSUME TypeOK, Inv, NEW m \in Ids, step[m] \in 1..Last
  PROVE  CompletedBy(m) = m
BY RunningInv DEF CompletedBy

LEMMA CompleteInv ==
  ASSUME TypeOK, Inv, NEW m \in Ids, NEW r \in CompletionArguments, Complete(m, r)
  PROVE  /\ Inv'
         /\ \/ completion' = completion
            \/ completion' = [completion EXCEPT ![m] = r] /\ r \in Completions
<1>1. /\ step[m] \in 1..Last /\ Plan[step[m]] = "complete"
      /\ UNCHANGED <<dispatchVars, workerVars, gmpVars, dataLabel, answer, events>>
  BY DEF Complete, AtStep
<1>2. PICK f \in {"sent", "lost", "throws"} :
        /\ IF Refused(r) THEN f = "lost" /\ UNCHANGED session ELSE Sends("commands", f)
        /\ Advance(m, f)
        /\ completion' = IF f = "sent" THEN [completion EXCEPT ![CompletedBy(m)] = r]
                         ELSE completion
  BY DEF Complete, CompletedBy
<1>3. /\ step'[m] > step[m] /\ step'[m] \in 2..Done
      /\ \A n \in Ids : n # m => step'[n] = step[n]
  BY <1>1, <1>2, AdvanceType
<1>4. \/ completion' = completion
      \/ completion' = [completion EXCEPT ![m] = r] /\ r \in Completions
  BY <1>1, <1>2, CompletesItself DEF Refused, Completions
<1>5. step'[m] = Done
  <2>1. step[m] = 11
    BY <1>1, PlanLength DEF Plan
  <2> QED
    BY <1>3, <2>1, PlanLength
<1>6. \A n \in Ids : n # m => completion'[n] = completion[n]
  BY <1>4 DEF TypeOK
<1> QED
  BY <1>1, <1>3, <1>4, <1>5, <1>6, RunningInv, ThreadInv

LEMMA DropInv == ASSUME TypeOK, Inv, Drop PROVE Inv'
<1>1. /\ queue' = [h \in Handlers |-> <<>>] /\ \A h \in Handlers : doing'[h] = "idle"
      /\ id' = id /\ label' = label /\ step' = step /\ dataLabel' = dataLabel
      /\ issued' = issued /\ handler' = handler /\ answer' = answer
      /\ completion' = completion /\ events' = events
  BY DEF Drop, workerVars, threadVars, gmpVars, seenVars
<1>2. Queued' /\ Handled' /\ Joining'
  BY <1>1 DEF Queued, Handled, Joining
<1>3. Unissued' /\ Told' /\ Running' /\ Idle' /\ ClientThreads'
  BY <1>1 DEF Inv, Unissued, Told, Running, Idle, ClientThreads, Fresh, EventsBefore, HasWorker
<1> QED
  BY <1>2, <1>3 DEF Inv

-----------------------------------------------------------------------------
(* The theorems                                                            *)

\* A step of the specification keeps the type and the invariant, and is a step that
\* Actions allows, or none.
LEMMA StepCorrect ==
  ASSUME TypeOK, Inv, [Next]_vars
  PROVE  TypeOK' /\ Inv' /\ [A!Next]_(A!vars)
<1> DEFINE Same == UNCHANGED <<issued, answer, completion, events>>
<1> USE DEF linkVars, dispatchVars, workerVars, threadVars, gmpVars, seenVars
<1>1. Same => [A!Next]_(A!vars)
  BY DEF A!vars
<1>2. ASSUME NEW h \in Handlers, Subscribe(h) \/ SubscribeThrows(h)
      PROVE  TypeOK' /\ Inv' /\ Same
  <2>1. session' \in [Singletons -> 0..connections]
    BY <1>2, SendsType DEF Subscribe, SubscribeThrows, Singletons
  <2>2. consumer' \in [Handlers -> 0..connections]
    <3>1. /\ connections \in 0..connections
          /\ consumer \in [Handlers -> 0..connections]
      BY ActionHandlersAssumption DEF TypeOK
    <3>2. \/ consumer' = consumer
          \/ consumer' = [consumer EXCEPT ![h] = connections]
      BY <1>2 DEF Subscribe, SubscribeThrows
    <3> QED
      BY <3>1, <3>2
  <2>3. TypeOK'
    BY <1>2, <2>1, <2>2 DEF Subscribe, SubscribeThrows, TypeOK
  <2>4. /\ UNCHANGED <<dispatchVars, workerVars, threadVars, gmpVars>>
        /\ UNCHANGED <<answer, completion, events>>
    BY <1>2 DEF Subscribe, SubscribeThrows
  <2>5. Inv'
    BY <2>4, UnchangedInv
  <2> QED
    BY <2>3, <2>4, <2>5
<1>3. ASSUME NEW h \in Handlers, NEW a \in Activities, NEW c \in Configs, Issue(h, a, c)
      PROVE  TypeOK' /\ Inv' /\ [A!Next]_(A!vars)
  <2>1. issued + 1 \in Ids /\ issued + 1 \notin 1..issued
    <3>1. issued \in Nat
      BY DEF TypeOK
    <3>2. issued + 1 \notin 1..issued
      BY <3>1
    <3> QED
      BY <1>3, <3>2, IssueType, Zenon
  <2>2. 1..issued' = (1..issued) \cup {issued + 1}
    <3>1. issued \in Nat /\ issued' = issued + 1
      BY <1>3 DEF Issue, TypeOK, linkVars, workerVars, threadVars, seenVars
    <3>2. ASSUME NEW n \in Nat PROVE 1..(n + 1) = (1..n) \cup {n + 1}
      OBVIOUS
    <3> QED
      BY <3>1, <3>2
  <2>3. A!Issue(issued + 1)
    BY <1>3, <2>1, <2>2 DEF A!Issue, Issue
  <2> QED
    BY <1>3, <2>1, <2>3, IssueType, IssueInv DEF A!Next
<1>4. ASSUME NEW h \in Handlers, Handle(h)
      PROVE  TypeOK' /\ Inv' /\ Same
  BY <1>4, HandleType, HandleInv DEF Handle
<1>5. ASSUME NEW h \in Handlers, HandleThrows(h)
      PROVE  TypeOK' /\ Inv' /\ Same
  BY <1>5, UnchangedInv DEF HandleThrows, TypeOK
<1>6. ASSUME NEW h \in Handlers, StartWorker(h)
      PROVE  TypeOK' /\ Inv' /\ Same
  <2>1. doing[h] # "idle"
    BY <1>6 DEF StartWorker
  <2> QED
    BY <1>6, <2>1, MessageInv, StartWorkerType, StartWorkerInv DEF StartWorker
<1>7. ASSUME NEW h \in Handlers, Reply(h)
      PROVE  TypeOK' /\ Inv' /\ [A!Next]_(A!vars)
  <2> DEFINE m == message[h].id
  <2>1. doing[h] # "idle"
    BY <1>7 DEF Reply
  <2>2. /\ message[h] \in Messages /\ m \in Ids /\ m <= issued /\ answer[m] = "none"
        /\ response[h] \in Responses /\ (response[h] # "STARTED" => m \in Fresh)
    BY <2>1, MessageInv
  <2>3. TypeOK' /\ Inv'
    BY <1>7, <2>2, ReplyType, ReplyInv
  <2>4. \/ answer' = answer
        \/ answer' = [answer EXCEPT ![m] = response[h]]
    BY <1>7 DEF Reply
  <2>5. issued' = issued /\ completion' = completion /\ events' = events
    BY <1>7 DEF Reply
  <2>6. m \in 1..issued
    BY <2>2 DEF Ids, TypeOK
  <2>7. response[h] = "STARTED" \/ A!Silent(m)
    BY <2>2 DEF Fresh, A!Silent
  <2> HIDE DEF m
  <2>8. CASE answer' = [answer EXCEPT ![m] = response[h]]
    <3>1. A!Answer(m, response[h])
      BY <2>2, <2>5, <2>6, <2>7, <2>8 DEF A!Answer
    <3>2. response[h] \in A!Responses
      BY <2>2 DEF A!Responses, Responses
    <3> QED
      BY <2>2, <2>3, <3>1, <3>2 DEF A!Next
  <2> QED
    BY <1>1, <2>3, <2>4, <2>5, <2>8
<1>8. ASSUME NEW m \in Ids, ReadLabel(m)
      PROVE  TypeOK' /\ Inv' /\ Same
  BY <1>8, ReadLabelType, ReadLabelInv DEF ReadLabel
<1>9. ASSUME NEW m \in Ids, NEW e \in DOMAIN ObservationEvent, PostEvent(m, e)
      PROVE  TypeOK' /\ Inv' /\ [A!Next]_(A!vars)
  <2>1. /\ m <= issued /\ answer[m] \in {"none", "STARTED"} /\ completion[m] = "none"
        /\ dataLabel[m] \in {0, m}
    BY <1>9, RunningInv DEF PostEvent, AtStep
  <2>2. TypeOK' /\ Inv'
    BY <1>9, <2>1, PostEventType, PostEventInv
  <2>3. issued' = issued /\ answer' = answer /\ completion' = completion
    BY <1>9 DEF PostEvent
  <2>4. CASE events' = events
    BY <1>1, <2>2, <2>3, <2>4
  <2>5. CASE /\ events' = [events EXCEPT ![m] = Append(@, ObservationEvent[e])]
             /\ \A i \in 1..Len(events[m]) : events[m][i] < ObservationEvent[e]
             /\ ObservationEvent[e] \in 1..7
    <3>1. m \in 1..issued
      BY <2>1 DEF Ids, TypeOK
    <3>2. A!Observe(m, ObservationEvent[e])
      BY <2>1, <2>3, <2>5, <3>1 DEF A!Observe, A!GoesOn
    <3> QED
      BY <2>2, <2>5, <3>2 DEF A!Next
  <2> QED
    BY <1>9, <2>4, <2>5, PostEventInv
<1>10. ASSUME NEW m \in Ids, PostStatus(m)
       PROVE  TypeOK' /\ Inv' /\ Same
  BY <1>10, PostStatusType, PostStatusInv DEF PostStatus
<1>11. ASSUME NEW m \in Ids, NEW r \in CompletionArguments, Complete(m, r)
       PROVE  TypeOK' /\ Inv' /\ [A!Next]_(A!vars)
  <2>1. /\ m <= issued /\ answer[m] \in {"none", "STARTED"} /\ completion[m] = "none"
        /\ CompletedBy(m) = m
    BY <1>11, RunningInv, CompletesItself DEF Complete, AtStep
  <2>2. TypeOK' /\ Inv'
    BY <1>11, <2>1, CompleteType, CompleteInv
  <2>3. issued' = issued /\ answer' = answer /\ events' = events
    BY <1>11 DEF Complete
  <2>4. CASE completion' = completion
    BY <1>1, <2>2, <2>3, <2>4
  <2>5. CASE completion' = [completion EXCEPT ![m] = r] /\ r \in Completions
    <3>1. m \in 1..issued
      BY <2>1 DEF Ids, TypeOK
    <3>2. A!Complete(m, r)
      BY <2>1, <2>3, <2>5, <3>1 DEF A!Complete, A!GoesOn
    <3>3. r \in A!Completions
      BY <2>5 DEF Completions, A!Completions
    <3> QED
      BY <2>2, <3>2, <3>3 DEF A!Next
  <2> QED
    BY <1>11, <2>4, <2>5, CompleteInv
<1>12. ASSUME LinkFails \/ LinkRecovers \/ Reconnect
       PROVE  TypeOK' /\ Inv' /\ Same
  <2>1. CASE LinkFails \/ LinkRecovers
    <3>1. failures' \in 0..MaxFailures
      BY <2>1, ActionHandlersAssumption DEF LinkFails, LinkRecovers, TypeOK
    <3>2. TypeOK'
      BY <2>1, <3>1 DEF LinkFails, LinkRecovers, TypeOK
    <3>3. Inv'
      BY <2>1, UnchangedInv DEF LinkFails, LinkRecovers
    <3> QED
      BY <2>1, <3>2, <3>3 DEF LinkFails, LinkRecovers
  <2>2. CASE Reconnect
    <3>1. connections' \in 1..MaxConnections /\ 0..connections \subseteq 0..connections'
      BY <2>2, ActionHandlersAssumption DEF Reconnect, TypeOK
    <3>2. /\ session' \in [Singletons -> 0..connections']
          /\ consumer' \in [Handlers -> 0..connections']
      BY <2>2, <3>1 DEF Reconnect, TypeOK
    <3>3. TypeOK'
      BY <2>2, <3>1, <3>2 DEF Reconnect, TypeOK
    <3>4. Inv'
      BY <2>2, UnchangedInv DEF Reconnect
    <3> QED
      BY <2>2, <3>3, <3>4 DEF Reconnect
  <2> QED
    BY <1>12, <2>1, <2>2
<1>13. ASSUME Drop PROVE TypeOK' /\ Inv' /\ Same
  <2>1. queue' \in [Handlers -> Seq(Messages)]
    BY <1>13 DEF Drop
  <2>2. TypeOK'
    BY <1>13, <2>1 DEF Drop, TypeOK
  <2> QED
    BY <1>13, <2>2, DropInv DEF Drop
<1>14. ASSUME UNCHANGED vars PROVE TypeOK' /\ Inv' /\ Same
  <2>1. Inv'
    BY <1>14, UnchangedInv DEF vars
  <2> QED
    BY <1>14, <2>1 DEF vars, TypeOK
<1> HIDE DEF Same
<1>15. ASSUME Next PROVE TypeOK' /\ Inv' /\ [A!Next]_(A!vars)
  <2>1. CASE Client
    BY <1>1, <1>2, <2>1 DEF Client
  <2>2. CASE \E h \in Handlers, a \in Activities, c \in Configs : Issue(h, a, c)
    BY <1>3, <2>2
  <2>3. CASE \E h \in Handlers : onMessage(h)
    BY <1>1, <1>4, <1>5, <1>6, <1>7, <2>3 DEF onMessage
  <2>4. CASE \E m \in Ids : run(m)
    BY <1>1, <1>8, <1>9, <1>10, <1>11, <2>4 DEF run
  <2>5. CASE Connection
    BY <1>1, <1>12, <1>13, <2>5 DEF Connection
  <2> QED
    BY <1>15, <2>1, <2>2, <2>3, <2>4, <2>5 DEF Next
<1> QED
  BY <1>1, <1>14, <1>15

\* Every variable keeps its type.
THEOREM TypeCorrect == Spec => []TypeOK
<1>1. Init => TypeOK /\ Inv
  BY InitType, InitInv
<1>2. TypeOK /\ Inv /\ [Next]_vars => TypeOK' /\ Inv'
  BY StepCorrect
<1> QED
  BY <1>1, <1>2, PTL DEF Spec

\* What the GMP sees of its actions is what Actions allows: one answer to each, one
\* completion at most and only of an action that goes on, the events of each in their
\* order and before its completion.
THEOREM HandlersImplementActions == Spec => ImplementsActions
<1>1. Init => TypeOK /\ Inv
  BY InitType, InitInv
<1>2. TypeOK /\ Inv /\ [Next]_vars => TypeOK' /\ Inv' /\ [A!Next]_(A!vars)
  BY StepCorrect
<1>3. Init => A!Init
  BY DEF Init, A!Init
<1> QED
  BY <1>1, <1>2, <1>3, PTL DEF Spec, ImplementsActions, A!Spec

-----------------------------------------------------------------------------
(* Observations                                                            *)

\* The number of events in the plan before step s.
EventsTo(s) ==
  IF s <= 2 THEN 0 ELSE IF s <= 4 THEN 1 ELSE IF s <= 6 THEN 2 ELSE IF s = 7 THEN 3
  ELSE IF s = 8 THEN 4 ELSE IF s = 9 THEN 5 ELSE IF s = 10 THEN 6 ELSE 7

CountTo(n) == [i \in 1..n |-> i]

\* The strengthening of ObservationComplete: as long as no link has failed there is
\* one connection, and an observation has sent all the events of the steps it is past.
ObservationInv ==
  failures = 0 =>
    /\ link = "up" /\ connections = 1
    /\ \A m \in Ids : dataLabel[m] # 0 => events[m] = CountTo(EventsTo(step[m]))

LEMMA PlanCounts ==
  /\ Plan[1] = "label"
  /\ \A s \in 1..Last :
       /\ EventsTo(s) \in Nat
       /\ Plan[s] = "label" => s = 1
       /\ Plan[s] \in DOMAIN ObservationEvent =>
            /\ ObservationEvent[Plan[s]] = EventsTo(s) + 1
            /\ EventsTo(s + 1) = EventsTo(s) + 1
       /\ Plan[s] \in {"status", "complete"} => EventsTo(s + 1) = EventsTo(s)
  /\ Plan[2] \in DOMAIN ObservationEvent /\ ObservationEvent[Plan[2]] = 1
<1>1. DOMAIN ObservationEvent =
        {"OBS_PREP", "OBS_START_ACQ", "OBS_END_ACQ", "OBS_START_READOUT",
         "OBS_END_READOUT", "OBS_START_DSET_WRITE", "OBS_END_DSET_WRITE"}
  BY DEF ObservationEvent
<1>2. /\ Plan[1] = "label" /\ Plan[2] = "OBS_PREP" /\ Plan[3] = "status"
      /\ Plan[4] = "OBS_START_ACQ" /\ Plan[5] = "status" /\ Plan[6] = "OBS_END_ACQ"
      /\ Plan[7] = "OBS_START_READOUT" /\ Plan[8] = "OBS_END_READOUT"
      /\ Plan[9] = "OBS_START_DSET_WRITE" /\ Plan[10] = "OBS_END_DSET_WRITE"
      /\ Plan[11] = "complete"
  BY DEF Plan
<1>3. /\ ObservationEvent["OBS_PREP"] = 1 /\ ObservationEvent["OBS_START_ACQ"] = 2
      /\ ObservationEvent["OBS_END_ACQ"] = 3 /\ ObservationEvent["OBS_START_READOUT"] = 4
      /\ ObservationEvent["OBS_END_READOUT"] = 5
      /\ ObservationEvent["OBS_START_DSET_WRITE"] = 6
      /\ ObservationEvent["OBS_END_DSET_WRITE"] = 7
  BY DEF ObservationEvent
<1>4. /\ EventsTo(1) = 0 /\ EventsTo(2) = 0 /\ EventsTo(3) = 1 /\ EventsTo(4) = 1
      /\ EventsTo(5) = 2 /\ EventsTo(6) = 2 /\ EventsTo(7) = 3 /\ EventsTo(8) = 4
      /\ EventsTo(9) = 5 /\ EventsTo(10) = 6 /\ EventsTo(11) = 7 /\ EventsTo(12) = 7
  BY DEF EventsTo
<1>5. \A s \in 1..Last : s = 1 \/ s = 2 \/ s = 3 \/ s = 4 \/ s = 5 \/ s = 6 \/ s = 7
                         \/ s = 8 \/ s = 9 \/ s = 10 \/ s = 11
  BY PlanLength
<1>6. \A s \in 1..Last :
        /\ EventsTo(s) \in Nat
        /\ Plan[s] = "label" => s = 1
  BY <1>2, <1>4, <1>5
<1>7. \A s \in 1..Last : Plan[s] \in {"status", "complete"} => s \in {3, 5, 11}
  BY <1>2, <1>5
<1>8. \A s \in 1..Last : Plan[s] \in {"status", "complete"} =>
        EventsTo(s + 1) = EventsTo(s)
  BY <1>4, <1>7
<1>9. \A s \in 1..Last : Plan[s] \in DOMAIN ObservationEvent =>
        s \in {2, 4, 6, 7, 8, 9, 10}
  BY <1>1, <1>2, <1>5
<1>10. \A s \in {2, 4, 6, 7, 8, 9, 10} :
         /\ ObservationEvent[Plan[s]] = EventsTo(s) + 1
         /\ EventsTo(s + 1) = EventsTo(s) + 1
  BY <1>2, <1>3, <1>4
<1> QED
  BY <1>1, <1>2, <1>3, <1>6, <1>8, <1>9, <1>10

LEMMA CountOn ==
  ASSUME NEW n \in Nat
  PROVE  Append(CountTo(n), n + 1) = CountTo(n + 1)
<1>1. CountTo(n) \in Seq(Nat) /\ Len(CountTo(n)) = n
  BY DEF CountTo
<1> DEFINE a == Append(CountTo(n), n + 1)
<1>2. /\ a \in Seq(Nat) /\ Len(a) = n + 1
      /\ \A i \in 1..n : a[i] = CountTo(n)[i]
      /\ a[n + 1] = n + 1
  BY <1>1
<1>3. \A i \in 1..(n + 1) : a[i] = i
  BY <1>2 DEF CountTo
<1>4. a = [i \in 1..(n + 1) |-> a[i]]
  BY <1>2
<1> QED
  BY <1>3, <1>4 DEF CountTo

\* As long as no link has failed everything that is sent arrives, and nothing throws.
LEMMA NothingIsLost ==
  ASSUME TypeOK, ObservationInv, failures = 0, NEW s \in Singletons, NEW f
  PROVE  /\ Sends(s, f) => f = "sent"
         /\ SendsNothing(s, f) => f = "lost"
<1>1. link = "up" /\ connections = 1 /\ session[s] \in 0..1
  BY DEF ObservationInv, TypeOK
<1>2. ConnectionOf(s) = 1
  BY <1>1 DEF ConnectionOf
<1> QED
  BY <1>1, <1>2 DEF Sends, SendsNothing, Fate, InstanceThrows

\* The steps that read, post and complete are those of the thread of one action.
LEMMA ObservationKept ==
  ASSUME TypeOK, ObservationInv, UNCHANGED <<link, connections, failures>>,
         NEW m \in Ids,
         \A n \in Ids : n # m => /\ dataLabel'[n] = dataLabel[n]
                                 /\ events'[n] = events[n] /\ step'[n] = step[n],
         failures = 0 /\ dataLabel'[m] # 0 => events'[m] = CountTo(EventsTo(step'[m]))
  PROVE  ObservationInv'
<1> SUFFICES ASSUME failures = 0, NEW n \in Ids, dataLabel'[n] # 0
             PROVE  events'[n] = CountTo(EventsTo(step'[n]))
  BY DEF ObservationInv
<1> QED
  BY DEF ObservationInv

LEMMA ObservationStep ==
  ASSUME TypeOK, Inv, ObservationInv, [Next]_vars
  PROVE  ObservationInv'
<1> USE DEF linkVars, dispatchVars, workerVars, threadVars, gmpVars, seenVars
<1>1. CASE UNCHANGED <<link, connections, failures, dataLabel, events, step>>
  BY <1>1 DEF ObservationInv
<1>2. ASSUME NEW h \in Handlers, Handle(h) PROVE ObservationInv'
  <2>1. queue[h] \in Seq(Messages) /\ queue[h] # <<>>
    BY <1>2 DEF Handle, TypeOK
  <2>2. 1 \in 1..Len(queue[h]) /\ Head(queue[h]) = queue[h][1]
        /\ queue[h][1] \in Messages
    BY <2>1, HeadAndTail
  <2>3. PICK m \in Ids : m = Head(queue[h]).id
    BY <2>2 DEF Messages
  <2>4. dataLabel[m] = 0
    BY <2>2, <2>3 DEF Inv, Queued, Fresh
  <2>5. /\ UNCHANGED <<link, connections, failures, dataLabel, events>>
        /\ step' = step \/ step' = [step EXCEPT ![m] = Last]
    BY <1>2, <2>3 DEF Handle
  <2> QED
    BY <2>4, <2>5, ObservationKept DEF TypeOK
<1>3. ASSUME NEW h \in Handlers, StartWorker(h) PROVE ObservationInv'
  <2>1. doing[h] # "idle" /\ doing[h] = "join"
    BY <1>3 DEF StartWorker
  <2>2. PICK m \in Ids : m = message[h].id /\ m \in Fresh
    BY <2>1 DEF Inv, Handled, Messages
  <2>3. /\ UNCHANGED <<link, connections, failures, dataLabel, events>>
        /\ step' = [step EXCEPT ![m] = FirstStep(h)]
    BY <1>3, <2>2 DEF StartWorker
  <2> QED
    BY <2>2, <2>3, ObservationKept DEF TypeOK, Fresh
<1>4. ASSUME NEW m \in Ids, ReadLabel(m) PROVE ObservationInv'
  <2>1. /\ step[m] = 1 /\ step[m] \in 1..Last
    BY <1>4, PlanCounts DEF ReadLabel, AtStep
  <2>2. step'[m] = 2 /\ \A n \in Ids : n # m => step'[n] = step[n]
    BY <1>4, <2>1 DEF ReadLabel, Advance, TypeOK
  <2>3. events[m] = <<>>
    <3>1. events[m] \in Seq(1..7)
      BY DEF TypeOK
    <3>2. \A i \in 1..Len(events[m]) : events[m][i] < 1
      <4>1. EventsBefore(m)
        BY <2>1, RunningInv
      <4>2. /\ 2 \in 1..Last /\ 2 >= step[m]
            /\ Plan[2] \in DOMAIN ObservationEvent /\ ObservationEvent[Plan[2]] = 1
        BY <2>1, PlanCounts, PlanLength
      <4> QED
        BY <4>1, <4>2 DEF EventsBefore
    <3>3. Len(events[m]) = 0
      BY <3>1, <3>2
    <3> QED
      BY <3>1, <3>3
  <2>4. events' = events /\ UNCHANGED <<link, connections, failures>>
        /\ \A n \in Ids : n # m => dataLabel'[n] = dataLabel[n]
    BY <1>4 DEF ReadLabel, TypeOK
  <2>5. CountTo(EventsTo(2)) = <<>>
    BY DEF CountTo, EventsTo
  <2> QED
    BY <2>2, <2>3, <2>4, <2>5, ObservationKept
<1>5. ASSUME NEW m \in Ids, NEW e \in DOMAIN ObservationEvent, PostEvent(m, e)
      PROVE  ObservationInv'
  <2>1. /\ step[m] \in 1..Last /\ Plan[step[m]] = e
        /\ UNCHANGED <<link, connections, failures, dataLabel>>
    BY <1>5 DEF PostEvent, AtStep
  <2>2. PICK f \in {"sent", "lost", "throws"} :
          /\ IF dataLabel[m] = 0 THEN SendsNothing("data", f) ELSE Sends("data", f)
          /\ Advance(m, f)
          /\ events' = IF f = "sent"
                       THEN [events EXCEPT ![dataLabel[m]] = Append(@, ObservationEvent[e])]
                       ELSE events
    BY <1>5 DEF PostEvent
  <2>3. dataLabel[m] \in {0, m}
    BY <2>1, RunningInv
  <2>4. \A n \in Ids : n # m => step'[n] = step[n] /\ events'[n] = events[n]
    <3>1. f = "sent" => dataLabel[m] = m
      BY <2>2, <2>3 DEF SendsNothing
    <3> QED
      BY <2>2, <3>1 DEF Advance, TypeOK
  <2>5. ASSUME failures = 0, dataLabel[m] # 0
        PROVE  events'[m] = CountTo(EventsTo(step'[m]))
    <3>1. f = "sent"
      BY <2>2, <2>5, NothingIsLost DEF Singletons
    <3>2. step'[m] = step[m] + 1 /\ events'[m] = Append(events[m], ObservationEvent[e])
      BY <2>2, <2>3, <2>5, <3>1 DEF Advance, TypeOK
    <3>3. events[m] = CountTo(EventsTo(step[m]))
      BY <2>5 DEF ObservationInv
    <3>4. /\ EventsTo(step[m]) \in Nat /\ ObservationEvent[e] = EventsTo(step[m]) + 1
          /\ EventsTo(step'[m]) = EventsTo(step[m]) + 1
      BY <2>1, <3>2, PlanCounts
    <3> QED
      BY <3>2, <3>3, <3>4, CountOn
  <2> QED
    BY <2>1, <2>4, <2>5, ObservationKept
<1>6. ASSUME NEW m \in Ids, PostStatus(m) \/ \E r \in CompletionArguments : Complete(m, r)
      PROVE  ObservationInv'
  <2>1. /\ step[m] \in 1..Last /\ Plan[step[m]] \in {"status", "complete"}
        /\ UNCHANGED <<link, connections, failures, dataLabel, events>>
    BY <1>6 DEF PostStatus, Complete, AtStep
  <2>2. PICK f \in {"sent", "lost", "throws"} :
          /\ Advance(m, f)
          /\ \/ \E s \in Singletons : Sends(s, f) \/ SendsNothing(s, f)
             \/ f = "lost"
    BY <1>6 DEF PostStatus, Complete, Singletons
  <2>3. \A n \in Ids : n # m => step'[n] = step[n]
    BY <2>2 DEF Advance, TypeOK
  <2>4. ASSUME failures = 0, dataLabel[m] # 0
        PROVE  events'[m] = CountTo(EventsTo(step'[m]))
    <3>1. f # "throws"
      BY <2>2, <2>4, NothingIsLost
    <3>2. step'[m] = step[m] + 1
      BY <2>2, <3>1 DEF Advance, TypeOK
    <3> QED
      BY <2>1, <2>4, <3>2, PlanCounts DEF ObservationInv
  <2> QED
    BY <2>1, <2>3, <2>4, ObservationKept
<1>7. ASSUME Connection PROVE ObservationInv'
  <2>1. CASE LinkFails
    BY <2>1 DEF LinkFails, ObservationInv, TypeOK
  <2>2. CASE LinkRecovers \/ Drop \/ Reconnect
    BY <2>2 DEF LinkRecovers, Drop, Reconnect, ObservationInv
  <2> QED
    BY <1>7, <2>1, <2>2 DEF Connection
<1>8. ASSUME NEW h \in Handlers,
             \/ Subscribe(h) \/ SubscribeThrows(h) \/ HandleThrows(h) \/ Reply(h)
             \/ \E a \in Activities, c \in Configs : Issue(h, a, c)
      PROVE  ObservationInv'
  BY <1>1, <1>8 DEF Subscribe, SubscribeThrows, HandleThrows, Reply, Issue
<1>9. CASE UNCHANGED vars
  BY <1>1, <1>9 DEF vars
<1>10. CASE Next
  <2>1. CASE \E m \in Ids : run(m)
    BY <1>4, <1>5, <1>6, <2>1 DEF run
  <2>2. CASE \E h \in Handlers : onMessage(h)
    BY <1>2, <1>3, <1>8, <2>2 DEF onMessage
  <2>3. CASE Client \/ \E h \in Handlers, a \in Activities, c \in Configs : Issue(h, a, c)
    BY <1>8, <2>3 DEF Client
  <2> QED
    BY <1>7, <1>10, <2>1, <2>2, <2>3 DEF Next
<1> QED
  BY <1>9, <1>10

\* An observation that is completed has been told in full, all its events in their
\* order, unless a link has failed.
THEOREM ObservationAlwaysComplete == Spec => []ObservationComplete
<1>1. Init => TypeOK /\ Inv /\ ObservationInv
  BY InitType, InitInv DEF Init, ObservationInv
<1>2. TypeOK /\ Inv /\ ObservationInv /\ [Next]_vars => TypeOK' /\ Inv' /\ ObservationInv'
  BY StepCorrect, ObservationStep
<1>3. TypeOK /\ Inv /\ ObservationInv => ObservationComplete
  <2> SUFFICES ASSUME TypeOK, Inv, ObservationInv, NEW m \in Ids,
                      completion[m] = "COMPLETED", dataLabel[m] # 0, failures = 0
               PROVE  events[dataLabel[m]] = <<1, 2, 3, 4, 5, 6, 7>>
    BY DEF ObservationComplete
  <2>1. step[m] = Done /\ dataLabel[m] = m
    BY DEF Inv, Idle, Running
  <2>2. events[m] = CountTo(7)
    BY <2>1, PlanLength DEF ObservationInv, EventsTo
  <2>3. CountTo(7) = <<1, 2, 3, 4, 5, 6, 7>>
    BY DEF CountTo
  <2> QED
    BY <2>1, <2>2, <2>3
<1> QED
  BY <1>1, <1>2, <1>3, PTL DEF Spec
=============================================================================

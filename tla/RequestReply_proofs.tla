------------------------- MODULE RequestReply_proofs -------------------------
(***************************************************************************)
(* What is proved of RequestReply for any number of calls: the types, that *)
(* no call takes the answer to another one, that only a call its session   *)
(* failed leaves its temporary queue behind, that a call without a timeout *)
(* never times out, that what is posted is what is reported as posted,     *)
(* that a call keeps what Requests promises, and what a program which      *)
(* catches GiapiException may still be terminated by.                      *)
(***************************************************************************)
EXTENDS RequestReply, TLAPS

\* The first message of a queue, and what is left of it.
LEMMA HeadTail ==
  ASSUME NEW S, NEW s \in Seq(S), s # <<>>
  PROVE  /\ Head(s) \in S /\ Head(s) = s[1] /\ 1 \in 1..Len(s)
         /\ Tail(s) \in Seq(S)
         /\ \A i \in 1..Len(Tail(s)) : i + 1 \in 1..Len(s) /\ Tail(s)[i] = s[i + 1]
OBVIOUS

\* A queue with a message more.
LEMMA Appended ==
  ASSUME NEW S, NEW s \in Seq(S), NEW x \in S
  PROVE  /\ Append(s, x) \in Seq(S)
         /\ \A i \in 1..Len(Append(s, x)) :
              \/ i \in 1..Len(s) /\ Append(s, x)[i] = s[i]
              \/ Append(s, x)[i] = x
OBVIOUS

\* Queues start empty.
LEMMA EmptyQueue == <<>> \in Seq(Messages)
OBVIOUS

\* A counter goes up.
LEMMA Incremented ==
  ASSUME NEW f \in [Calls -> Nat], NEW n \in Calls
  PROVE  [f EXCEPT ![n] = f[n] + 1] \in [Calls -> Nat]
<1>1. f[n] + 1 \in Nat
  OBVIOUS
<1> QED
  BY <1>1

\* None is neither a message nor a call nor a result.
LEMMA NoneIsNothing == None \notin Messages /\ None \notin Calls /\ None \notin Results
BY RequestReplyAssumption

-----------------------------------------------------------------------------
(* The methods and the programs                                            *)

\* What rejects a call, and what its rejection, its failure and its timeout yield.
LEMMA MethodFacts ==
  ASSUME NEW k \in Kinds
  PROVE  /\ MethodOf[k].rejects \subseteq Flaws
         /\ MethodOf[k].rejected \in {"OK", "ERROR"}
         /\ MethodOf[k].rejected = "OK" => MethodOf[k].rejects \subseteq {"level"}
         /\ MethodOf[k].fails \in {"CommunicationException", "PostException"}
         /\ MethodOf[k].unanswered \in {"OK", "ERROR", "TimeoutException"}
<1> USE DEF MethodOf, Asks, Posts, Method, Answers, Flaws
<1>1. CASE k = "property"
  BY <1>1 DEF GetProperty
<1>2. CASE k = "log"
  BY <1>2 DEF PostLog
<1>3. CASE k = "event"
  BY <1>3 DEF PostEvent
<1>4. CASE k = "file"
  BY <1>4 DEF SendFileEventMessage
<1>5. CASE k = "names"
  BY <1>5 DEF RequestChannels
<1>6. CASE k = "pcs"
  BY <1>6 DEF PostPcsUpdate
<1>7. CASE k = "context"
  BY <1>7 DEF FetchContext
<1>8. CASE k = "channel"
  BY <1>8 DEF GetChannel
<1>9. CASE k = "offset"
  BY <1>9 DEF SendOffset
<1>10. CASE k = "notify"
  BY <1>10 DEF CallbackOffset
<1> QED
  BY <1>1, <1>2, <1>3, <1>4, <1>5, <1>6, <1>7, <1>8, <1>9, <1>10
  DEF Kinds, ServicesUtil, DataUtil, GeminiUtil

\* No answer makes a call report a timeout, and only one that cannot be read fails it.
LEMMA AnswerFacts ==
  ASSUME NEW k \in Kinds, NEW c \in Contents, NEW r \in MethodOf[k].answers[c]
  PROVE  /\ r # "TimeoutException"
         /\ c \in {"good", "refused"} => r \in {"OK", "ERROR", "1"}
<1> USE DEF MethodOf, Asks, Posts, Method, Answers, NoAnswers, Contents
<1>1. CASE k = "property"
  BY <1>1 DEF GetProperty
<1>2. CASE k = "log"
  BY <1>2 DEF PostLog
<1>3. CASE k = "event"
  BY <1>3 DEF PostEvent
<1>4. CASE k = "file"
  BY <1>4 DEF SendFileEventMessage
<1>5. CASE k = "names"
  BY <1>5 DEF RequestChannels
<1>6. CASE k = "pcs"
  BY <1>6 DEF PostPcsUpdate
<1>7. CASE k = "context"
  BY <1>7 DEF FetchContext
<1>8. CASE k = "channel"
  BY <1>8 DEF GetChannel
<1>9. CASE k = "offset"
  BY <1>9 DEF SendOffset
<1>10. CASE k = "notify"
  BY <1>10 DEF CallbackOffset
<1> QED
  BY <1>1, <1>2, <1>3, <1>4, <1>5, <1>6, <1>7, <1>8, <1>9, <1>10
  DEF Kinds, ServicesUtil, DataUtil, GeminiUtil

\* A call is made by a program that catches everything, or by one of the examples.
LEMMA CallOfProgram ==
  ASSUME NEW c \in ProgramCalls
  PROVE  \/ c \in Careful
         \/ c \in services \cup logging \cup obsevent \cup fileevents
         \/ c \in igrins2obssimulator \cup tcscontext \cup epicsget
                   \cup epicssubscription
         \/ c \in pcsupdater \cup gpim1zernikes \cup tcsApplyOffset
                   \cup tcsApplyOffsetCallback
<1>1. PICK p \in Programs : c \in p
  BY DEF ProgramCalls
<1>2. CASE p = Careful
  BY <1>1, <1>2
<1>3. CASE p \in Examples
  BY <1>1, <1>3 DEF Examples
<1> QED
  BY <1>1, <1>2, <1>3 DEF Programs

\* Every call a program makes is one of the calls there are.
LEMMA ProgramCallsTyped == ProgramCalls \subseteq CallRecords
<1>1. ASSUME NEW ks \in SUBSET Kinds, NEW fs \in SUBSET SUBSET Flaws,
             NEW cs \in SUBSET Exceptions
      PROVE  CallsOf(ks, fs, cs) \subseteq CallRecords
  BY DEF CallsOf, CallRecords
<1>2. /\ {"GmpException"} \in SUBSET Exceptions /\ {"GiapiException"} \in SUBSET Exceptions
      /\ {"TimeoutException", "GmpException"} \in SUBSET Exceptions
  BY DEF Exceptions, HandlersOf
<1>3. /\ {{}} \in SUBSET SUBSET Flaws /\ {{}, {"label"}} \in SUBSET SUBSET Flaws
      /\ SUBSET {"filename", "label"} \in SUBSET SUBSET Flaws
  BY DEF Flaws
<1>4. \A k \in Kinds : {k} \in SUBSET Kinds
  OBVIOUS
<1>5. /\ "property" \in Kinds /\ "log" \in Kinds /\ "event" \in Kinds /\ "file" \in Kinds
      /\ "names" \in Kinds /\ "pcs" \in Kinds /\ "context" \in Kinds
      /\ "channel" \in Kinds /\ "offset" \in Kinds /\ "notify" \in Kinds
  BY DEF Kinds, ServicesUtil, DataUtil, GeminiUtil
<1>6. /\ services \subseteq CallRecords /\ logging \subseteq CallRecords
      /\ obsevent \subseteq CallRecords /\ fileevents \subseteq CallRecords
  BY <1>1, <1>2, <1>3, <1>4, <1>5 DEF services, logging, obsevent, fileevents
<1>7. /\ igrins2obssimulator \subseteq CallRecords /\ tcscontext \subseteq CallRecords
      /\ epicsget \subseteq CallRecords /\ epicssubscription \subseteq CallRecords
  BY <1>1, <1>2, <1>3, <1>4, <1>5
  DEF igrins2obssimulator, tcscontext, epicsget, epicssubscription
<1>8. /\ pcsupdater \subseteq CallRecords /\ gpim1zernikes \subseteq CallRecords
      /\ tcsApplyOffset \subseteq CallRecords /\ tcsApplyOffsetCallback \subseteq CallRecords
  BY <1>1, <1>2, <1>3, <1>4, <1>5
  DEF pcsupdater, gpim1zernikes, tcsApplyOffset, tcsApplyOffsetCallback
<1>9. \A k \in Kinds : MethodOf[k].rejects \subseteq Flaws
  BY MethodFacts
<1>10. ASSUME NEW ks \in SUBSET Kinds, NEW ts \in SUBSET BOOLEAN
       PROVE  CallsOfCareful(ks, ts) \subseteq CallRecords
  <2> SUFFICES ASSUME NEW k \in ks,
                      NEW c \in [kind: {k}, timed: ts,
                                 flaws: {{}} \cup {{f} : f \in MethodOf[k].rejects},
                                 catches: {{"GiapiException"}}]
               PROVE  c \in CallRecords
    BY DEF CallsOfCareful
  <2>1. c.flaws \in SUBSET Flaws
    BY <1>9
  <2> QED
    BY <1>2, <2>1 DEF CallRecords
<1>11. Careful \subseteq CallRecords
  <2>1. CallsOfCareful(Kinds \ {"property"}, {TRUE}) \subseteq CallRecords
    BY <1>10
  <2>2. CallsOfCareful({"property"}, {FALSE}) \subseteq CallRecords
    BY <1>5, <1>10
  <2> QED
    BY <2>1, <2>2 DEF Careful
<1> QED
  BY <1>6, <1>7, <1>8, <1>11, CallOfProgram

-----------------------------------------------------------------------------
(* Types                                                                   *)

LEMMA CatchTyped ==
  ASSUME TypeOK, NEW n \in Calls, Catch(n)
  PROVE  /\ deletes' \in [Calls -> Nat] /\ crashed' \in BOOLEAN
         /\ result' \in [Calls -> Results \cup {None}]
         /\ pc' \in [Calls -> Labels]
<1>0. MethodOf[kind[n]].fails \in Results
  BY MethodFacts DEF TypeOK, Results, Exceptions, HandlersOf
<1>1. /\ result' \in [Calls -> Results \cup {None}]
      /\ pc' \in [Calls -> Labels]
  BY <1>0 DEF Catch, Ends, Goto, TypeOK, Labels
<1>2. crashed' \in BOOLEAN
  BY DEF Catch, Uncaught
<1>3. deletes' \in [Calls -> Nat]
  <2>1. CASE pc[n] = "create"
    BY <2>1 DEF Catch, TypeOK
  <2>2. CASE pc[n] # "create"
    <3>1. deletes' = [deletes EXCEPT ![n] = deletes[n] + 1]
      BY <2>2 DEF Catch
    <3> QED
      BY <3>1, Incremented DEF TypeOK
  <2> QED
    BY <2>1, <2>2
<1> QED
  BY <1>1, <1>2, <1>3

\* From the creation of the queue to its destruction a call that asks for something
\* has the queue that bears its own name.
QueueLabels == {"consumer", "send", "receive", "wait", "destroy"}
OwnQueue    ==
  \A n \in Calls :
    pc[n] \in QueueLabels =>
      \/ replyTo[n] = n
      \/ pc[n] = "send" /\ kind[n] \in OneWay

TypeInv == TypeOK /\ OwnQueue

\* A step that changes no queue and takes no call to a place where it needs one.
LEMMA OwnQueueKept ==
  ASSUME TypeOK, OwnQueue, UNCHANGED <<kind, replyTo>>, NEW n \in Calls, NEW l,
         pc' = [pc EXCEPT ![n] = l],
         l \in QueueLabels =>
           \/ l = "send" /\ kind[n] \in OneWay
           \/ pc[n] \in QueueLabels /\ (pc[n] = "send" => kind[n] \notin OneWay)
  PROVE  OwnQueue'
BY DEF OwnQueue, TypeOK

LEMMA TypeInvStep == TypeInv /\ [Next]_vars => TypeInv'
<1> SUFFICES ASSUME TypeInv, [Next]_vars PROVE TypeInv'
  OBVIOUS
<1> USE DEF TypeInv, TypeOK, Goto, callVars, queueVars
<1>0. ASSUME NEW n \in Calls,
             \/ deletes' = deletes
             \/ deletes' = [deletes EXCEPT ![n] = deletes[n] + 1]
      PROVE  deletes' \in [Calls -> Nat]
  <2>1. [deletes EXCEPT ![n] = deletes[n] + 1] \in [Calls -> Nat]
    BY Incremented
  <2> QED
    BY <1>0, <2>1
<1>1. ASSUME NEW n \in Calls, NEW c \in ProgramCalls, Call(n, c)
      PROVE  TypeInv'
  <2>1. /\ c.kind \in Kinds /\ c.flaws \in SUBSET Flaws
        /\ c.catches \in SUBSET Exceptions
    BY ProgramCallsTyped DEF CallRecords
  <2>2. TypeOK'
    BY <1>1, <2>1 DEF Call, Labels
  <2>3. OwnQueue'
    BY <1>1 DEF Call, OwnQueue, QueueLabels
  <2> QED
    BY <2>2, <2>3
<1>2. ASSUME NEW n \in Calls, Instance(n) PROVE TypeInv'
  <2>1. session' \in [Utilities -> {"none", "open", "lost"}]
    BY <1>2 DEF Instance
  <2> QED
    BY <1>2, <2>1, OwnQueueKept DEF Instance, Labels, QueueLabels
<1>3. ASSUME NEW n \in Calls, InstanceThrows(n) PROVE TypeInv'
  <2>1. PICK e \in {"GmpException", "CommunicationException"} :
          Ends(n, e) /\ crashed' = Uncaught(n, e)
    BY <1>3 DEF InstanceThrows
  <2>2. crashed' \in BOOLEAN
    BY <2>1 DEF Uncaught
  <2>3. e \in Results
    BY DEF Results, Exceptions, HandlersOf
  <2> QED
    BY <1>3, <2>1, <2>2, <2>3, OwnQueueKept DEF InstanceThrows, Ends, Labels, QueueLabels
<1>4. ASSUME NEW n \in Calls, Reject(n) PROVE TypeInv'
  <2>1. MethodOf[kind[n]].rejected \in Results
    BY MethodFacts DEF Results
  <2> QED
    BY <1>4, <2>1, OwnQueueKept DEF Reject, Ends, Labels, QueueLabels
<1>5. ASSUME NEW n \in Calls, CreateMessage(n) PROVE TypeInv'
  <2>1. CASE kind[n] \in OneWay
    BY <1>5, <2>1, OwnQueueKept DEF CreateMessage, Labels, QueueLabels
  <2>2. CASE kind[n] \notin OneWay
    BY <1>5, <2>2, OwnQueueKept DEF CreateMessage, Labels, QueueLabels
  <2> QED
    BY <2>1, <2>2
<1>6. ASSUME NEW n \in Calls, CreateReplyQueue(n) PROVE TypeInv'
  <2>1. TypeOK'
    BY <1>6 DEF CreateReplyQueue, TemporaryQueue, Labels
  <2>2. OwnQueue'
    BY <1>6 DEF CreateReplyQueue, TemporaryQueue, OwnQueue
  <2> QED
    BY <2>1, <2>2
<1>19. ASSUME NEW n \in Calls, CreateConsumer(n) PROVE TypeInv'
  BY <1>19, OwnQueueKept DEF CreateConsumer, Labels, QueueLabels
<1>7. ASSUME NEW n \in Calls, Post(n) PROVE TypeInv'
  <2>1. deletes' \in [Calls -> Nat]
    BY <1>0, <1>7 DEF Post, Deleted
  <2>2. "OK" \in Results
    BY DEF Results
  <2> QED
    BY <1>7, <2>1, <2>2, OwnQueueKept DEF Post, Ends, Labels, QueueLabels
<1>8. ASSUME NEW n \in Calls, Send(n) PROVE TypeInv'
  <2>1. deletes' \in [Calls -> Nat]
    BY <1>0, <1>8 DEF Send, Deleted
  <2> QED
    BY <1>8, <2>1, OwnQueueKept DEF Send, Labels, QueueLabels
<1>9. ASSUME NEW n \in Calls, Receive(n) \/ ReceiveNothing(n) PROVE TypeInv'
  BY <1>9, OwnQueueKept DEF Receive, ReceiveNothing, Labels, QueueLabels
<1>10. ASSUME NEW n \in Calls, TakeReply(n) PROVE TypeInv'
  <2>1. replyTo[n] = n
    BY <1>10 DEF TakeReply, OwnQueue, QueueLabels
  <2>2. /\ Head(inbox[n]) \in Messages
        /\ Tail(inbox[n]) \in Seq(Messages)
    BY <1>10, <2>1, HeadTail DEF TakeReply
  <2>3. reply' \in [Calls -> Messages \cup {None}] /\ inbox' \in [Calls -> Seq(Messages)]
    BY <1>10, <2>1, <2>2 DEF TakeReply
  <2> QED
    BY <1>10, <2>3, OwnQueueKept DEF TakeReply, Labels, QueueLabels
<1>11. ASSUME NEW n \in Calls, DestroyQueue(n) PROVE TypeInv'
  <2>1. deletes' \in [Calls -> Nat] /\ inbox' \in [Calls -> Seq(Messages)]
    BY <1>0, <1>11, EmptyQueue DEF DestroyQueue, Deleted
  <2> QED
    BY <1>11, <2>1, OwnQueueKept DEF DestroyQueue, Labels, QueueLabels
<1>12. ASSUME NEW n \in Calls, Throw(n) PROVE TypeInv'
  <2>1. CASE Catch(n)
    BY <1>12, <2>1, CatchTyped, OwnQueueKept DEF Throw, Catch, Ends, QueueLabels
  <2>2. CASE Terminate(n)
    BY <1>12, <2>2 DEF Throw, Terminate, OwnQueue
  <2> QED
    BY <1>12, <2>1, <2>2 DEF Throw
\* A call that ends with a result of its own.
<1>13. ASSUME NEW n \in Calls, NEW r \in Results, Ends(n, r),
              crashed' = (r \in Exceptions /\ Uncaught(n, r)),
              UNCHANGED <<callVars, session, sent, deletes, queueVars, pending, reply>>
       PROVE  TypeInv'
  <2>1. crashed' \in BOOLEAN
    BY <1>13
  <2> QED
    BY <1>13, <2>1, OwnQueueKept DEF Ends, Labels, QueueLabels
<1>14. ASSUME NEW n \in Calls, FinishUnanswered(n) PROVE TypeInv'
  <2>1. MethodOf[kind[n]].unanswered \in Results
    BY MethodFacts DEF Results, Exceptions, HandlersOf
  <2> QED
    BY <1>13, <1>14, <2>1 DEF FinishUnanswered
<1>15. ASSUME NEW n \in Calls, FinishAnswered(n) PROVE TypeInv'
  <2>1. CASE Catch(n)
    BY <1>15, <2>1, CatchTyped, OwnQueueKept DEF FinishAnswered, Catch, Ends, QueueLabels
  <2>2. CASE Terminate(n)
    BY <1>15, <2>2 DEF FinishAnswered, Terminate, OwnQueue
  <2> QED
    BY <1>13, <1>15, <2>1, <2>2 DEF FinishAnswered
<1>16. ASSUME NEW n \in Calls, NEW c \in Contents, Answer(n, c) PROVE TypeInv'
  <2>1. [to |-> n, content |-> c] \in Messages
    BY DEF Messages
  <2>2. inbox' \in [Calls -> Seq(Messages)]
    <3>1. CASE replyTo[n] \in queues
      <4>1. Append(inbox[replyTo[n]], [to |-> n, content |-> c]) \in Seq(Messages)
        BY <2>1, <3>1, Appended
      <4> QED
        BY <1>16, <3>1, <4>1 DEF Answer
    <3> QED
      BY <1>16, <3>1 DEF Answer
  <2> QED
    BY <1>16, <2>2 DEF Answer, OwnQueue
<1>17. CASE Disconnect
  <2>1. session' \in [Utilities -> {"none", "open", "lost"}]
    BY <1>17 DEF Disconnect
  <2> QED
    BY <1>17, <2>1, EmptyQueue DEF Disconnect, OwnQueue
<1>18. CASE UNCHANGED vars
  BY <1>18 DEF vars, OwnQueue
<1> QED
  BY <1>1, <1>2, <1>3, <1>4, <1>5, <1>6, <1>7, <1>8, <1>9, <1>10, <1>11, <1>12,
     <1>14, <1>15, <1>16, <1>17, <1>18, <1>19
  DEF Next, Work

LEMMA InitTyped == Init => TypeInv
<1> SUFFICES ASSUME Init PROVE TypeOK /\ OwnQueue
  BY DEF TypeInv
<1>1. TypeOK
  BY EmptyQueue DEF Init, TypeOK, Kinds, ServicesUtil, Labels
<1>2. OwnQueue
  BY DEF Init, OwnQueue, QueueLabels
<1> QED
  BY <1>1, <1>2

\* Every variable of the calls keeps its type, for any number of calls.
THEOREM TypeCorrect == Spec => []TypeOK
<1>1. TypeInv => TypeOK
  BY DEF TypeInv
<1> QED
  BY <1>1, InitTyped, TypeInvStep, PTL DEF Spec

-----------------------------------------------------------------------------
(* Answers, queues and timeouts                                            *)

\* A call that is under way has found its singleton, and only one that asks for
\* something waits.
Waits == {"queue", "consumer", "receive", "wait", "destroy", "result"}

SessionsMade ==
  \A n \in Calls :
    /\ pc[n] \in Waits \cup {"create", "send"} => session[Utility(kind[n])] # "none"
    /\ pc[n] \in Waits => kind[n] \notin OneWay

\* Every message is in the queue of the request it answers: a request is pending
\* only once its call has its own queue, and the queue it names never changes.
AnswersInPlace ==
  /\ \A n \in Calls : replyTo[n] \in {n, None}
  /\ \A n \in pending : replyTo[n] = n
  /\ \A q \in Calls : \A i \in 1..Len(inbox[q]) : inbox[q][i].to = q
  /\ OwnAnswer

\* A queue exists only while its call is between making and destroying it, or when
\* its session failed it there, and the session it was made with works.
QueuesInUse ==
  \A q \in queues :
    /\ replyTo[q] = q /\ Works(q) /\ kind[q] \notin OneWay
    /\ \/ pc[q] \in QueueLabels
       \/ pc[q] = "done" /\ result[q] = MethodOf[kind[q]].fails

\* Past the wait a call without an answer had a timeout, or will find out that the
\* connection has failed.
NoAnswerReason ==
  \A n \in Calls :
    /\ reply[n] = None /\ pc[n] = "destroy" /\ Works(n) => n \in timed
    /\ reply[n] = None /\ pc[n] = "result" => n \in timed
    /\ result[n] = "TimeoutException" => n \in timed

ReplyInv == SessionsMade /\ AnswersInPlace /\ QueuesInUse /\ NoAnswerReason

\* A kind of call has a class, and the class a singleton.
LEMMA UtilityTyped == \A k \in Kinds : Utility(k) \in Utilities
BY DEF Utility, Utilities

\* What the end of a call does to the invariant: nothing, when its queue is gone or
\* its session failed, and a timeout is reported only to a call with a timeout.
LEMMA ReplyInvEnds ==
  ASSUME TypeInv, ReplyInv, NEW n \in Calls, NEW r \in Results, Ends(n, r),
         n \in queues => r = MethodOf[kind[n]].fails,
         r = "TimeoutException" => n \in timed,
         UNCHANGED <<callVars, queueVars, pending, reply, session>>
  PROVE  ReplyInv'
<1>0. /\ pc \in [Calls -> Labels] /\ result \in [Calls -> Results \cup {None}]
      /\ queues \subseteq Calls
  BY DEF TypeInv, TypeOK
<1>1. AnswersInPlace'
  BY DEF ReplyInv, AnswersInPlace, OwnAnswer, queueVars
<1>2. QueuesInUse'
  BY <1>0 DEF ReplyInv, QueuesInUse, Ends, Goto, queueVars, callVars, Works
<1>3. NoAnswerReason'
  BY <1>0 DEF ReplyInv, NoAnswerReason, Ends, Goto, callVars, Works
<1>4. SessionsMade'
  BY <1>0 DEF ReplyInv, SessionsMade, Waits, Ends, Goto, callVars
<1> QED
  BY <1>1, <1>2, <1>3, <1>4 DEF ReplyInv

LEMMA ReplyInvStep == TypeInv /\ ReplyInv /\ [Next]_vars => ReplyInv'
<1> SUFFICES ASSUME TypeInv, ReplyInv, [Next]_vars PROVE ReplyInv'
  OBVIOUS
<1> USE DEF Goto, callVars, queueVars
<1>0. /\ pc \in [Calls -> Labels] /\ replyTo \in [Calls -> Calls \cup {None}]
      /\ inbox \in [Calls -> Seq(Messages)] /\ reply \in [Calls -> Messages \cup {None}]
      /\ timed \subseteq Calls /\ queues \subseteq Calls /\ pending \subseteq Calls
      /\ kind \in [Calls -> Kinds] /\ session \in [Utilities -> {"none", "open", "lost"}]
      /\ result \in [Calls -> Results \cup {None}]
  BY DEF TypeInv, TypeOK
\* A step of n that moves neither messages nor queues.
<1>1. ASSUME NEW n \in Calls, NEW l, pc' = [pc EXCEPT ![n] = l],
             n \in queues => l \in QueueLabels,
             l = "destroy" => n \in timed \/ ~Works(n),
             l # "result",
             pc[n] \notin {"unused", "instance"},
             UNCHANGED <<callVars, queues, replyTo, inbox, reply, result, session>>,
             l \in Labels, l \in Waits => kind[n] \notin OneWay,
             pc[n] = "done" => l = "done",
             \A m \in pending' : m \in pending \/ replyTo[m] = m
      PROVE  ReplyInv'
  <2>1. AnswersInPlace'
    BY <1>1 DEF ReplyInv, AnswersInPlace, OwnAnswer
  <2>2. QueuesInUse'
    BY <1>0, <1>1 DEF ReplyInv, QueuesInUse, Works
  <2>3. NoAnswerReason'
    BY <1>0, <1>1 DEF ReplyInv, NoAnswerReason, Works
  <2>4. SessionsMade'
    BY <1>0, <1>1 DEF ReplyInv, SessionsMade, Waits, Labels
  <2> QED
    BY <2>1, <2>2, <2>3, <2>4 DEF ReplyInv
<1>2. ASSUME NEW n \in Calls, NEW c \in ProgramCalls, Call(n, c) PROVE ReplyInv'
  <2>1. /\ pc[n] = "unused" /\ pc' = [pc EXCEPT ![n] = "instance"]
        /\ kind' = [kind EXCEPT ![n] = c.kind]
        /\ timed \subseteq timed'
        /\ UNCHANGED <<queues, replyTo, inbox, pending, reply, result, session>>
    BY <1>2 DEF Call
  <2>2. AnswersInPlace'
    BY <2>1 DEF ReplyInv, AnswersInPlace, OwnAnswer
  <2>3. QueuesInUse'
    BY <1>0, <2>1 DEF ReplyInv, QueuesInUse, Works, QueueLabels
  <2>4. NoAnswerReason'
    BY <1>0, <2>1 DEF ReplyInv, NoAnswerReason, Works
  <2>5. SessionsMade'
    BY <1>0, <2>1 DEF ReplyInv, SessionsMade, Waits
  <2> QED
    BY <2>2, <2>3, <2>4, <2>5 DEF ReplyInv
<1>3. ASSUME NEW n \in Calls, Instance(n) PROVE ReplyInv'
  <2> DEFINE u == Utility(kind[n])
  <2>1. /\ pc[n] = "instance" /\ pc' = [pc EXCEPT ![n] = "create"]
        /\ UNCHANGED <<callVars, queues, replyTo, inbox, pending, reply, result>>
    BY <1>3 DEF Instance
  <2>2. /\ \A v \in Utilities : session[v] # "none" => session'[v] = session[v]
        /\ session'[u] # "none"
    BY <1>0, <1>3, UtilityTyped DEF Instance
  <2>3. AnswersInPlace'
    BY <2>1 DEF ReplyInv, AnswersInPlace, OwnAnswer
  <2>4. \A m \in Calls : Utility(kind[m]) \in Utilities
    BY <1>0, UtilityTyped
  <2> HIDE DEF u
  <2>5. QueuesInUse'
    BY <1>0, <2>1, <2>2, <2>4 DEF ReplyInv, QueuesInUse, Works, QueueLabels
  <2>6. SessionsMade'
    <3> SUFFICES ASSUME NEW m \in Calls,
                        pc'[m] \in Waits \cup {"create", "send"}
                 PROVE  /\ session'[Utility(kind[m])] # "none"
                        /\ pc'[m] \in Waits => kind[m] \notin OneWay
      BY <2>1 DEF SessionsMade
    <3>1. CASE m = n
      BY <1>0, <2>1, <2>2, <3>1 DEF u, Waits
    <3>2. CASE m # n
      BY <1>0, <2>1, <2>2, <2>4, <3>2 DEF ReplyInv, SessionsMade, Waits
    <3> QED
      BY <3>1, <3>2
  <2>7. NoAnswerReason'
    BY <1>0, <2>1, <2>2, <2>4 DEF ReplyInv, NoAnswerReason, SessionsMade, Waits, Works
  <2> QED
    BY <2>3, <2>5, <2>6, <2>7 DEF ReplyInv
<1>4. ASSUME NEW n \in Calls, InstanceThrows(n) PROVE ReplyInv'
  <2>1. n \notin queues
    BY <1>4 DEF InstanceThrows, ReplyInv, QueuesInUse, QueueLabels
  <2>2. {"GmpException", "CommunicationException"} \subseteq Results
    BY DEF Results, Exceptions, HandlersOf
  <2> QED
    BY <1>4, <2>1, <2>2, ReplyInvEnds DEF InstanceThrows
<1>5. ASSUME NEW n \in Calls, Reject(n) PROVE ReplyInv'
  <2>1. n \notin queues
    BY <1>5 DEF Reject, ReplyInv, QueuesInUse, QueueLabels
  <2>2. MethodOf[kind[n]].rejected \in {"OK", "ERROR"}
    BY <1>0, MethodFacts
  <2> QED
    BY <1>5, <2>1, <2>2, ReplyInvEnds DEF Reject, Results
<1>6. ASSUME NEW n \in Calls, CreateMessage(n) PROVE ReplyInv'
  <2>1. n \notin queues /\ pc[n] = "create"
    BY <1>6 DEF CreateMessage, ReplyInv, QueuesInUse, QueueLabels
  <2> DEFINE l == IF kind[n] \in OneWay THEN "send" ELSE "queue"
  <2>2. /\ l \in {"send", "queue"} /\ pc' = [pc EXCEPT ![n] = l]
        /\ l \in Waits => kind[n] \notin OneWay
    BY <1>6 DEF CreateMessage, Waits
  <2> HIDE DEF l
  <2>3. l \in Labels /\ l # "destroy" /\ l # "result"
    BY <2>2 DEF Labels
  <2>4. UNCHANGED <<callVars, queues, replyTo, inbox, reply, result, session, pending>>
    BY <1>6 DEF CreateMessage
  <2> QED
    BY <1>1, <2>1, <2>2, <2>3, <2>4
<1>22. ASSUME NEW n \in Calls, CreateConsumer(n) PROVE ReplyInv'
  <2>1. kind[n] \notin OneWay
    BY <1>22 DEF CreateConsumer, ReplyInv, SessionsMade, Waits
  <2> QED
    BY <1>1, <1>22, <2>1 DEF CreateConsumer, QueueLabels, Labels
<1>7. ASSUME NEW n \in Calls, CreateReplyQueue(n) PROVE ReplyInv'
  <2>1. /\ pc[n] = "queue" /\ Works(n) /\ pc' = [pc EXCEPT ![n] = "consumer"]
        /\ queues' = queues \cup {n} /\ replyTo' = [replyTo EXCEPT ![n] = n]
        /\ UNCHANGED <<callVars, inbox, pending, reply, result, session>>
    BY <1>7 DEF CreateReplyQueue, TemporaryQueue
  <2>2. AnswersInPlace'
    BY <1>0, <2>1 DEF ReplyInv, AnswersInPlace, OwnAnswer
  <2>3. QueuesInUse'
    BY <1>0, <2>1 DEF ReplyInv, QueuesInUse, QueueLabels, Works, SessionsMade, Waits
  <2>4. NoAnswerReason'
    BY <1>0, <2>1 DEF ReplyInv, NoAnswerReason, Works
  <2>5. SessionsMade'
    BY <1>0, <2>1 DEF ReplyInv, SessionsMade, Waits
  <2> QED
    BY <2>2, <2>3, <2>4, <2>5 DEF ReplyInv
<1>8. ASSUME NEW n \in Calls, Post(n) PROVE ReplyInv'
  <2>2. n \notin queues
    BY <1>8 DEF Post, ReplyInv, QueuesInUse
  <2>3. "OK" \in Results
    BY DEF Results
  <2> QED
    BY <1>8, <2>2, <2>3, ReplyInvEnds DEF Post
<1>9. ASSUME NEW n \in Calls, Send(n) PROVE ReplyInv'
  <2>1. replyTo[n] = n
    BY <1>9 DEF Send, TypeInv, OwnQueue, QueueLabels
  <2> QED
    BY <1>1, <1>9, <2>1 DEF Send, QueueLabels, Labels
<1>10. ASSUME NEW n \in Calls, Receive(n) PROVE ReplyInv'
  <2>1. kind[n] \notin OneWay
    BY <1>10 DEF Receive, ReplyInv, SessionsMade, Waits
  <2> QED
    BY <1>1, <1>10, <2>1 DEF Receive, QueueLabels, Labels
<1>11. ASSUME NEW n \in Calls, ReceiveNothing(n) PROVE ReplyInv'
  <2>1. kind[n] \notin OneWay
    BY <1>11 DEF ReceiveNothing, ReplyInv, SessionsMade, Waits
  <2> QED
    BY <1>1, <1>11, <2>1 DEF ReceiveNothing, QueueLabels, Labels
<1>12. ASSUME NEW n \in Calls, TakeReply(n) PROVE ReplyInv'
  <2>1. /\ pc[n] = "wait" /\ pc' = [pc EXCEPT ![n] = "destroy"] /\ replyTo[n] = n
        /\ UNCHANGED <<callVars, queues, replyTo, pending, result, session>>
    BY <1>12 DEF TakeReply, TypeInv, OwnQueue, QueueLabels
  <2>2. inbox[n] \in Seq(Messages) /\ inbox[n] # <<>>
    BY <1>0, <1>12, <2>1 DEF TakeReply
  <2>3. /\ reply' = [reply EXCEPT ![n] = inbox[n][1]] /\ inbox[n][1] \in Messages
        /\ inbox' = [inbox EXCEPT ![n] = Tail(inbox[n])]
        /\ inbox[n][1].to = n
        /\ \A i \in 1..Len(Tail(inbox[n])) : Tail(inbox[n])[i].to = n
    BY <1>12, <2>1, <2>2, HeadTail DEF TakeReply, ReplyInv, AnswersInPlace
  <2>4. AnswersInPlace'
    BY <1>0, <2>1, <2>3 DEF ReplyInv, AnswersInPlace, OwnAnswer
  <2>5. QueuesInUse'
    BY <1>0, <2>1 DEF ReplyInv, QueuesInUse, QueueLabels, Works
  <2>6. NoAnswerReason'
    BY <1>0, <2>1, <2>3, NoneIsNothing DEF ReplyInv, NoAnswerReason, Works
  <2>7. SessionsMade'
    BY <1>0, <2>1 DEF ReplyInv, SessionsMade, Waits
  <2> QED
    BY <2>4, <2>5, <2>6, <2>7 DEF ReplyInv
<1>13. ASSUME NEW n \in Calls, DestroyQueue(n) PROVE ReplyInv'
  <2>1. /\ pc[n] = "destroy" /\ Works(n) /\ pc' = [pc EXCEPT ![n] = "result"]
        /\ replyTo[n] = n /\ queues' = queues \ {n}
        /\ inbox' = [inbox EXCEPT ![n] = <<>>]
        /\ UNCHANGED <<callVars, replyTo, pending, reply, result, session>>
    BY <1>13 DEF DestroyQueue, TypeInv, OwnQueue, QueueLabels
  <2>2. AnswersInPlace'
    <3>1. 1..Len(<<>>) = {}
      OBVIOUS
    <3> QED
      BY <1>0, <2>1, <3>1 DEF ReplyInv, AnswersInPlace, OwnAnswer
  <2>3. QueuesInUse'
    BY <1>0, <2>1 DEF ReplyInv, QueuesInUse, Works
  <2>4. NoAnswerReason'
    BY <1>0, <2>1 DEF ReplyInv, NoAnswerReason, Works
  <2>5. SessionsMade'
    BY <1>0, <2>1 DEF ReplyInv, SessionsMade, Waits
  <2> QED
    BY <2>2, <2>3, <2>4, <2>5 DEF ReplyInv
<1>14. ASSUME NEW n \in Calls, Terminate(n),
             UNCHANGED <<callVars, queueVars, pending, reply, session>>
       PROVE  ReplyInv'
  BY <1>14 DEF Terminate, ReplyInv, SessionsMade, AnswersInPlace, OwnAnswer,
               QueuesInUse, NoAnswerReason, Works
<1>15. ASSUME NEW n \in Calls, Catch(n),
              UNCHANGED <<callVars, queueVars, pending, reply, session>>
       PROVE  ReplyInv'
  <2>1. /\ MethodOf[kind[n]].fails \in Results
        /\ MethodOf[kind[n]].fails # "TimeoutException"
    BY <1>0, MethodFacts DEF Results, Exceptions, HandlersOf
  <2> QED
    BY <1>15, <2>1, ReplyInvEnds DEF Catch
<1>16. ASSUME NEW n \in Calls, Throw(n) PROVE ReplyInv'
  BY <1>14, <1>15, <1>16 DEF Throw
<1>17. ASSUME NEW n \in Calls, FinishUnanswered(n) PROVE ReplyInv'
  <2>1. n \notin queues
    BY <1>17 DEF FinishUnanswered, ReplyInv, QueuesInUse, QueueLabels
  <2>2. MethodOf[kind[n]].unanswered \in Results
    BY <1>0, MethodFacts DEF Results, Exceptions, HandlersOf
  <2>3. n \in timed
    BY <1>17 DEF FinishUnanswered, ReplyInv, NoAnswerReason
  <2> QED
    BY <1>17, <2>1, <2>2, <2>3, ReplyInvEnds DEF FinishUnanswered
<1>18. ASSUME NEW n \in Calls, FinishAnswered(n) PROVE ReplyInv'
  <2>1. n \notin queues
    BY <1>18 DEF FinishAnswered, ReplyInv, QueuesInUse, QueueLabels
  <2>2. PICK r \in MethodOf[kind[n]].answers[reply[n].content] :
          \/ r = "CMSException" /\ Catch(n)
          \/ r = "crash" /\ Terminate(n)
          \/ r \in Results /\ Ends(n, r)
    BY <1>18 DEF FinishAnswered
  <2>3. kind[n] \in Kinds /\ reply[n].content \in Contents
    BY <1>0, <1>18 DEF FinishAnswered, Messages
  <2>4. r # "TimeoutException"
    BY <2>2, <2>3, AnswerFacts
  <2> QED
    BY <1>14, <1>15, <1>18, <2>1, <2>2, <2>4, ReplyInvEnds DEF FinishAnswered
<1>19. ASSUME NEW n \in Calls, NEW c \in Contents, Answer(n, c) PROVE ReplyInv'
  <2>1. /\ n \in pending /\ replyTo[n] = n /\ pending' = pending \ {n}
        /\ UNCHANGED <<callVars, pc, queues, replyTo, reply, result, session>>
    BY <1>19 DEF Answer, ReplyInv, AnswersInPlace
  <2>2. \A q \in Calls : \A i \in 1..Len(inbox'[q]) : inbox'[q][i].to = q
    <3> DEFINE msg == [to |-> n, content |-> c]
    <3>1. CASE n \in queues
      <4>1. inbox' = [inbox EXCEPT ![n] = Append(inbox[n], msg)]
        BY <1>19, <2>1, <3>1 DEF Answer
      <4>2. msg \in Messages /\ msg.to = n
        BY DEF Messages
      <4>3. \A i \in 1..Len(Append(inbox[n], msg)) : Append(inbox[n], msg)[i].to = n
        <5> HIDE DEF msg
        <5> QED
          BY <1>0, <4>2, Appended DEF ReplyInv, AnswersInPlace
      <4> HIDE DEF msg
      <4> QED
        BY <1>0, <4>1, <4>3 DEF ReplyInv, AnswersInPlace
    <3>2. CASE n \notin queues
      BY <1>19, <2>1, <3>2 DEF Answer, ReplyInv, AnswersInPlace
    <3> QED
      BY <3>1, <3>2
  <2>3. AnswersInPlace'
    BY <2>1, <2>2 DEF ReplyInv, AnswersInPlace, OwnAnswer
  <2> QED
    BY <2>1, <2>3 DEF ReplyInv, SessionsMade, QueuesInUse, NoAnswerReason, Works
<1>20. CASE Disconnect
  <2>1. /\ queues' = {} /\ inbox' = [q \in Calls |-> <<>>]
        /\ UNCHANGED <<callVars, pc, replyTo, pending, reply, result>>
    BY <1>20 DEF Disconnect
  <2>2. \A u \in Utilities : /\ session'[u] # "open"
                             /\ session[u] # "none" => session'[u] # "none"
    BY <1>0, <1>20 DEF Disconnect
  <2>3. 1..Len(<<>>) = {}
    OBVIOUS
  <2>4. \A m \in Calls : Utility(kind[m]) \in Utilities
    BY <1>0, UtilityTyped
  <2>5. AnswersInPlace'
    BY <2>1, <2>3 DEF ReplyInv, AnswersInPlace, OwnAnswer
  <2>6. QueuesInUse'
    BY <2>1 DEF QueuesInUse
  <2>7. NoAnswerReason'
    BY <2>1, <2>2, <2>4 DEF ReplyInv, NoAnswerReason, Works
  <2>8. SessionsMade'
    BY <2>1, <2>2, <2>4 DEF ReplyInv, SessionsMade
  <2> QED
    BY <2>5, <2>6, <2>7, <2>8 DEF ReplyInv
<1>21. CASE UNCHANGED vars
  BY <1>21 DEF vars, ReplyInv, SessionsMade, AnswersInPlace, OwnAnswer, QueuesInUse,
               NoAnswerReason, Works
<1> QED
  BY <1>2, <1>3, <1>4, <1>5, <1>6, <1>7, <1>8, <1>9, <1>10, <1>11, <1>12, <1>13,
     <1>16, <1>17, <1>18, <1>19, <1>20, <1>21, <1>22
  DEF Next, Work

LEMMA ReplyInvAlways == Spec => [](TypeInv /\ ReplyInv)
<1>1. Init => ReplyInv
  <2> SUFFICES ASSUME Init PROVE ReplyInv
    OBVIOUS
  <2>1. 1..Len(<<>>) = {}
    OBVIOUS
  <2>2. None # "TimeoutException"
    BY NoneIsNothing DEF Results, Exceptions, HandlersOf
  <2> QED
    BY <2>1, <2>2 DEF Init, ReplyInv, SessionsMade, Waits, AnswersInPlace, OwnAnswer,
                      QueuesInUse, NoAnswerReason
<1> QED
  BY <1>1, InitTyped, TypeInvStep, ReplyInvStep, PTL DEF Spec

\* However many threads ask and however late the GMP answers, no call takes the
\* answer to another request for its own.
THEOREM AnswersAreOwn == Spec => []OwnAnswer
<1>1. ReplyInv => OwnAnswer
  BY DEF ReplyInv, AnswersInPlace
<1> QED
  BY <1>1, ReplyInvAlways, PTL

\* A temporary queue that outlives its call was left behind by an exception of the
\* session: a call that was answered, or timed out, has destroyed its queue.
THEOREM QueuesAlwaysReleased == Spec => []QueuesReleased
<1>1. TypeInv /\ ReplyInv => QueuesReleased
  <2> SUFFICES ASSUME TypeInv, ReplyInv, NEW n \in Calls, pc[n] = "done",
                      replyTo[n] \in queues
               PROVE  result[n] = MethodOf[kind[n]].fails
    BY DEF QueuesReleased
  <2>1. queues \subseteq Calls /\ replyTo[n] \in {n, None}
    BY DEF TypeInv, TypeOK, ReplyInv, AnswersInPlace
  <2>2. replyTo[n] = n
    BY <2>1, NoneIsNothing
  <2> QED
    BY <2>2 DEF ReplyInv, QueuesInUse, QueueLabels
<1> QED
  BY <1>1, ReplyInvAlways, PTL

\* A call without a timeout never reports one, also when the connection fails
\* while it waits.
THEOREM UntimedNeverTimesOutEver == Spec => []UntimedNeverTimesOut
<1>1. ReplyInv => UntimedNeverTimesOut
  BY DEF ReplyInv, NoAnswerReason, UntimedNeverTimesOut
<1> QED
  BY <1>1, ReplyInvAlways, PTL

-----------------------------------------------------------------------------
(* What is posted                                                          *)

\* The flaws of a call are those its method looks at.
LEMMA ProgramFlaws == \A c \in ProgramCalls : c.flaws \subseteq MethodOf[c.kind].rejects
<1>1. ASSUME NEW k, NEW fs, NEW cs, \A f \in fs : f \subseteq MethodOf[k].rejects
      PROVE  \A c \in CallsOf({k}, fs, cs) : c.flaws \subseteq MethodOf[c.kind].rejects
  BY <1>1 DEF CallsOf
<1>2. /\ "label" \in MethodOf["event"].rejects
      /\ {"filename", "label"} \subseteq MethodOf["file"].rejects
  BY DEF MethodOf, PostEvent, SendFileEventMessage, Posts, Method
<1>3. \A f \in {{}, {"label"}} : f \subseteq MethodOf["event"].rejects
  BY <1>2
<1>4. \A f \in SUBSET {"filename", "label"} : f \subseteq MethodOf["file"].rejects
  BY <1>2
<1>5. \A k : \A f \in {{}} : f \subseteq MethodOf[k].rejects
  OBVIOUS
<1>6. \A c \in services \cup logging \cup obsevent \cup fileevents :
        c.flaws \subseteq MethodOf[c.kind].rejects
  BY <1>1, <1>3, <1>4, <1>5 DEF services, logging, obsevent, fileevents
<1>7. \A c \in igrins2obssimulator \cup tcscontext \cup epicsget \cup epicssubscription :
        c.flaws \subseteq MethodOf[c.kind].rejects
  BY <1>1, <1>5 DEF igrins2obssimulator, tcscontext, epicsget, epicssubscription
<1>8. \A c \in pcsupdater \cup gpim1zernikes \cup tcsApplyOffset
                 \cup tcsApplyOffsetCallback :
        c.flaws \subseteq MethodOf[c.kind].rejects
  BY <1>1, <1>5 DEF pcsupdater, gpim1zernikes, tcsApplyOffset, tcsApplyOffsetCallback
<1>9. \A c \in Careful : c.flaws \subseteq MethodOf[c.kind].rejects
  <2>1. ASSUME NEW ks, NEW ts, NEW c \in CallsOfCareful(ks, ts)
        PROVE  c.flaws \subseteq MethodOf[c.kind].rejects
    <3>1. PICK k \in ks : c \in [kind: {k}, timed: ts,
                                flaws: {{}} \cup {{f} : f \in MethodOf[k].rejects},
                                catches: {{"GiapiException"}}]
      BY <2>1 DEF CallsOfCareful
    <3>2. c.kind = k /\ c.flaws \in {{}} \cup {{f} : f \in MethodOf[k].rejects}
      BY <3>1
    <3> QED
      BY <3>2
  <2> QED
    BY <2>1 DEF Careful
<1> QED
  BY <1>6, <1>7, <1>8, <1>9, CallOfProgram

\* What a call that posts something has sent at each of its steps.
PostsInv ==
  \A n \in Calls :
    /\ pc[n] # "unused" => flaws[n] \subseteq MethodOf[kind[n]].rejects
    /\ pc[n] \in {"unused", "instance", "create", "queue", "consumer", "send"} => n \notin sent
    /\ pc[n] \in {"queue", "consumer", "send"} => flaws[n] = {}
    /\ kind[n] \in OneWay /\ n \in sent =>
         flaws[n] = {} /\ pc[n] = "done" /\ result[n] = "OK"
    /\ kind[n] \in OneWay /\ pc[n] = "done" /\ n \notin sent /\ result[n] = "OK" =>
         "level" \in flaws[n]

\* The steps that send nothing and return nothing.
LEMMA PostsInvKept ==
  ASSUME TypeInv, PostsInv, NEW n \in Calls, NEW l \in Labels, pc' = [pc EXCEPT ![n] = l],
         pc[n] # "unused", l \in {"queue", "consumer", "send"} => flaws[n] = {},
         l \in {"instance", "create", "queue", "consumer", "send"} =>
           pc[n] \in {"instance", "create", "queue", "consumer", "send"},
         kind[n] \in OneWay => n \notin sent /\ l # "done", l # "unused",
         UNCHANGED <<callVars, sent, result>>
  PROVE  PostsInv'
<1>1. pc \in [Calls -> Labels]
  BY DEF TypeInv, TypeOK
<1> QED
  BY <1>1 DEF PostsInv, callVars

\* The end of a call that has not posted anything.
LEMMA PostsInvEnds ==
  ASSUME TypeInv, PostsInv, NEW n \in Calls, NEW r \in Results, Ends(n, r),
         pc[n] # "unused",
         kind[n] \in OneWay => n \notin sent /\ (r = "OK" => "level" \in flaws[n]),
         UNCHANGED <<callVars, sent>>
  PROVE  PostsInv'
<1>1. pc \in [Calls -> Labels] /\ result \in [Calls -> Results \cup {None}]
  BY DEF TypeInv, TypeOK
<1> QED
  BY <1>1 DEF PostsInv, callVars, Ends, Goto

LEMMA PostsInvStep == TypeInv /\ ReplyInv /\ PostsInv /\ [Next]_vars => PostsInv'
<1> SUFFICES ASSUME TypeInv, ReplyInv, PostsInv, [Next]_vars PROVE PostsInv'
  OBVIOUS
<1> USE DEF Goto
<1>0. /\ pc \in [Calls -> Labels] /\ kind \in [Calls -> Kinds]
      /\ flaws \in [Calls -> SUBSET Flaws] /\ result \in [Calls -> Results \cup {None}]
  BY DEF TypeInv, TypeOK
<1>1. ASSUME NEW n \in Calls, NEW c \in ProgramCalls, Call(n, c) PROVE PostsInv'
  <2>1. c.flaws \subseteq MethodOf[c.kind].rejects
    BY ProgramFlaws
  <2>2. /\ pc[n] = "unused" /\ pc' = [pc EXCEPT ![n] = "instance"]
        /\ kind' = [kind EXCEPT ![n] = c.kind] /\ flaws' = [flaws EXCEPT ![n] = c.flaws]
        /\ UNCHANGED <<sent, result>>
    BY <1>1 DEF Call
  <2> QED
    BY <1>0, <2>1, <2>2 DEF PostsInv
<1>2. ASSUME NEW n \in Calls, Instance(n) PROVE PostsInv'
  <2>1. pc[n] = "instance" /\ n \notin sent
    BY <1>2 DEF Instance, PostsInv
  <2> QED
    BY <1>2, <2>1, PostsInvKept DEF Instance, Labels
<1>3. ASSUME NEW n \in Calls, InstanceThrows(n) PROVE PostsInv'
  <2>1. pc[n] = "instance" /\ n \notin sent
    BY <1>3 DEF InstanceThrows, PostsInv
  <2>2. {"GmpException", "CommunicationException"} \subseteq Results
    BY DEF Results, Exceptions, HandlersOf
  <2> QED
    BY <1>3, <2>1, <2>2, PostsInvEnds DEF InstanceThrows
<1>4. ASSUME NEW n \in Calls, Reject(n) PROVE PostsInv'
  <2>1. pc[n] = "create" /\ n \notin sent
    BY <1>4 DEF Reject, PostsInv
  <2>2. MethodOf[kind[n]].rejected \in Results
    BY <1>0, MethodFacts DEF Results
  <2>3. MethodOf[kind[n]].rejected = "OK" => "level" \in flaws[n]
    BY <1>0, <1>4, MethodFacts DEF Reject, Rejected
  <2> QED
    BY <1>4, <2>1, <2>2, <2>3, PostsInvEnds DEF Reject
<1>5. ASSUME NEW n \in Calls, CreateMessage(n) PROVE PostsInv'
  <2>1. pc[n] = "create" /\ n \notin sent
    BY <1>5 DEF CreateMessage, PostsInv
  <2>2. flaws[n] = {}
    BY <1>5, <2>1 DEF CreateMessage, Rejected, PostsInv
  <2>3. PICK l \in {"send", "queue"} : pc' = [pc EXCEPT ![n] = l]
    BY <1>5 DEF CreateMessage
  <2>4. l \in Labels /\ l # "done" /\ l # "unused"
    BY <2>3 DEF Labels
  <2>5. UNCHANGED <<callVars, sent, result>>
    BY <1>5 DEF CreateMessage
  <2> QED
    BY <2>1, <2>2, <2>3, <2>4, <2>5, PostsInvKept
<1>6. ASSUME NEW n \in Calls, CreateReplyQueue(n) PROVE PostsInv'
  <2>1. pc[n] = "queue" /\ n \notin sent /\ flaws[n] = {}
    BY <1>6 DEF CreateReplyQueue, PostsInv
  <2> QED
    BY <1>6, <2>1, PostsInvKept DEF CreateReplyQueue, Labels
<1>23. ASSUME NEW n \in Calls, CreateConsumer(n) PROVE PostsInv'
  <2>1. pc[n] = "consumer" /\ n \notin sent /\ flaws[n] = {}
    BY <1>23 DEF CreateConsumer, PostsInv
  <2> QED
    BY <1>23, <2>1, PostsInvKept DEF CreateConsumer, Labels
<1>7. ASSUME NEW n \in Calls, Post(n) PROVE PostsInv'
  <2>1. /\ pc[n] = "send" /\ flaws[n] = {}
        /\ pc' = [pc EXCEPT ![n] = "done"] /\ sent' = sent \cup {n}
        /\ result' = [result EXCEPT ![n] = "OK"] /\ UNCHANGED callVars
    BY <1>7 DEF Post, Ends, PostsInv
  <2> QED
    BY <1>0, <2>1 DEF PostsInv, callVars
<1>8. ASSUME NEW n \in Calls, Send(n) PROVE PostsInv'
  <2>1. /\ pc[n] = "send" /\ kind[n] \notin OneWay /\ flaws[n] = {}
        /\ pc' = [pc EXCEPT ![n] = "receive"] /\ sent' = sent \cup {n}
        /\ UNCHANGED callVars /\ UNCHANGED result
    BY <1>8 DEF Send, PostsInv
  <2> QED
    BY <1>0, <2>1 DEF PostsInv, callVars
\* A call that waits is none of those that post something.
<1>9. ASSUME NEW n \in Calls, NEW l \in Labels,
             pc[n] \in Waits, pc[n] \notin {"queue", "consumer"},
             pc' = [pc EXCEPT ![n] = l],
             l \notin {"unused", "instance", "create", "queue", "consumer", "send"},
             UNCHANGED <<callVars, sent, result>>
      PROVE  PostsInv'
  <2>1. kind[n] \notin OneWay /\ pc[n] # "unused"
    BY <1>9 DEF ReplyInv, SessionsMade, Waits
  <2> QED
    BY <1>9, <2>1, PostsInvKept
<1>10. ASSUME NEW n \in Calls, Receive(n) PROVE PostsInv'
  BY <1>9, <1>10 DEF Receive, Labels, Waits
<1>11. ASSUME NEW n \in Calls, ReceiveNothing(n) PROVE PostsInv'
  BY <1>9, <1>11 DEF ReceiveNothing, Labels, Waits
<1>12. ASSUME NEW n \in Calls, TakeReply(n) PROVE PostsInv'
  BY <1>9, <1>12 DEF TakeReply, Labels, Waits
<1>13. ASSUME NEW n \in Calls, DestroyQueue(n) PROVE PostsInv'
  BY <1>9, <1>13 DEF DestroyQueue, Labels, Waits
<1>14. ASSUME NEW n \in Calls, Terminate(n), UNCHANGED <<callVars, sent>> PROVE PostsInv'
  BY <1>14 DEF Terminate, callVars, PostsInv
<1>15. ASSUME NEW n \in Calls, Catch(n), pc[n] \in Waits \cup {"create", "send"},
              UNCHANGED <<callVars, sent>>
       PROVE  PostsInv'
  <2>1. MethodOf[kind[n]].fails \in Results /\ MethodOf[kind[n]].fails # "OK"
    BY <1>0, MethodFacts DEF Results, Exceptions, HandlersOf
  <2>2. pc[n] # "unused" /\ (kind[n] \in OneWay => n \notin sent)
    BY <1>15 DEF PostsInv, ReplyInv, SessionsMade, Waits
  <2> QED
    BY <1>15, <2>1, <2>2, PostsInvEnds DEF Catch
<1>16. ASSUME NEW n \in Calls, Throw(n) PROVE PostsInv'
  <2>1. pc[n] \in Waits \cup {"create", "send"}
    BY <1>16 DEF Throw, Waits
  <2> QED
    BY <1>14, <1>15, <1>16, <2>1 DEF Throw
\* The end of a call that waited.
<1>17. ASSUME NEW n \in Calls, NEW r \in Results, Ends(n, r), pc[n] = "result",
              UNCHANGED <<callVars, sent>>
       PROVE  PostsInv'
  <2>1. kind[n] \notin OneWay
    BY <1>17 DEF ReplyInv, SessionsMade, Waits
  <2> QED
    BY <1>17, <2>1, PostsInvEnds
<1>18. ASSUME NEW n \in Calls, FinishUnanswered(n) PROVE PostsInv'
  <2>1. MethodOf[kind[n]].unanswered \in Results
    BY <1>0, MethodFacts DEF Results, Exceptions, HandlersOf
  <2> QED
    BY <1>17, <1>18, <2>1 DEF FinishUnanswered
<1>19. ASSUME NEW n \in Calls, FinishAnswered(n) PROVE PostsInv'
  <2>1. pc[n] = "result" /\ UNCHANGED <<callVars, sent>>
    BY <1>19 DEF FinishAnswered
  <2> QED
    BY <1>14, <1>15, <1>17, <1>19, <2>1 DEF FinishAnswered, Waits
<1>20. ASSUME NEW n \in Calls, NEW c \in Contents, Answer(n, c) PROVE PostsInv'
  BY <1>20 DEF Answer, callVars, PostsInv
<1>21. CASE Disconnect
  BY <1>21 DEF Disconnect, callVars, PostsInv
<1>22. CASE UNCHANGED vars
  BY <1>22 DEF vars, PostsInv
<1> QED
  BY <1>1, <1>2, <1>3, <1>4, <1>5, <1>6, <1>7, <1>8, <1>10, <1>11, <1>12, <1>13,
     <1>16, <1>18, <1>19, <1>20, <1>21, <1>22, <1>23
  DEF Next, Work

\* What is posted is what is reported as posted, and nothing that lacks a name, a
\* label or a value is.
THEOREM PostsAlwaysAsReported == Spec => []PostsAsReported
<1>1. Init => PostsInv
  BY DEF Init, PostsInv, OneWay
<1>2. PostsInv => PostsAsReported
  BY DEF PostsInv, PostsAsReported
<1> QED
  BY <1>1, <1>2, InitTyped, TypeInvStep, ReplyInvAlways, PostsInvStep, PTL DEF Spec

-----------------------------------------------------------------------------
(* What a call promises                                                    *)

\* The state Requests sees.
Begun    == {n \in Calls : pc[n] # "unused"}
Underway == {m \in Messages :
               \E q \in Calls : \E i \in 1..Len(inbox[q]) : inbox[q][i] = m}

\* A call has sent its message once it is past sending it, and not before; it takes
\* an answer while it waits, and returns when it ends.
SentOnce ==
  \A n \in Calls :
    /\ pc[n] \in {"unused", "instance", "create", "queue", "consumer", "send"} =>
         n \notin sent /\ reply[n] = None
    /\ pc[n] \in {"receive", "wait", "destroy", "result"} => n \in sent
    /\ pc[n] \in {"receive", "wait"} => reply[n] = None
    /\ pc[n] # "done" => result[n] = None

\* A queue holds one answer at most, and none before its request was answered.
AnsweredAtMostOnce ==
  /\ pending \subseteq sent
  /\ \A q \in Calls :
       /\ \A i \in 1..Len(inbox[q]) : i = 1
       /\ inbox[q] # <<>> => q \in sent /\ q \notin pending

RequestInv == SentOnce /\ AnsweredAtMostOnce

\* A call that has begun stays begun.
LEMMA BegunKept ==
  ASSUME TypeInv, NEW n \in Calls, NEW l, l # "unused", pc[n] # "unused",
         pc' = [pc EXCEPT ![n] = l]
  PROVE  Begun' = Begun
BY DEF Begun, TypeInv, TypeOK

LEMMA UnderwayKept == inbox' = inbox => Underway' = Underway
BY DEF Underway

\* The messages of a queue are those under way to its call.
LEMMA UnderwayTo ==
  ASSUME TypeInv, ReplyInv, NEW m \in Messages
  PROVE  m \in Underway <=> \E i \in 1..Len(inbox[m.to]) : inbox[m.to][i] = m
<1>1. m.to \in Calls
  BY DEF Messages
<1> QED
  BY <1>1 DEF Underway, ReplyInv, AnswersInPlace

\* Without its only message a queue is empty.
LEMMA SingleMessage ==
  ASSUME NEW S, NEW q \in Seq(S), q # <<>>, \A i \in 1..Len(q) : i = 1
  PROVE  Tail(q) = <<>>
<1>1. Len(q) \in Nat /\ Len(q) # 0
  OBVIOUS
<1>2. Len(q) = 1
  BY <1>1
<1>3. Tail(q) \in Seq(S) /\ Len(Tail(q)) = 0
  BY <1>2
<1> QED
  BY <1>3

\* With a queue the answers to its call disappear.
LEMMA UnderwayEmptied ==
  ASSUME TypeInv, ReplyInv, NEW n \in Calls, inbox' = [inbox EXCEPT ![n] = <<>>]
  PROVE  Underway' = {m \in Underway : m.to # n}
<1>1. /\ inbox'[n] = <<>> /\ 1..Len(<<>>) = {}
      /\ \A q \in Calls : q # n => inbox'[q] = inbox[q]
  BY DEF TypeInv, TypeOK
<1>2. ASSUME NEW m \in Messages
      PROVE  m \in Underway' <=> m \in Underway /\ m.to # n
  <2>1. \A q \in Calls : \A i \in 1..Len(inbox[q]) : inbox[q][i].to = q
    BY DEF ReplyInv, AnswersInPlace
  <2> QED
    BY <1>1, <2>1 DEF Underway
<1> QED
  BY <1>2 DEF Underway

\* A message goes into an empty queue.
LEMMA UnderwayAdded ==
  ASSUME TypeInv, NEW n \in Calls, NEW msg \in Messages, inbox[n] = <<>>,
         inbox' = [inbox EXCEPT ![n] = Append(inbox[n], msg)]
  PROVE  /\ Underway' = Underway \cup {msg}
         /\ \A i \in 1..Len(inbox'[n]) : i = 1
<1>1. /\ inbox'[n] = <<msg>>
      /\ \A q \in Calls : q # n => inbox'[q] = inbox[q]
  BY DEF TypeInv, TypeOK
<1>2. /\ 1..Len(<<>>) = {} /\ 1..Len(<<msg>>) = {1} /\ <<msg>>[1] = msg
  OBVIOUS
<1>3. ASSUME NEW m \in Messages
      PROVE  m \in Underway' <=> m \in Underway \/ m = msg
  BY <1>1, <1>2 DEF Underway
<1>4. Underway' \subseteq Messages /\ Underway \subseteq Messages
  BY DEF Underway
<1> QED
  BY <1>1, <1>2, <1>3, <1>4

\* A step of n that sends, takes and returns nothing is none to its program.
LEMMA RequestStutters ==
  ASSUME TypeInv, RequestInv, NEW n \in Calls, NEW l, pc' = [pc EXCEPT ![n] = l],
         UNCHANGED <<kind, sent, pending, inbox, reply, result>>,
         \/ pc[n] \in {"instance", "create", "queue", "consumer"} /\
            l \in {"create", "queue", "consumer", "send"}
         \/ pc[n] = "receive" /\ l = "wait"
         \/ pc[n] = "wait" /\ l = "destroy"
  PROVE  RequestInv' /\ UNCHANGED P!vars
<1>1. Begun' = Begun /\ Underway' = Underway
  BY BegunKept, UnderwayKept
<1>2. RequestInv'
  BY DEF RequestInv, SentOnce, AnsweredAtMostOnce, TypeInv, TypeOK
<1> QED
  BY <1>1, <1>2 DEF P!vars, Begun, Underway

\* A call returns, for one of the reasons there are.
LEMMA RequestReturns ==
  ASSUME TypeInv, RequestInv, NEW n \in Calls, NEW r \in Results,
         pc[n] \notin {"unused", "done"}, Ends(n, r),
         UNCHANGED <<kind, sent, pending, inbox, reply>>,
         \/ P!Rejected(n, r) \/ P!Answered(n, r) \/ P!Unanswered(n, r)
         \/ r \in Exceptions \ {"TimeoutException"}
  PROVE  RequestInv' /\ P!Next
<1>1. pc' = [pc EXCEPT ![n] = "done"] /\ result' = [result EXCEPT ![n] = r]
  BY DEF Ends, Goto
<1>2. Begun' = Begun /\ Underway' = Underway
  BY <1>1, BegunKept, UnderwayKept
<1>3. n \in Begun /\ result[n] = None
  BY DEF Begun, RequestInv, SentOnce
<1>4. P!Working(n)
  BY <1>3 DEF P!Working, Begun
<1>5. P!Return(n, r)
  BY <1>1, <1>2, <1>4 DEF P!Return, Begun, Underway
<1>6. P!Next
  BY <1>5 DEF P!Next
<1>7. RequestInv'
  BY <1>1 DEF RequestInv, SentOnce, AnsweredAtMostOnce, TypeInv, TypeOK
<1> QED
  BY <1>6, <1>7

\* The program is terminated in the middle of a call.
LEMMA RequestTerminated ==
  ASSUME RequestInv, NEW n \in Calls, Terminate(n),
         UNCHANGED <<kind, sent, pending, inbox, reply>>
  PROVE  RequestInv' /\ UNCHANGED P!vars
BY DEF Terminate, RequestInv, SentOnce, AnsweredAtMostOnce, P!vars

\* A CMSException is caught and thrown on as one of the library.
LEMMA RequestCaught ==
  ASSUME TypeInv, RequestInv, NEW n \in Calls, Catch(n), pc[n] \notin {"unused", "done"},
         UNCHANGED <<kind, sent, pending, inbox, reply>>
  PROVE  RequestInv' /\ P!Next
<1>1. MethodOf[kind[n]].fails \in (Exceptions \ {"TimeoutException"}) \cap Results
  BY MethodFacts DEF TypeInv, TypeOK, Results, Exceptions, HandlersOf
<1> QED
  BY <1>1, RequestReturns DEF Catch

LEMMA RequestStep ==
  ASSUME TypeInv, ReplyInv, RequestInv, Next
  PROVE  RequestInv' /\ [P!Next]_(P!vars)
<1> USE DEF Goto, callVars, queueVars
<1>0. /\ pc \in [Calls -> Labels] /\ replyTo \in [Calls -> Calls \cup {None}]
      /\ inbox \in [Calls -> Seq(Messages)] /\ reply \in [Calls -> Messages \cup {None}]
      /\ kind \in [Calls -> Kinds] /\ result \in [Calls -> Results \cup {None}]
      /\ sent \subseteq Calls /\ pending \subseteq Calls
  BY DEF TypeInv, TypeOK
<1>1. ASSUME NEW n \in Calls, NEW c \in ProgramCalls, Call(n, c)
      PROVE  RequestInv' /\ P!Next
  <2>1. /\ pc[n] = "unused" /\ pc' = [pc EXCEPT ![n] = "instance"]
        /\ kind' = [kind EXCEPT ![n] = c.kind]
        /\ UNCHANGED <<sent, pending, inbox, reply, result>>
    BY <1>1 DEF Call
  <2>2. Begun' = Begun \cup {n} /\ n \notin Begun /\ Underway' = Underway
    BY <1>0, <2>1, UnderwayKept DEF Begun
  <2>3. c.kind \in Kinds
    BY ProgramCallsTyped DEF CallRecords
  <2>4. P!Begin(n, c.kind)
    BY <2>1, <2>2 DEF P!Begin, Begun, Underway
  <2>5. P!Next
    BY <2>3, <2>4 DEF P!Next
  <2>6. RequestInv'
    BY <1>0, <2>1 DEF RequestInv, SentOnce, AnsweredAtMostOnce
  <2> QED
    BY <2>5, <2>6
<1>2. ASSUME NEW n \in Calls,
             \/ Instance(n) \/ CreateMessage(n) \/ CreateReplyQueue(n)
             \/ CreateConsumer(n) \/ Receive(n) \/ ReceiveNothing(n)
      PROVE  RequestInv' /\ UNCHANGED P!vars
  <2>1. UNCHANGED <<kind, sent, pending, inbox, reply, result>>
    BY <1>2 DEF Instance, CreateMessage, CreateReplyQueue, CreateConsumer, Receive,
                ReceiveNothing
  <2>2. CASE Instance(n)
    BY <2>1, <2>2, RequestStutters DEF Instance
  <2>3. CASE CreateMessage(n)
    <3>1. PICK l \in {"send", "queue"} : pc' = [pc EXCEPT ![n] = l]
      BY <2>3 DEF CreateMessage
    <3>2. pc[n] = "create"
      BY <2>3 DEF CreateMessage
    <3> QED
      BY <2>1, <3>1, <3>2, RequestStutters
  <2>4. CASE CreateReplyQueue(n)
    BY <2>1, <2>4, RequestStutters DEF CreateReplyQueue
  <2>7. CASE CreateConsumer(n)
    BY <2>1, <2>7, RequestStutters DEF CreateConsumer
  <2>5. CASE Receive(n)
    BY <2>1, <2>5, RequestStutters DEF Receive
  <2>6. CASE ReceiveNothing(n)
    BY <2>1, <2>6, RequestStutters DEF ReceiveNothing
  <2> QED
    BY <1>2, <2>2, <2>3, <2>4, <2>5, <2>6, <2>7
<1>3. ASSUME NEW n \in Calls, InstanceThrows(n) PROVE RequestInv' /\ P!Next
  <2>1. PICK e \in {"GmpException", "CommunicationException"} : Ends(n, e)
    BY <1>3 DEF InstanceThrows
  <2>2. e \in (Exceptions \ {"TimeoutException"}) \cap Results
    BY DEF Results, Exceptions, HandlersOf
  <2>3. pc[n] = "instance" /\ UNCHANGED <<kind, sent, pending, inbox, reply>>
    BY <1>3 DEF InstanceThrows
  <2> QED
    BY <2>1, <2>2, <2>3, RequestReturns
<1>4. ASSUME NEW n \in Calls, Reject(n) PROVE RequestInv' /\ P!Next
  <2> DEFINE r == MethodOf[kind[n]].rejected
  <2>1. pc[n] = "create" /\ Ends(n, r) /\ UNCHANGED <<kind, sent, pending, inbox, reply>>
    BY <1>4 DEF Reject
  <2>2. MethodOf[kind[n]].rejects # {}
    BY <1>4 DEF Reject, Rejected
  <2>3. r \in Results
    BY <1>0, MethodFacts DEF Results
  <2>4. n \notin sent
    BY <2>1 DEF RequestInv, SentOnce
  <2>5. P!Rejected(n, r)
    BY <2>2, <2>4 DEF P!Rejected
  <2> HIDE DEF r
  <2> QED
    BY <2>1, <2>3, <2>5, RequestReturns
<1>5. ASSUME NEW n \in Calls, Post(n) PROVE RequestInv' /\ P!Next
  <2>1. /\ pc[n] = "send" /\ pc' = [pc EXCEPT ![n] = "done"] /\ kind[n] \in OneWay
        /\ sent' = sent \cup {n} /\ result' = [result EXCEPT ![n] = "OK"]
        /\ UNCHANGED <<kind, pending, inbox, reply>>
    BY <1>5 DEF Post, Ends
  <2>2. Begun' = Begun /\ Underway' = Underway
    BY <2>1, BegunKept, UnderwayKept
  <2>3. n \in Begun /\ result[n] = None /\ n \notin sent
    BY <2>1 DEF Begun, RequestInv, SentOnce
  <2>4. P!Tell(n)
    BY <2>1, <2>2, <2>3 DEF P!Tell, P!Working, Begun, Underway
  <2>5. P!Next
    BY <2>4 DEF P!Next
  <2>6. RequestInv'
    BY <1>0, <2>1 DEF RequestInv, SentOnce, AnsweredAtMostOnce
  <2> QED
    BY <2>5, <2>6
<1>6. ASSUME NEW n \in Calls, Send(n) PROVE RequestInv' /\ P!Next
  <2>1. /\ pc[n] = "send" /\ pc' = [pc EXCEPT ![n] = "receive"] /\ kind[n] \notin OneWay
        /\ sent' = sent \cup {n} /\ pending' = pending \cup {n}
        /\ UNCHANGED <<kind, inbox, reply, result>>
    BY <1>6 DEF Send
  <2>2. Begun' = Begun /\ Underway' = Underway
    BY <2>1, BegunKept, UnderwayKept
  <2>3. n \in Begun /\ result[n] = None /\ n \notin sent
    BY <2>1 DEF Begun, RequestInv, SentOnce
  <2>4. P!Ask(n)
    BY <2>1, <2>2, <2>3 DEF P!Ask, P!Working, Begun, Underway
  <2>5. P!Next
    BY <2>4 DEF P!Next
  <2>6. AnsweredAtMostOnce'
    BY <2>1, <2>3 DEF RequestInv, AnsweredAtMostOnce
  <2>7. SentOnce'
    BY <1>0, <2>1 DEF RequestInv, SentOnce
  <2> QED
    BY <2>5, <2>6, <2>7 DEF RequestInv
<1>7. ASSUME NEW n \in Calls, TakeReply(n) PROVE RequestInv' /\ P!Next
  <2>0. PICK m : m = inbox[n][1]
    OBVIOUS
  <2>1. /\ pc[n] = "wait" /\ pc' = [pc EXCEPT ![n] = "destroy"] /\ replyTo[n] = n
        /\ UNCHANGED <<kind, sent, pending, result>>
    BY <1>7 DEF TakeReply, TypeInv, OwnQueue, QueueLabels
  <2>2. inbox[n] \in Seq(Messages) /\ inbox[n] # <<>>
    BY <1>0, <1>7, <2>1 DEF TakeReply
  <2>3. /\ reply' = [reply EXCEPT ![n] = m] /\ m \in Messages /\ m.to = n
        /\ inbox' = [inbox EXCEPT ![n] = Tail(inbox[n])] /\ 1 \in 1..Len(inbox[n])
    BY <1>7, <2>0, <2>1, <2>2, HeadTail DEF TakeReply, ReplyInv, AnswersInPlace
  <2>4. \A i \in 1..Len(inbox[n]) : i = 1
    BY DEF RequestInv, AnsweredAtMostOnce
  <2>5. Tail(inbox[n]) = <<>>
    BY <2>2, <2>4, SingleMessage
  <2>6. inbox' = [inbox EXCEPT ![n] = <<>>]
    BY <2>3, <2>5
  <2>7. m \in Underway
    BY <2>0, <2>3, UnderwayTo
  <2>8. ASSUME NEW k \in Underway, k.to = n PROVE k = m
    <3>1. k \in Messages
      BY DEF Underway
    <3>2. \E i \in 1..Len(inbox[n]) : inbox[n][i] = k
      BY <2>8, <3>1, UnderwayTo
    <3> QED
      BY <2>0, <2>4, <3>2
  <2>9. Underway' = Underway \ {m}
    <3>1. Underway' = {k \in Underway : k.to # n}
      BY <2>6, UnderwayEmptied
    <3> QED
      BY <2>3, <2>8, <3>1
  <2>10. Begun' = Begun /\ n \in Begun /\ result[n] = None /\ reply[n] = None
    BY <2>1, BegunKept DEF Begun, RequestInv, SentOnce
  <2>11. P!Take(n, m)
    BY <2>1, <2>3, <2>7, <2>9, <2>10 DEF P!Take, P!Working, Begun, Underway
  <2>12. P!Next
    BY <2>7, <2>11 DEF P!Next, Underway
  <2>13. SentOnce'
    BY <1>0, <2>1, <2>3 DEF RequestInv, SentOnce
  <2>14. AnsweredAtMostOnce'
    <3>1. 1..Len(<<>>) = {}
      OBVIOUS
    <3> QED
      BY <1>0, <2>1, <2>6, <3>1 DEF RequestInv, AnsweredAtMostOnce
  <2> QED
    BY <2>12, <2>13, <2>14 DEF RequestInv
<1>8. ASSUME NEW n \in Calls, DestroyQueue(n) PROVE RequestInv' /\ P!Next
  <2>1. /\ pc[n] = "destroy" /\ pc' = [pc EXCEPT ![n] = "result"]
        /\ inbox' = [inbox EXCEPT ![n] = <<>>]
        /\ UNCHANGED <<kind, sent, pending, reply, result>>
    BY <1>8 DEF DestroyQueue, TypeInv, OwnQueue, QueueLabels
  <2>2. Begun' = Begun /\ Underway' = {m \in Underway : m.to \notin {n}}
    BY <2>1, BegunKept, UnderwayEmptied
  <2>3. P!Lose({n})
    BY <2>1, <2>2 DEF P!Lose, Begun, Underway
  <2>4. P!Next
    BY <2>3 DEF P!Next
  <2>5. 1..Len(<<>>) = {}
    OBVIOUS
  <2>6. AnsweredAtMostOnce'
    BY <1>0, <2>1, <2>5 DEF RequestInv, AnsweredAtMostOnce
  <2>7. SentOnce'
    BY <1>0, <2>1 DEF RequestInv, SentOnce
  <2> QED
    BY <2>4, <2>6, <2>7 DEF RequestInv
<1>9. ASSUME NEW n \in Calls, Throw(n) PROVE RequestInv' /\ [P!Next]_(P!vars)
  <2>1. /\ pc[n] \notin {"unused", "done"} /\ (Catch(n) \/ Terminate(n))
        /\ UNCHANGED <<kind, sent, pending, inbox, reply>>
    BY <1>9 DEF Throw
  <2> QED
    BY <2>1, RequestCaught, RequestTerminated
<1>10. ASSUME NEW n \in Calls, FinishUnanswered(n) PROVE RequestInv' /\ P!Next
  <2> DEFINE r == MethodOf[kind[n]].unanswered
  <2>1. /\ pc[n] = "result" /\ reply[n] = None /\ Ends(n, r)
        /\ UNCHANGED <<kind, sent, pending, inbox, reply>>
    BY <1>10 DEF FinishUnanswered
  <2>2. r \in Results
    BY <1>0, MethodFacts DEF Results, Exceptions, HandlersOf
  <2>3. n \in sent
    BY <2>1 DEF RequestInv, SentOnce
  <2>4. P!Unanswered(n, r)
    BY <2>1, <2>3 DEF P!Unanswered
  <2> HIDE DEF r
  <2> QED
    BY <2>1, <2>2, <2>4, RequestReturns
<1>11. ASSUME NEW n \in Calls, FinishAnswered(n) PROVE RequestInv' /\ [P!Next]_(P!vars)
  <2>1. /\ pc[n] = "result" /\ reply[n] # None
        /\ UNCHANGED <<kind, sent, pending, inbox, reply>>
    BY <1>11 DEF FinishAnswered
  <2>2. PICK r \in MethodOf[kind[n]].answers[reply[n].content] :
          Catch(n) \/ Terminate(n) \/ (r \in Results /\ Ends(n, r))
    BY <1>11 DEF FinishAnswered
  <2>3. P!Answered(n, r)
    BY <2>1 DEF P!Answered
  <2> QED
    BY <2>1, <2>2, <2>3, RequestCaught, RequestTerminated, RequestReturns
<1>12. ASSUME NEW n \in Calls, NEW c \in Contents, Answer(n, c)
       PROVE  RequestInv' /\ P!Next
  <2> DEFINE msg == [to |-> n, content |-> c]
  <2>1. /\ n \in pending /\ pending' = pending \ {n} /\ replyTo[n] = n
        /\ UNCHANGED <<kind, pc, sent, reply, result>>
    BY <1>12 DEF Answer, ReplyInv, AnswersInPlace
  <2>2. inbox[n] = <<>> /\ msg \in Messages
    BY <2>1 DEF RequestInv, AnsweredAtMostOnce, Messages
  <2>3. \/ inbox' = [inbox EXCEPT ![n] = Append(inbox[n], msg)]
        \/ inbox' = inbox
    BY <1>12, <2>1 DEF Answer
  <2>4. Begun' = Begun
    BY <2>1 DEF Begun
  <2> HIDE DEF msg
  <2>5. Underway' \in {Underway, Underway \cup {msg}}
    BY <2>2, <2>3, UnderwayAdded, UnderwayKept
  <2>6. P!Answer(n, c)
    BY <2>1, <2>4, <2>5 DEF P!Answer, Begun, Underway, msg
  <2>7. P!Next
    BY <2>6 DEF P!Next
  <2>8. AnsweredAtMostOnce'
    <3>1. /\ \A q \in Calls : q # n => inbox'[q] = inbox[q]
          /\ \A i \in 1..Len(inbox'[n]) : i = 1
      BY <1>0, <2>2, <2>3, UnderwayAdded DEF RequestInv, AnsweredAtMostOnce
    <3> QED
      BY <2>1, <3>1 DEF RequestInv, AnsweredAtMostOnce
  <2>9. SentOnce'
    BY <2>1 DEF RequestInv, SentOnce
  <2> QED
    BY <2>7, <2>8, <2>9 DEF RequestInv
<1>13. CASE Disconnect
  <2>1. /\ inbox' = [q \in Calls |-> <<>>]
        /\ UNCHANGED <<kind, pc, sent, pending, reply, result>>
    BY <1>13 DEF Disconnect
  <2>2. 1..Len(<<>>) = {}
    OBVIOUS
  <2>3. Begun' = Begun /\ Underway' = {m \in Underway : m.to \notin Calls}
    BY <2>1, <2>2 DEF Begun, Underway, Messages
  <2>4. P!Lose(Calls)
    BY <2>1, <2>3 DEF P!Lose, Begun, Underway
  <2>5. P!Next
    BY <2>4 DEF P!Next
  <2>6. RequestInv'
    BY <2>1, <2>2 DEF RequestInv, SentOnce, AnsweredAtMostOnce
  <2> QED
    BY <2>5, <2>6
<1> QED
  BY <1>1, <1>2, <1>3, <1>4, <1>5, <1>6, <1>7, <1>8, <1>9, <1>10, <1>11, <1>12, <1>13
  DEF Next, Work

LEMMA RequestInvInit == Init => RequestInv /\ P!Init
<1> SUFFICES ASSUME Init PROVE RequestInv /\ P!Init
  OBVIOUS
<1>1. 1..Len(<<>>) = {}
  OBVIOUS
<1>2. Begun = {} /\ Underway = {}
  BY <1>1 DEF Init, Begun, Underway
<1>3. kind \in [Calls -> Kinds]
  BY DEF Init, Kinds, ServicesUtil
<1>4. P!Init
  BY <1>2, <1>3 DEF Init, P!Init, Begun, Underway
<1> QED
  BY <1>1, <1>4 DEF Init, RequestInv, SentOnce, AnsweredAtMostOnce

LEMMA RequestInvStep ==
  TypeInv /\ ReplyInv /\ RequestInv /\ [Next]_vars => RequestInv' /\ [P!Next]_(P!vars)
<1> SUFFICES ASSUME TypeInv, ReplyInv, RequestInv, [Next]_vars
             PROVE  RequestInv' /\ [P!Next]_(P!vars)
  OBVIOUS
<1>1. CASE UNCHANGED vars
  BY <1>1 DEF vars, RequestInv, SentOnce, AnsweredAtMostOnce, P!vars
<1> QED
  BY <1>1, RequestStep

LEMMA RequestInvAlways == Spec => []RequestInv
BY RequestInvInit, RequestInvStep, ReplyInvAlways, PTL DEF Spec

\* A call sends once at most, takes the answer to its own request or none, returns once
\* and for a reason that is so: however many calls interleave, answers are late and
\* connections fail.
THEOREM CallsImplementRequests == Spec => ImplementsRequests
BY RequestInvInit, RequestInvStep, ReplyInvAlways, PTL
DEF Spec, ImplementsRequests, P!Spec

-----------------------------------------------------------------------------
(* What ends the program                                                   *)

\* An exception of the library that is not caught is not caught as GiapiException.
LEMMA UncaughtIsUnnamed ==
  ASSUME NEW n \in Calls, NEW e \in Exceptions, Uncaught(n, e)
  PROVE  "GiapiException" \notin catches[n]
BY DEF Exceptions, HandlersOf, Uncaught, GiapiException, CommunicationException,
       GmpException, PostException, TimeoutException

\* While a call is under way its message is deleted only once it was sent.
DeletedSent == \A n \in Calls : pc[n] # "done" /\ deletes[n] > 0 => n \in sent

LEMMA DeletedSentStep ==
  ASSUME TypeInv, RequestInv, DeletedSent, [Next]_vars
  PROVE  DeletedSent'
<1> USE DEF Goto
<1>0. /\ deletes \in [Calls -> Nat] /\ pc \in [Calls -> Labels]
  BY DEF TypeInv, TypeOK
<1>1. ASSUME sent \subseteq sent', UNCHANGED deletes,
             \A n \in Calls : pc[n] = "done" => pc'[n] = "done"
      PROVE  DeletedSent'
  BY <1>1 DEF DeletedSent
<1>2. ASSUME NEW n \in Calls, n \in sent', sent \subseteq sent', NEW at, Deleted(n, at),
             \A m \in Calls : m # n => pc'[m] = pc[m]
      PROVE  DeletedSent'
  <2>1. \A m \in Calls : m # n => deletes'[m] = deletes[m]
    BY <1>0, <1>2 DEF Deleted
  <2> QED
    BY <1>2, <2>1 DEF DeletedSent
<1>3. ASSUME NEW n \in Calls, Catch(n), sent' = sent PROVE DeletedSent'
  <2>1. /\ pc'[n] = "done" /\ \A m \in Calls : m # n => pc'[m] = pc[m]
        /\ \A m \in Calls : m # n => deletes'[m] = deletes[m]
    BY <1>0, <1>3 DEF Catch, Ends
  <2> QED
    BY <1>3, <2>1 DEF DeletedSent
<1>4. ASSUME NEW n \in Calls, Terminate(n), sent' = sent PROVE DeletedSent'
  BY <1>1, <1>4 DEF Terminate
<1>5. ASSUME NEW n \in Calls, NEW c \in ProgramCalls, Call(n, c) PROVE DeletedSent'
  BY <1>0, <1>1, <1>5 DEF Call
<1>6. ASSUME NEW n \in Calls,
             \/ Instance(n) \/ InstanceThrows(n) \/ Reject(n) \/ CreateMessage(n)
             \/ CreateReplyQueue(n) \/ CreateConsumer(n) \/ Receive(n)
             \/ TakeReply(n) \/ ReceiveNothing(n) \/ FinishUnanswered(n)
      PROVE  DeletedSent'
  <2>1. /\ sent' = sent /\ UNCHANGED deletes /\ pc[n] # "done"
        /\ \A m \in Calls : m # n => pc'[m] = pc[m]
    BY <1>0, <1>6 DEF Instance, InstanceThrows, Reject, CreateMessage, CreateReplyQueue,
                CreateConsumer, Receive, TakeReply, ReceiveNothing, FinishUnanswered,
                Ends
  <2> QED
    BY <1>1, <2>1
<1>7. ASSUME NEW n \in Calls, Post(n) PROVE DeletedSent'
  BY <1>2, <1>7 DEF Post, Ends
<1>8. ASSUME NEW n \in Calls, Send(n) PROVE DeletedSent'
  BY <1>2, <1>8 DEF Send
<1>9. ASSUME NEW n \in Calls, DestroyQueue(n) PROVE DeletedSent'
  <2>1. n \in sent
    BY <1>9 DEF DestroyQueue, RequestInv, SentOnce
  <2> QED
    BY <1>2, <1>9, <2>1 DEF DestroyQueue
<1>10. ASSUME NEW n \in Calls, Throw(n) PROVE DeletedSent'
  BY <1>3, <1>4, <1>10 DEF Throw
<1>11. ASSUME NEW n \in Calls, FinishAnswered(n) PROVE DeletedSent'
  <2>1. CASE \E r \in Results : Ends(n, r) /\ UNCHANGED deletes
    BY <1>1, <1>11, <2>1 DEF FinishAnswered, Ends
  <2> QED
    BY <1>3, <1>4, <1>11, <2>1 DEF FinishAnswered
<1>12. ASSUME NEW n \in Calls, NEW c \in Contents, Answer(n, c) PROVE DeletedSent'
  BY <1>1, <1>12 DEF Answer
<1>13. CASE Disconnect \/ UNCHANGED vars
  BY <1>1, <1>13 DEF Disconnect, vars
<1> QED
  BY <1>5, <1>6, <1>7, <1>8, <1>9, <1>10, <1>11, <1>12, <1>13 DEF Next, Work

LEMMA SurvivesStep ==
  TypeInv /\ ReplyInv /\ DeletedSent /\ CarefulProgramSurvives /\ [Next]_vars
    => CarefulProgramSurvives'
<1> SUFFICES ASSUME TypeInv, ReplyInv, DeletedSent, CarefulProgramSurvives,
                    [Next]_vars, crashed'
             PROVE  CarefulProgramSurvives'
  BY DEF CarefulProgramSurvives
<1>0. /\ kind \in [Calls -> Kinds] /\ result \in [Calls -> Results \cup {None}]
      /\ deletes \in [Calls -> Nat]
      /\ reply \in [Calls -> Messages \cup {None}]
  BY DEF TypeInv, TypeOK
<1>1. CASE UNCHANGED vars
  BY <1>1 DEF vars, CarefulProgramSurvives, Detached
<1>2. ASSUME NEW n \in Calls, NEW e \in Exceptions, Ends(n, e), Uncaught(n, e),
             UNCHANGED catches
      PROVE  CarefulProgramSurvives'
  <2>1. result'[n] = e /\ "GiapiException" \notin catches'[n]
    BY <1>0, <1>2, UncaughtIsUnnamed DEF Ends
  <2> QED
    BY <2>1 DEF CarefulProgramSurvives
<1>3. ASSUME NEW n \in Calls, Throw(n) PROVE CarefulProgramSurvives'
  <2>1. CASE Detached(n)
    <3>1. kind' = kind /\ pc' = pc
      BY <1>3, <2>1 DEF Throw, Terminate, callVars
    <3>2. Detached(n)'
      BY <2>1, <3>1 DEF Detached
    <3> QED
      BY <3>2 DEF CarefulProgramSurvives
  <2>2. CASE ~Detached(n) /\ Catch(n)
    <3>1. /\ MethodOf[kind[n]].fails \in Exceptions
          /\ kind' = kind /\ sent' = sent /\ catches' = catches
          /\ Ends(n, MethodOf[kind[n]].fails) /\ pc[n] # "done"
      BY <1>0, <1>3, <2>2, MethodFacts DEF Throw, Catch, callVars, Exceptions, HandlersOf
    <3>2. CASE Uncaught(n, MethodOf[kind[n]].fails)
      BY <1>2, <3>1, <3>2
    <3>3. CASE pc[n] # "create" /\ deletes[n] > 0
      <4>1. deletes'[n] > 1
        BY <1>0, <2>2, <3>3 DEF Catch
      <4>2. n \in sent' /\ result'[n] = MethodOf[kind'[n]].fails
        BY <1>0, <3>1, <3>3 DEF DeletedSent, Ends
      <4> QED
        BY <4>1, <4>2 DEF CarefulProgramSurvives
    <3> QED
      BY <2>2, <3>2, <3>3 DEF Catch
  <2> QED
    BY <1>3, <2>1, <2>2 DEF Throw
<1>4. ASSUME NEW n \in Calls, InstanceThrows(n) PROVE CarefulProgramSurvives'
  <2>1. {"GmpException", "CommunicationException"} \subseteq Exceptions
    BY DEF Exceptions, HandlersOf
  <2> QED
    BY <1>2, <1>4, <2>1 DEF InstanceThrows, callVars
<1>5. ASSUME NEW n \in Calls, FinishUnanswered(n) PROVE CarefulProgramSurvives'
  BY <1>2, <1>5 DEF FinishUnanswered, callVars
<1>6. ASSUME NEW n \in Calls, FinishAnswered(n) PROVE CarefulProgramSurvives'
  <2>1. /\ kind[n] \in Kinds /\ reply[n] # None /\ reply' = reply
        /\ reply[n].content \in Contents
    BY <1>0, <1>6 DEF FinishAnswered, Messages
  <2>2. CASE reply[n].content \in {"malformed", "other"}
    BY <2>1, <2>2 DEF CarefulProgramSurvives
  <2>3. CASE reply[n].content \in {"good", "refused"}
    <3>1. \A r \in MethodOf[kind[n]].answers[reply[n].content] : r \in {"OK", "ERROR", "1"}
      BY <2>1, <2>3, AnswerFacts
    <3> QED
      BY <1>2, <1>6, <3>1 DEF FinishAnswered, callVars
  <2> QED
    BY <2>1, <2>2, <2>3 DEF Contents
\* The other steps leave the program running.
<1>7. ASSUME UNCHANGED crashed, ~crashed PROVE FALSE
  BY <1>7
<1>8. CASE Next
  <2>1. ~crashed
    BY <1>8 DEF Next
  <2>2. ASSUME NEW n \in Calls,
               \/ Instance(n) \/ Reject(n) \/ CreateMessage(n) \/ CreateReplyQueue(n)
               \/ CreateConsumer(n) \/ Post(n) \/ Send(n) \/ Receive(n)
               \/ TakeReply(n) \/ ReceiveNothing(n) \/ DestroyQueue(n)
        PROVE  crashed' = crashed
    BY <2>2 DEF Instance, Reject, CreateMessage, CreateReplyQueue, CreateConsumer,
                Post, Send, Receive, TakeReply, ReceiveNothing, DestroyQueue
  <2>3. ASSUME \/ \E n \in Calls, c \in ProgramCalls : Call(n, c)
               \/ \E n \in Calls, c \in Contents : Answer(n, c)
               \/ Disconnect
        PROVE  crashed' = crashed
    BY <2>3 DEF Call, Answer, Disconnect
  <2> QED
    BY <1>3, <1>4, <1>5, <1>6, <1>7, <1>8, <2>1, <2>2, <2>3 DEF Next, Work
<1> QED
  BY <1>1, <1>8

\* Whatever its calls throw, a program that catches GiapiException goes on, unless an
\* answer cannot be read, a detached thread throws, or the session fails a call after
\* its message was sent and deleted.
THEOREM CarefulProgramAlwaysSurvives == Spec => []CarefulProgramSurvives
<1>1. Init => CarefulProgramSurvives /\ DeletedSent
  BY DEF Init, CarefulProgramSurvives, DeletedSent
<1> QED
  BY <1>1, ReplyInvAlways, RequestInvAlways, DeletedSentStep, SurvivesStep, PTL DEF Spec
=============================================================================

---------------------------- MODULE RequestReply ----------------------------
(***************************************************************************)
(* The calls of ServicesUtil, DataUtil and GeminiUtil (see GiapiCalls) at  *)
(* work.  A call gets hold of the singleton behind its class, creates a    *)
(* message, sends it and, when it asks for something, waits for the answer *)
(* on a temporary queue, with or without a timeout, and frees what it      *)
(* created.                                                                *)
(*                                                                         *)
(* Call n of a behaviour is a process, so calls of several client threads  *)
(* interleave.  tcsApplyOffset with a callback ("notify") returns when the *)
(* request is sent and goes on in a detached thread.  The GMP answers when *)
(* it likes, so an answer may be late.  Any operation on a session may     *)
(* throw.  The connection may fail: the sessions that singletons have by   *)
(* then never work again, and a singleton made later works on the next     *)
(* connection.  An exception that the program around a call does not catch *)
(* ends the program.                                                       *)
(***************************************************************************)
EXTENDS GiapiCalls, Sequences

CONSTANTS
  MaxCalls, \* bound: calls in a behaviour
  None      \* no message, no result

Calls == 1..MaxCalls
Messages == [to: Calls, content: Contents]

ASSUME RequestReplyAssumption ==
  /\ MaxCalls \in Nat
  /\ None \notin Messages \cup Results \cup Calls

VARIABLES
  kind,     \* which call each call is
  timed,    \* calls with a timeout greater than 0
  flaws,    \* what is wrong with the arguments of each call
  catches,  \* the handlers the program has around each call
  session,  \* of each singleton: none yet, one that works, or a lost one
  pc,       \* what each call does next
  sent,     \* calls whose message was sent
  deletes,  \* how often the message of each call has been deleted
  queues,   \* the temporary queues that exist
  replyTo,  \* the queue each call waits on
  inbox,    \* the messages in each queue
  pending,  \* requests the GMP has yet to answer
  reply,    \* the message each call received
  result,   \* what each call returned, threw, or passed to its callback
  crashed   \* the program was terminated

vars == <<kind, timed, flaws, catches, session, pc, sent, deletes, queues, replyTo,
          inbox, pending, reply, result, crashed>>

callVars  == <<kind, timed, flaws, catches>>
queueVars == <<queues, replyTo, inbox>>

-----------------------------------------------------------------------------
Goto(n, label) == pc' = [pc EXCEPT ![n] = label]

Works(n) == session[Utility(kind[n])] = "open"

Init ==
  /\ kind = [n \in Calls |-> "property"]
  /\ timed = {}
  /\ flaws = [n \in Calls |-> {}]
  /\ catches = [n \in Calls |-> {}]
  /\ session = [u \in Utilities |-> "none"]
  /\ pc = [n \in Calls |-> "unused"]
  /\ sent = {}
  /\ deletes = [n \in Calls |-> 0]
  /\ queues = {}
  /\ replyTo = [n \in Calls |-> None]
  /\ inbox = [q \in Calls |-> <<>>]
  /\ pending = {}
  /\ reply = [n \in Calls |-> None]
  /\ result = [n \in Calls |-> None]
  /\ crashed = FALSE

\* A call ends with result r.
Ends(n, r) ==
  /\ result' = [result EXCEPT ![n] = r]
  /\ Goto(n, "done")

Uncaught(n, e) == HandlersOf[e] \cap catches[n] = {}

-----------------------------------------------------------------------------
(* The steps of a call                                                     *)

\* The calls of a behaviour are those of one program.
OfOneProgram(n, c) ==
  \E p \in Programs :
    /\ c \in p
    /\ \A m \in 1..(n - 1) :
         [kind |-> kind[m], timed |-> m \in timed, flaws |-> flaws[m],
          catches |-> catches[m]] \in p

Call(n, c) ==
  /\ pc[n] = "unused"
  /\ \A m \in Calls : m < n => pc[m] # "unused"
  /\ OfOneProgram(n, c)
  /\ kind' = [kind EXCEPT ![n] = c.kind]
  /\ timed' = IF c.timed THEN timed \cup {n} ELSE timed
  /\ flaws' = [flaws EXCEPT ![n] = c.flaws]
  /\ catches' = [catches EXCEPT ![n] = c.catches]
  /\ Goto(n, "instance")
  /\ UNCHANGED <<session, sent, deletes, queueVars, pending, reply, result, crashed>>

\* The singleton is made by the first call, with sessions of the connection that
\* is up at that time.
Instance(n) ==
  /\ pc[n] = "instance"
  /\ session' = [session EXCEPT ![Utility(kind[n])] = IF @ = "none" THEN "open" ELSE @]
  /\ Goto(n, "create")
  /\ UNCHANGED <<callVars, sent, deletes, queueVars, pending, reply, result, crashed>>

\* There is no connection and none can be made, or it fails while the sessions
\* are created.  A later call tries again.
InstanceThrows(n) ==
  /\ pc[n] = "instance"
  /\ session[Utility(kind[n])] = "none"
  /\ \E e \in {"GmpException", "CommunicationException"} :
       /\ Ends(n, e)
       /\ crashed' = Uncaught(n, e)
  /\ UNCHANGED <<callVars, session, sent, deletes, queueVars, pending, reply>>

Rejected(n) == flaws[n] \cap MethodOf[kind[n]].rejects # {}

Reject(n) ==
  /\ pc[n] = "create"
  /\ Rejected(n)
  /\ Ends(n, MethodOf[kind[n]].rejected)
  /\ UNCHANGED <<callVars, session, sent, deletes, queueVars, pending, reply, crashed>>

CreateMessage(n) ==
  /\ pc[n] = "create"
  /\ ~Rejected(n)
  /\ Works(n)
  /\ Goto(n, IF kind[n] \in OneWay THEN "send" ELSE "queue")
  /\ UNCHANGED <<callVars, session, sent, deletes, queueVars, pending, reply, result,
                 crashed>>

\* Mutation of TemporaryQueue: one queue for all the calls.
TemporaryQueueShared(n) == 1

\* The queue createTemporaryQueue makes has a name of its own.
TemporaryQueue(n) == n

CreateReplyQueue(n) ==
  /\ pc[n] = "queue"
  /\ Works(n)
  /\ queues' = queues \cup {TemporaryQueue(n)}
  /\ replyTo' = [replyTo EXCEPT ![n] = TemporaryQueue(n)]
  /\ Goto(n, "consumer")
  /\ UNCHANGED <<callVars, session, sent, deletes, inbox, pending, reply, result,
                 crashed>>

CreateConsumer(n) ==
  /\ pc[n] = "consumer"
  /\ Works(n)
  /\ Goto(n, "send")
  /\ UNCHANGED <<callVars, session, sent, deletes, queueVars, pending, reply, result,
                 crashed>>

\* Where the method deletes its message.
Deleted(n, at) ==
  deletes' = IF MethodOf[kind[n]].deletes = at
             THEN [deletes EXCEPT ![n] = @ + 1] ELSE deletes

Post(n) ==
  /\ pc[n] = "send"
  /\ kind[n] \in OneWay
  /\ Works(n)
  /\ sent' = sent \cup {n}
  /\ Deleted(n, "sent")
  /\ Ends(n, "OK")
  /\ UNCHANGED <<callVars, session, queueVars, pending, reply, crashed>>

Send(n) ==
  /\ pc[n] = "send"
  /\ kind[n] \notin OneWay
  /\ Works(n)
  /\ sent' = sent \cup {n}
  /\ pending' = pending \cup {n}
  /\ Deleted(n, "sent")
  /\ Goto(n, "receive")
  /\ UNCHANGED <<callVars, session, queueVars, reply, result, crashed>>

\* receive() waits on a consumer that is open.
Receive(n) ==
  /\ pc[n] = "receive"
  /\ Works(n)
  /\ Goto(n, "wait")
  /\ UNCHANGED <<callVars, session, sent, deletes, queueVars, pending, reply, result,
                 crashed>>

TakeReply(n) ==
  /\ pc[n] = "wait"
  /\ inbox[replyTo[n]] # <<>>
  /\ reply' = [reply EXCEPT ![n] = Head(inbox[replyTo[n]])]
  /\ inbox' = [inbox EXCEPT ![replyTo[n]] = Tail(@)]
  /\ Goto(n, "destroy")
  /\ UNCHANGED <<callVars, session, sent, deletes, queues, replyTo, pending, result,
                 crashed>>

\* Mutation of ReceiveNothing: the timeout is not passed on.
ReceiveNothingNever(n) ==
  /\ pc[n] = "wait"
  /\ ~Works(n)
  /\ Goto(n, "destroy")
  /\ UNCHANGED <<callVars, session, sent, deletes, queueVars, pending, reply, result,
                 crashed>>

\* Mutation of ReceiveNothing: without an answer the request is sent again.
ReceiveNothingRetries(n) ==
  /\ pc[n] = "wait"
  /\ n \in timed \/ ~Works(n)
  /\ Goto(n, "send")
  /\ UNCHANGED <<callVars, session, sent, deletes, queueVars, pending, reply, result,
                 crashed>>

\* receive() returns NULL: after the timeout, or because the session went away.
ReceiveNothing(n) ==
  /\ pc[n] = "wait"
  /\ n \in timed \/ ~Works(n)
  /\ Goto(n, "destroy")
  /\ UNCHANGED <<callVars, session, sent, deletes, queueVars, pending, reply, result,
                 crashed>>

\* Mutation of DestroyQueue: only a call that got an answer destroys its queue.
DestroyQueueIfAnswered(n) ==
  /\ pc[n] = "destroy"
  /\ Works(n)
  /\ queues' = IF reply[n] = None THEN queues ELSE queues \ {replyTo[n]}
  /\ Goto(n, "result")
  /\ UNCHANGED <<callVars, session, sent, deletes, replyTo, inbox, pending, reply,
                 result, crashed>>

\* Mutation of DestroyQueue: an exception is caught on the spot.
DestroyQueueQuietly(n) ==
  /\ pc[n] = "destroy"
  /\ queues' = queues \ {replyTo[n]}
  /\ Goto(n, "result")
  /\ UNCHANGED <<callVars, session, sent, deletes, replyTo, inbox, pending, reply,
                 result, crashed>>

\* The consumer is closed, which is nothing to do when the session is, and then
\* the queue destroyed, for which the connection is needed.
DestroyQueue(n) ==
  /\ pc[n] = "destroy"
  /\ Works(n)
  /\ queues' = queues \ {replyTo[n]}
  /\ inbox' = [inbox EXCEPT ![replyTo[n]] = <<>>]
  /\ Deleted(n, "answered")
  /\ Goto(n, "result")
  /\ UNCHANGED <<callVars, session, sent, replyTo, pending, reply, result, crashed>>

\* The handler of a CMSException deletes the message if the pointer is not null,
\* and nothing else: a queue and its consumer stay.  The pointer is never set to
\* null, and deleting twice may or may not end the program.
Catch(n) ==
  /\ deletes' = IF pc[n] = "create" THEN deletes ELSE [deletes EXCEPT ![n] = @ + 1]
  /\ Ends(n, MethodOf[kind[n]].fails)
  /\ \/ crashed' = Uncaught(n, MethodOf[kind[n]].fails)
     \/ pc[n] # "create" /\ deletes[n] > 0 /\ crashed' = TRUE

\* A detached thread has no handler.
Detached(n) == kind[n] = "notify" /\ pc[n] \in {"receive", "wait", "destroy", "result"}

Terminate(n) ==
  /\ crashed' = TRUE
  /\ UNCHANGED <<pc, deletes, result>>

\* Any operation on a session may throw, and does when the session is lost.
Throw(n) ==
  /\ pc[n] \in {"create", "queue", "consumer", "send", "receive", "destroy"}
  /\ pc[n] = "create" => ~Rejected(n)
  /\ IF Detached(n) THEN Terminate(n) ELSE Catch(n)
  /\ UNCHANGED <<callVars, session, sent, queueVars, pending, reply>>

FinishUnanswered(n) ==
  /\ pc[n] = "result"
  /\ reply[n] = None
  /\ LET r == MethodOf[kind[n]].unanswered
     IN /\ Ends(n, r)
        /\ crashed' = (r \in Exceptions /\ Uncaught(n, r))
  /\ UNCHANGED <<callVars, session, sent, deletes, queueVars, pending, reply>>

FinishAnswered(n) ==
  /\ pc[n] = "result"
  /\ reply[n] # None
  /\ \E r \in MethodOf[kind[n]].answers[reply[n].content] :
       \/ r = "CMSException" /\ Catch(n)
       \/ r = "crash" /\ Terminate(n)
       \/ /\ r \in Results
          /\ Ends(n, r)
          /\ crashed' = (r \in Exceptions /\ Uncaught(n, r))
          /\ UNCHANGED deletes
  /\ UNCHANGED <<callVars, session, sent, queueVars, pending, reply>>

-----------------------------------------------------------------------------
(* The GMP and the connection                                              *)

\* The GMP answers a request, however late; without the queue the answer is lost.
Answer(n, c) ==
  /\ n \in pending
  /\ Works(n)
  /\ MethodOf[kind[n]].answers[c] # {}
  /\ pending' = pending \ {n}
  /\ inbox' = IF replyTo[n] \in queues
              THEN [inbox EXCEPT ![replyTo[n]] = Append(@, [to |-> n, content |-> c])]
              ELSE inbox
  /\ UNCHANGED <<callVars, session, pc, sent, deletes, queues, replyTo, reply, result,
                 crashed>>

\* The sessions of the connection are disposed: their consumers drop their
\* messages, and its temporary queues go away.
Disconnect ==
  /\ \E u \in Utilities : session[u] = "open"
  /\ session' = [u \in Utilities |-> IF session[u] = "open" THEN "lost" ELSE session[u]]
  /\ queues' = {}
  /\ inbox' = [q \in Calls |-> <<>>]
  /\ UNCHANGED <<callVars, pc, sent, deletes, replyTo, pending, reply, result, crashed>>

-----------------------------------------------------------------------------
Work(n) ==
  \/ Instance(n) \/ InstanceThrows(n)
  \/ Reject(n)
  \/ CreateMessage(n)
  \/ CreateReplyQueue(n)
  \/ CreateConsumer(n)
  \/ Post(n)
  \/ Send(n)
  \/ Receive(n)
  \/ TakeReply(n)
  \/ ReceiveNothing(n)
  \/ DestroyQueue(n)
  \/ Throw(n)
  \/ FinishUnanswered(n) \/ FinishAnswered(n)

\* A program that was terminated takes no step any more.
Next ==
  /\ ~crashed
  /\ \/ \E n \in Calls, c \in ProgramCalls : Call(n, c)
     \/ \E n \in Calls : Work(n)
     \/ \E n \in Calls, c \in Contents : Answer(n, c)
     \/ Disconnect

Spec == Init /\ [][Next]_vars

\* The threads run and timeouts expire; the GMP need not answer.
Fairness == \A n \in Calls : WF_vars(~crashed /\ Work(n))

FairSpec == Spec /\ Fairness

-----------------------------------------------------------------------------
(* Properties                                                              *)

Labels == {"unused", "instance", "create", "queue", "consumer", "send", "receive",
           "wait", "destroy", "result", "done"}

\* Every variable keeps its type.
TypeOK ==
  /\ kind \in [Calls -> Kinds]
  /\ timed \subseteq Calls
  /\ flaws \in [Calls -> SUBSET Flaws]
  /\ catches \in [Calls -> SUBSET Exceptions]
  /\ session \in [Utilities -> {"none", "open", "lost"}]
  /\ pc \in [Calls -> Labels]
  /\ sent \subseteq Calls
  /\ deletes \in [Calls -> Nat]
  /\ queues \subseteq Calls
  /\ replyTo \in [Calls -> Calls \cup {None}]
  /\ inbox \in [Calls -> Seq(Messages)]
  /\ pending \subseteq Calls
  /\ reply \in [Calls -> Messages \cup {None}]
  /\ result \in [Calls -> Results \cup {None}]
  /\ crashed \in BOOLEAN

\* A call never takes the late answer to another request, sent by another thread
\* or by a call that timed out, for its own.
OwnAnswer == \A n \in Calls : reply[n] # None => reply[n].to = n

\* A call that is over leaves its temporary queue behind only if it failed by an
\* exception of its session, and never when it was answered or timed out.
QueuesReleased ==
  \A n \in Calls :
    pc[n] = "done" /\ replyTo[n] \in queues => result[n] = MethodOf[kind[n]].fails

\* "If not specified, the call will block until the GMP replies back": a call
\* without a timeout reports no timeout, though receive() returns NULL to it when
\* the connection fails.
UntimedNeverTimesOut ==
  \A n \in Calls : result[n] = "TimeoutException" => n \in timed

\* "No message was sent to GMP": nothing with a blank name or label, or without
\* values, is ever sent, and a call that is over has sent its message if and only
\* if it said so; a log message of an unknown level is dropped without a word.
\* (obsevent.cpp, line 61)
PostsAsReported ==
  \A n \in Calls :
    kind[n] \in OneWay =>
      /\ n \in sent => flaws[n] = {}
      /\ pc[n] = "done" /\ "level" \notin flaws[n] => (n \in sent <=> result[n] = "OK")

\* A program whose handlers catch GiapiException survives its calls, whatever they
\* throw, unless an answer cannot be read, a detached thread has nobody to throw to,
\* or a message is deleted twice, by a call whose session failed it after the send.
CarefulProgramSurvives ==
  crashed =>
    \E n \in Calls :
      \/ deletes[n] > 1 /\ n \in sent /\ result[n] = MethodOf[kind[n]].fails
      \/ Detached(n)
      \/ reply[n] # None /\ reply[n].content \in {"malformed", "other"}
      \/ result[n] \in Exceptions /\ "GiapiException" \notin catches[n]

\* A call with a timeout returns, and so does one that has been answered or whose
\* connection failed, unless the program is terminated.
CallReturns ==
  \A n \in Calls :
    pc[n] = "wait" /\ (n \in timed \/ inbox[replyTo[n]] # <<>> \/ ~Works(n))
      ~> pc[n] = "done" \/ crashed

\* To the program that makes it a call is what Requests describes, however calls of
\* several threads interleave, whatever is late and whenever the connection fails.
P == INSTANCE Requests WITH
       Failures <- Exceptions \ {"TimeoutException"},
       begun    <- {n \in Calls : pc[n] # "unused"},
       underway <- {m \in Messages :
                      \E q \in Calls : \E i \in 1..Len(inbox[q]) : inbox[q][i] = m}

ImplementsRequests == P!Spec

\* "status::OK if the offset was applied properly": 0 is not returned for an offset
\* that was refused.  (GeminiUtil.h, line 101)
OffsetReported ==
  \A n \in Calls :
    kind[n] = "offset" /\ result[n] = "OK" => reply[n].content # "refused"
=============================================================================

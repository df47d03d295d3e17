------------------------- MODULE ConnectionManager -------------------------
(***************************************************************************)
(* gmp::ConnectionManager, the singleton through which every part of the   *)
(* library reaches the GMP broker.  Client threads call Instance() and     *)
(* then createSession() or one of the register operations; the transport   *)
(* thread of a connection whose transport fails calls onException(), which *)
(* drops the connection, re-establishes it and runs the error handlers.    *)
(* Nothing in the class is locked, so all these calls interleave.          *)
(*                                                                         *)
(* A connection object is a member of Conns, taken from the pool by        *)
(* createConnection and returned to it when the object is destroyed.       *)
(* _connection is a std::tr1::shared_ptr: startup() makes the new object   *)
(* first, reset() swaps it in, and the object _connection held until then  *)
(* is destroyed after that, which closes it and its sessions.  An          *)
(* invocation of onException is a process of Recoveries.  Error handlers   *)
(* are numbers: a std::set iterates over them in the order of their keys.  *)
(***************************************************************************)
EXTENDS Naturals, FiniteSets

CONSTANTS
  Threads,          \* the client threads
  Recoveries,       \* the transport threads inside onException
  Conns,            \* the pool of connection objects
  None,             \* the null pointer
  Functions,        \* handlers given as functions, by key
  Objects,          \* handlers given as objects, by key
  ThrowingHandlers, \* the handlers whose invocation throws
  MaxFailures       \* bound: how many transport failures a behaviour has

FunctionHandlers == {"function"} \X Functions
ObjectHandlers   == {"object"} \X Objects
Handlers         == FunctionHandlers \cup ObjectHandlers

ASSUME ConnectionManagerAssumption ==
  /\ Threads \cap Recoveries = {}
  /\ None \notin Conns
  /\ Functions \subseteq Nat \ {0}
  /\ Objects \subseteq Nat \ {0}
  /\ ThrowingHandlers \subseteq Handlers
  /\ MaxFailures \in Nat

\* No name runs out: every failure may have its onException, and beside the
\* connection in place every process may own another one.
ASSUME PoolAssumption ==
  /\ IsFiniteSet(Threads) /\ IsFiniteSet(Recoveries) /\ IsFiniteSet(Conns)
  /\ Cardinality(Recoveries) >= MaxFailures
  /\ Cardinality(Conns) > Cardinality(Threads) + Cardinality(Recoveries)

Procs == Threads \cup Recoveries

VARIABLES
  connection, \* _connection, shared by everybody
  temp,       \* the object a process inside reset(), or about to call it, owns:
              \* the one it made before the swap, the one it replaced after it
  state,      \* life cycle of each connection object
  listening,  \* connections whose exception listener is the manager
  failed,     \* connections whose transport failed
  dead,       \* those of them that failed with nobody listening
  session,    \* the connection on which a thread's open session lives
  lost,       \* history: threads whose session died on a connection startup()
              \* completed for, with no error handlers run since
  registered, \* _errorHandlersFunctions and _errorHandlerObjects
  pc,         \* what each process does next
  iter,       \* the key an onException's iterator visited last
  before,     \* history: handlers registered when onException was called
  invoked,    \* history: handlers an onException has invoked
  failures,   \* number of transport failures so far
  crashed     \* a null pointer was dereferenced

vars == <<connection, temp, state, listening, failed, dead, session, lost,
          registered, pc, iter, before, invoked, failures, crashed>>

connVars     == <<connection, temp, state, listening, failed, dead>>
sessionVars  == <<session, lost>>
recoveryVars == <<iter, before, invoked>>

-----------------------------------------------------------------------------
Goto(p, label) == pc' = [pc EXCEPT ![p] = label]

\* -> on the null pointer ends the program.
Crash ==
  /\ crashed' = TRUE
  /\ UNCHANGED <<connVars, sessionVars, registered, pc, recoveryVars,
                 failures>>

\* Mutation of DisposeSessions: closing a connection ends every session.
DisposeAllSessions(c) ==
  /\ session' = [t \in Threads |-> None]
  /\ lost' = lost

\* The sessions open on connection c do not work any more.
DisposeSessions(c) ==
  LET owners == {t \in Threads : session[t] = c} IN
  /\ session' = [t \in Threads |-> IF t \in owners THEN None ELSE session[t]]
  /\ lost' = IF c \in listening THEN lost \cup owners ELSE lost

\* The swap of _connection.reset(): p gives the object it made, or the null
\* pointer, and gets the one that was in place, which it has to close.
ResetConnection(p, closing, done) ==
  /\ connection' = temp[p]
  /\ temp' = [temp EXCEPT ![p] = connection]
  /\ Goto(p, IF connection = None THEN done ELSE closing)
  /\ UNCHANGED <<state, listening, failed, dead, sessionVars, registered,
                 recoveryVars, failures, crashed>>

\* Mutation of DestroyConnection: a raw pointer, the old object is leaked.
DestroyConnectionLeaks(p, done) ==
  /\ temp' = [temp EXCEPT ![p] = None]
  /\ Goto(p, done)
  /\ UNCHANGED <<connection, state, listening, failed, dead, sessionVars,
                 registered, recoveryVars, failures, crashed>>

\* The end of _connection.reset(): the object that was replaced is closed and
\* deleted, and its sessions with it.
DestroyConnection(p, done) ==
  LET old == temp[p] IN
  /\ temp' = [temp EXCEPT ![p] = None]
  /\ state' = [state EXCEPT ![old] = "free"]
  /\ listening' = listening \ {old}
  /\ failed' = failed \ {old}
  /\ dead' = dead \ {old}
  /\ DisposeSessions(old)
  /\ Goto(p, done)
  /\ UNCHANGED <<connection, registered, recoveryVars, failures, crashed>>

-----------------------------------------------------------------------------
Init ==
  /\ connection = None
  /\ temp = [p \in Procs |-> None]
  /\ state = [c \in Conns |-> "free"]
  /\ listening = {}
  /\ failed = {}
  /\ dead = {}
  /\ session = [t \in Threads |-> None]
  /\ lost = {}
  /\ registered = {}
  /\ pc = [p \in Procs |-> "idle"]
  /\ iter = [r \in Recoveries |-> 0]
  /\ before = [r \in Recoveries |-> {}]
  /\ invoked = [r \in Recoveries |-> {}]
  /\ failures = 0
  /\ crashed = FALSE

-----------------------------------------------------------------------------
(* Instance() and what the client calls it for                             *)

\* A client thread calls Instance(), to open a session or to register a handler:
\* it goes through startup() when there is no connection object, and straight on
\* otherwise.
Instance(t) ==
  /\ pc[t] = "idle"
  /\ session[t] = None \/ Handlers # {}
  /\ Goto(t, IF connection = None THEN "create" ELSE "body")
  /\ UNCHANGED <<connVars, sessionVars, registered, recoveryVars, failures,
                 crashed>>

\* createSession() on whatever _connection points at by now.
CreateSession(t) ==
  /\ pc[t] = "body"
  /\ session[t] = None
  /\ \/ /\ connection = None
        /\ Crash
     \/ /\ connection # None
        /\ Goto(t, "idle")
        /\ \/ /\ connection \notin failed
              /\ session' = [session EXCEPT ![t] = connection]
           \/ UNCHANGED session  \* CMSException
        /\ UNCHANGED <<connVars, lost, registered, recoveryVars, failures,
                       crashed>>

\* cleanup() of the consumer or producer that owns the session closes it.
CloseSession(t) ==
  /\ pc[t] = "idle"
  /\ session[t] # None
  /\ session' = [session EXCEPT ![t] = None]
  /\ UNCHANGED <<connVars, lost, registered, pc, recoveryVars, failures,
                 crashed>>

\* registerOperation and registerHandler: inserting into a set.
RegisterHandler(t, h) ==
  /\ pc[t] = "body"
  /\ registered' = registered \cup {h}
  /\ Goto(t, "idle")
  /\ UNCHANGED <<connVars, sessionVars, recoveryVars, failures, crashed>>

-----------------------------------------------------------------------------
(* startup(), run by a client thread in Instance() or by onException       *)

\* Mutations of Caught: the loop does not survive a failed attempt; a client
\* waits and tries again too.
CaughtGivesUp(p) == "idle"
CaughtWaits(p)   == "await"

\* Where a GmpException thrown by startup() ends: the client gets it, the
\* reconnection loop waits and tries again.
Caught(p) == IF p \in Threads THEN "idle" ELSE "await"

StartupFails(p) ==
  /\ Goto(p, Caught(p))
  /\ UNCHANGED <<connVars, sessionVars, registered, recoveryVars,
                 failures, crashed>>

\* The objects of the pool that are no connection.
Unused == {c \in Conns : state[c] = "free"}

\* createConnection() returns a new object, which only this process knows.
CreateConnection(p) ==
  /\ pc[p] = "create"
  /\ Unused # {}
  /\ LET new == CHOOSE c \in Unused : TRUE IN
       /\ temp' = [temp EXCEPT ![p] = new]
       /\ state' = [state EXCEPT ![new] = "stopped"]
  /\ Goto(p, "swap")
  /\ UNCHANGED <<connection, listening, failed, dead, sessionVars, registered,
                 recoveryVars, failures, crashed>>

ReplaceConnection(p) == pc[p] = "swap" /\ ResetConnection(p, "dispose", "start")

CloseReplaced(p) == pc[p] = "dispose" /\ DestroyConnection(p, "start")

CreateConnectionThrows(p) ==
  /\ pc[p] = "create"
  /\ StartupFails(p)

\* Mutation of StartConnection: startup() returns without its last line.
StartConnectionUnheard(p) ==
  /\ pc[p] = "start"
  /\ connection # None
  /\ connection \notin dead
  /\ state' = [state EXCEPT ![connection] = "started"]
  /\ Goto(p, IF p \in Threads THEN "body" ELSE "functions")
  /\ UNCHANGED <<connection, temp, listening, failed, dead, sessionVars,
                 registered, recoveryVars, failures, crashed>>

\* start() acts on the shared pointer, not on the object this process made.
StartConnection(p) ==
  /\ pc[p] = "start"
  /\ connection # None
  /\ connection \notin dead
  /\ state' = [state EXCEPT ![connection] = "started"]
  /\ Goto(p, "listen")
  /\ UNCHANGED <<connection, temp, listening, failed, dead, sessionVars,
                 registered, recoveryVars, failures, crashed>>

StartConnectionThrows(p) ==
  /\ pc[p] = "start"
  /\ \/ connection = None /\ Crash
     \/ connection # None /\ StartupFails(p)

\* After setExceptionListener startup() returns: a client goes on with its
\* onException starts running the handlers.
SetExceptionListener(p) ==
  /\ pc[p] = "listen"
  /\ \/ /\ connection = None
        /\ Crash
     \/ /\ connection # None
        /\ listening' = listening \cup {connection}
        /\ IF p \in Threads
             THEN Goto(p, "body") /\ UNCHANGED lost
             ELSE Goto(p, "functions") /\ lost' = {}
        /\ UNCHANGED <<connection, temp, state, failed, dead, session,
                       registered, recoveryVars, failures, crashed>>

-----------------------------------------------------------------------------
(* Transport failures and onException()                                    *)

\* The transport of c fails, and its sessions with it.  With a listener
\* installed its transport thread enters onException; without one every call
\* on the connection throws from now on.
TransportFails(c) ==
  /\ failures < MaxFailures
  /\ state[c] # "free"
  /\ c \notin failed
  /\ failures' = failures + 1
  /\ failed' = failed \cup {c}
  /\ DisposeSessions(c)
  /\ \/ /\ c \in listening
        /\ \E r \in Recoveries :
             /\ pc[r] = "idle"
             /\ Goto(r, "test")
             /\ before' = [before EXCEPT ![r] = registered]
        /\ UNCHANGED dead
     \/ /\ c \notin listening
        /\ dead' = dead \cup {c}
        /\ UNCHANGED <<pc, before>>
  /\ UNCHANGED <<connection, temp, state, listening, registered, iter,
                 invoked, crashed>>

\* onException returns: nothing of its local state survives.
Return(r) ==
  /\ Goto(r, "idle")
  /\ iter' = [iter EXCEPT ![r] = 0]
  /\ before' = [before EXCEPT ![r] = {}]
  /\ invoked' = [invoked EXCEPT ![r] = {}]

\* onException stops the connection only if there is one at this point.
TestConnection(r) ==
  /\ pc[r] = "test"
  /\ Goto(r, IF connection = None THEN "reset" ELSE "stop")
  /\ UNCHANGED <<connVars, sessionVars, registered, recoveryVars,
                 failures, crashed>>

\* stop() acts on whatever _connection points at by now; it throws on a dead
\* connection, and the exception leaves onException with nothing done.
StopConnection(r) ==
  /\ pc[r] = "stop"
  /\ \/ /\ connection = None
        /\ Crash
     \/ /\ connection # None
        /\ IF connection \in dead
             THEN Return(r) /\ UNCHANGED state
             ELSE /\ state' = [state EXCEPT ![connection] = "stopped"]
                  /\ Goto(r, "reset")
                  /\ UNCHANGED recoveryVars
        /\ UNCHANGED <<connection, temp, listening, failed, dead, sessionVars,
                       registered, failures, crashed>>

DropConnection(r) == pc[r] = "reset" /\ ResetConnection(r, "release", "await")

CloseDropped(r) == pc[r] = "release" /\ DestroyConnection(r, "await")

\* Mutation of AwaitRetry: await() without a timeout.
AwaitRetryForever(r) == pc[r] = "await" /\ UNCHANGED vars

\* The latch is never counted down: await ends with its timeout, after which
\* the loop calls startup().
AwaitRetry(r) ==
  /\ pc[r] = "await"
  /\ Goto(r, "create")
  /\ UNCHANGED <<connVars, sessionVars, registered, recoveryVars,
                 failures, crashed>>

\* The handlers of one kind a std::set iterator has not reached yet.
Ahead(r, kind) ==
  {n \in {h[2] : h \in {g \in registered : g[1] = kind}} : n > iter[r]}

\* Invoke the handler with the smallest key ahead; a handler that throws ends
\* onException.
InvokeNext(r, kind) ==
  \E n \in Ahead(r, kind) :
    /\ \A m \in Ahead(r, kind) : n <= m
    /\ IF <<kind, n>> \in ThrowingHandlers
         THEN Return(r)
         ELSE /\ iter' = [iter EXCEPT ![r] = n]
              /\ invoked' = [invoked EXCEPT ![r] = @ \cup {<<kind, n>>}]
              /\ UNCHANGED <<pc, before>>

\* Mutation of InvokeFunction: one iterator for both sets.
InvokeFunctionKeepsIter(r) ==
  /\ pc[r] = "functions"
  /\ \/ InvokeNext(r, "function")
     \/ /\ Ahead(r, "function") = {}
        /\ Goto(r, "objects")
        /\ UNCHANGED recoveryVars
  /\ UNCHANGED <<connVars, sessionVars, registered, failures, crashed>>

InvokeFunction(r) ==
  /\ pc[r] = "functions"
  /\ \/ InvokeNext(r, "function")
     \/ /\ Ahead(r, "function") = {}
        /\ Goto(r, "objects")
        /\ iter' = [iter EXCEPT ![r] = 0]
        /\ UNCHANGED <<before, invoked>>
  /\ UNCHANGED <<connVars, sessionVars, registered, failures, crashed>>

InvokeObject(r) ==
  /\ pc[r] = "objects"
  /\ \/ InvokeNext(r, "object")
     \/ Ahead(r, "object") = {} /\ Return(r)
  /\ UNCHANGED <<connVars, sessionVars, registered, failures, crashed>>

-----------------------------------------------------------------------------
Startup(p) ==
  \/ CreateConnection(p)
  \/ CreateConnectionThrows(p)
  \/ ReplaceConnection(p)
  \/ CloseReplaced(p)
  \/ StartConnection(p)
  \/ StartConnectionThrows(p)
  \/ SetExceptionListener(p)

Client(t) ==
  \/ Instance(t)
  \/ CreateSession(t)
  \/ CloseSession(t)
  \/ \E h \in Handlers : RegisterHandler(t, h)

onException(r) ==
  \/ TestConnection(r)
  \/ StopConnection(r)
  \/ DropConnection(r)
  \/ CloseDropped(r)
  \/ AwaitRetry(r)
  \/ InvokeFunction(r)
  \/ InvokeObject(r)

\* A crashed program takes no step any more.
Next ==
  \/ /\ ~crashed
     /\ \/ \E t \in Threads : Client(t)
        \/ \E p \in Procs : Startup(p)
        \/ \E c \in Conns : TransportFails(c)
        \/ \E r \in Recoveries : onException(r)
  \/ crashed /\ UNCHANGED vars

Spec == Init /\ [][Next]_vars

\* The transport thread keeps running: calls on a connection return, await()
\* times out, and a broker that is tried again and again is reached in the end.
Fairness ==
  \A r \in Recoveries :
    /\ WF_vars(~crashed /\ (Startup(r) \/ onException(r)))
    /\ SF_vars(~crashed /\ CreateConnection(r))
    /\ SF_vars(~crashed /\ StartConnection(r))

FairSpec == Spec /\ Fairness

-----------------------------------------------------------------------------
(* Properties                                                              *)

StartupLabels  == {"create", "swap", "dispose", "start", "listen"}
ClientLabels   == {"idle", "body"} \cup StartupLabels
RecoveryLabels == {"idle", "test", "stop", "reset", "release", "await",
                   "functions", "objects"} \cup StartupLabels

\* Every variable keeps its type.  In particular no client thread ever enters
\* the reconnection loop, in which onException alone waits and tries again.
TypeOK ==
  /\ connection \in Conns \cup {None}
  /\ temp \in [Procs -> Conns \cup {None}]
  /\ state \in [Conns -> {"free", "stopped", "started"}]
  /\ listening \subseteq Conns
  /\ failed \subseteq Conns
  /\ dead \subseteq failed
  /\ session \in [Threads -> Conns \cup {None}]
  /\ lost \subseteq Threads
  /\ registered \subseteq Handlers
  /\ pc \in [Procs -> ClientLabels \cup RecoveryLabels]
  /\ \A t \in Threads : pc[t] \in ClientLabels
  /\ \A r \in Recoveries : pc[r] \in RecoveryLabels
  /\ iter \in [Recoveries -> Nat]
  /\ before \in [Recoveries -> SUBSET Handlers]
  /\ invoked \in [Recoveries -> SUBSET Handlers]
  /\ failures \in Nat
  /\ crashed \in BOOLEAN

\* A process that is destroying the connection it replaced or dropped.
Closing(p) == pc[p] \in {"dispose", "release"}

\* Whatever threads race in startup() and onException(), no connection object is
\* leaked and none is deleted twice or while _connection points at it: the
\* objects that exist are the one in place and, each owned by one process, those
\* about to be put in place or being closed.  A session that works is one of the
\* connection in place or of one that is being closed.
ConnectionsOwned ==
  /\ \A c \in Conns :
       state[c] # "free" <=> c = connection \/ \E p \in Procs : temp[p] = c
  /\ \A p \in Procs : temp[p] # None =>
       temp[p] # connection /\ \A q \in Procs : temp[q] = temp[p] => q = p
  /\ \A t \in Threads : session[t] # None =>
       /\ session[t] \notin failed
       /\ \/ session[t] = connection
          \/ \E p \in Procs : Closing(p) /\ temp[p] = session[t]

\* To those who open sessions the manager is what Sessions describes, whatever
\* threads race in startup() and onException(): they are opened on the connection
\* in place while it works, and end by their own hand or with that connection,
\* which may be some time after it was replaced.
S == INSTANCE Sessions WITH Owners <- Threads,
       current <- IF connection \in failed THEN None ELSE connection,
       home <- session

ImplementsSessions == S!Spec

\* startup() installs the listener last.  However many processes run startup() at
\* once and whichever connection each made, a started connection that nobody
\* listens to is being closed, or some process is about to install the listener
\* on the connection in place.
ListenerInstalled ==
  \A c \in Conns : state[c] = "started" /\ c \notin listening =>
    \/ c = connection /\ \E p \in Procs : pc[p] = "listen"
    \/ \E p \in Procs : Closing(p) /\ temp[p] = c

\* A process that will run the error handlers, and has not begun to.
Recovering(r) ==
  pc[r] \in {"test", "stop", "reset", "release", "await"} \cup StartupLabels

\* The client of a program with one client thread, if its session died on a
\* connection startup() completed for (it failed, or an onException replaced it),
\* will be told: some onException that has yet to run the error handlers is under
\* way.  Two client threads may replace each other's connection unannounced.
SessionLossAnnounced ==
  lost # {} => crashed \/ \E r \in Recoveries : Recovering(r)

\* Once the connection is re-established, all the handlers that were registered
\* when the problem was found are invoked before onException returns.
AllHandlersInvoked ==
  [][\A r \in Recoveries :
       pc[r] \in {"functions", "objects"} /\ pc'[r] = "idle"
         => before[r] \subseteq invoked[r]]_vars

\* An onException that is past stop() re-establishes the connection and gets to
\* the handlers, whatever fails or is replaced meanwhile, unless the program
\* crashes.  One whose stop() throws, because the connection that is in place by
\* then has failed as well, leaves the recovery undone.
RecoverySucceeds ==
  \A r \in Recoveries : pc[r] = "reset" ~> (pc[r] = "functions" \/ crashed)

\* "When a communication problem to the GMP is found, the GIAPI library will
\* attempt to restore the connection": a started connection that failed is not
\* left in place with nobody inside startup() or onException().  (GiapiUtil.h,
\* line 28)
FailureIsHandled ==
  \A c \in failed : state[c] = "started" => \E p \in Procs : pc[p] # "idle"
============================================================================

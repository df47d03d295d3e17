---------------------- MODULE ConnectionManager_proofs ----------------------
(***************************************************************************)
(* Proofs about ConnectionManager, for every set of threads, connections   *)
(* and handlers and every number of failures.                              *)
(***************************************************************************)
EXTENDS ConnectionManager, TLAPS

-----------------------------------------------------------------------------
(* Lemmas about the helpers                                                *)

\* A connection taken from the pool is one of its objects that does not exist.
LEMMA UnusedIsConn ==
  ASSUME Unused # {}
  PROVE  /\ (CHOOSE c \in Unused : TRUE) \in Conns
         /\ state[CHOOSE c \in Unused : TRUE] = "free"
<1>1. (CHOOSE c \in Unused : TRUE) \in Unused
  OBVIOUS
<1> QED
  BY <1>1 DEF Unused

\* createConnection() takes such an object; nobody else knows it.
LEMMA CreateConnectionEffect ==
  ASSUME NEW p \in Procs, CreateConnection(p)
  PROVE  /\ pc[p] = "create" /\ Goto(p, "swap")
         /\ \E new \in Conns : /\ state[new] = "free"
                             /\ temp' = [temp EXCEPT ![p] = new]
                             /\ state' = [state EXCEPT ![new] = "stopped"]
         /\ UNCHANGED <<connection, listening, failed, dead, sessionVars, registered,
                        recoveryVars, failures, crashed>>
<1>1. PICK new : new = (CHOOSE c \in Unused : TRUE)
  OBVIOUS
<1>2. /\ Unused # {}
      /\ temp' = [temp EXCEPT ![p] = new]
      /\ state' = [state EXCEPT ![new] = "stopped"]
  BY <1>1 DEF CreateConnection
<1>3. new \in Conns /\ state[new] = "free"
  BY <1>1, <1>2, UnusedIsConn
<1> QED
  BY <1>2, <1>3 DEF CreateConnection

\* Destroying a connection keeps the types of what it changes.
LEMMA DestroyConnectionType ==
  ASSUME TypeOK, NEW p \in Procs, NEW done, DestroyConnection(p, done)
  PROVE  /\ temp' \in [Procs -> Conns \cup {None}]
         /\ state' \in [Conns -> {"free", "stopped", "started"}]
         /\ listening' \subseteq Conns /\ failed' \subseteq Conns
         /\ dead' \subseteq failed'
         /\ session' \in [Threads -> Conns \cup {None}]
         /\ lost' \subseteq Threads
         /\ UNCHANGED <<connection, registered, recoveryVars, failures, crashed>>
<1>1. temp' \in [Procs -> Conns \cup {None}]
  BY DEF DestroyConnection, TypeOK
<1>2. state' \in [Conns -> {"free", "stopped", "started"}]
  BY DEF DestroyConnection, TypeOK
<1>3. /\ listening' \subseteq Conns /\ failed' \subseteq Conns
      /\ dead' \subseteq failed'
  BY DEF DestroyConnection, TypeOK
<1>4. session' \in [Threads -> Conns \cup {None}] /\ lost' \subseteq Threads
  BY DEF DestroyConnection, DisposeSessions, TypeOK
<1> QED
  BY <1>1, <1>2, <1>3, <1>4 DEF DestroyConnection

-----------------------------------------------------------------------------
(* Type correctness                                                        *)

\* Each process stays within its own labels: a move to one of them keeps the type
\* of pc.
PcOK ==
  /\ pc \in [Procs -> ClientLabels \cup RecoveryLabels]
  /\ \A t \in Threads : pc[t] \in ClientLabels
  /\ \A r \in Recoveries : pc[r] \in RecoveryLabels

LEMMA GotoType ==
  ASSUME PcOK, NEW p \in Procs, NEW label, Goto(p, label),
         p \in Threads => label \in ClientLabels,
         p \in Recoveries => label \in RecoveryLabels
  PROVE  PcOK'
<1>1. label \in ClientLabels \cup RecoveryLabels
  BY DEF Procs
<1> QED
  BY <1>1, ConnectionManagerAssumption DEF PcOK, Goto, Procs

LEMMA CaughtType ==
  ASSUME NEW p \in Procs
  PROVE  /\ p \in Threads => Caught(p) \in ClientLabels
         /\ p \in Recoveries => Caught(p) \in RecoveryLabels
BY ConnectionManagerAssumption DEF Caught, ClientLabels, RecoveryLabels

\* The keys an iterator visits are keys of handlers.
LEMMA AheadType ==
  ASSUME TypeOK, NEW r \in Recoveries, NEW kind \in {"function", "object"},
         NEW n \in Ahead(r, kind)
  PROVE  n \in Nat /\ n > iter[r] /\ <<kind, n>> \in registered
<1>1. PICK h \in registered : h[1] = kind /\ h[2] = n /\ n > iter[r]
  BY DEF Ahead
<1>2. h \in Handlers
  BY <1>1 DEF TypeOK
<1>3. CASE h \in FunctionHandlers
  <2>1. PICK k \in {"function"}, f \in Functions : h = <<k, f>>
    BY <1>3 DEF FunctionHandlers
  <2> QED
    BY <1>1, <2>1, ConnectionManagerAssumption
<1>4. CASE h \in ObjectHandlers
  <2>1. PICK k \in {"object"}, o \in Objects : h = <<k, o>>
    BY <1>4 DEF ObjectHandlers
  <2> QED
    BY <1>1, <2>1, ConnectionManagerAssumption
<1> QED
  BY <1>2, <1>3, <1>4 DEF Handlers

\* onException returning, or invoking the next handler, keeps the types of what
\* it changes.
LEMMA ReturnType ==
  ASSUME TypeOK, NEW r \in Recoveries, Return(r)
  PROVE  /\ PcOK'
         /\ iter' \in [Recoveries -> Nat]
         /\ before' \in [Recoveries -> SUBSET Handlers]
         /\ invoked' \in [Recoveries -> SUBSET Handlers]
<1>1. PcOK'
  BY GotoType, ConnectionManagerAssumption
     DEF Return, Procs, PcOK, RecoveryLabels, ClientLabels, TypeOK
<1> QED
  BY <1>1 DEF Return, TypeOK

LEMMA InvokeNextType ==
  ASSUME TypeOK, NEW r \in Recoveries, NEW kind \in {"function", "object"},
         InvokeNext(r, kind)
  PROVE  /\ PcOK'
         /\ iter' \in [Recoveries -> Nat]
         /\ before' \in [Recoveries -> SUBSET Handlers]
         /\ invoked' \in [Recoveries -> SUBSET Handlers]
<1>1. PICK n \in Ahead(r, kind) :
         IF <<kind, n>> \in ThrowingHandlers
           THEN Return(r)
           ELSE /\ iter' = [iter EXCEPT ![r] = n]
                /\ invoked' = [invoked EXCEPT ![r] = @ \cup {<<kind, n>>}]
                /\ UNCHANGED <<pc, before>>
  BY DEF InvokeNext
<1>2. n \in Nat /\ <<kind, n>> \in Handlers
  BY AheadType DEF TypeOK
<1>3. CASE <<kind, n>> \in ThrowingHandlers
  BY <1>1, <1>3, ReturnType
<1>4. CASE <<kind, n>> \notin ThrowingHandlers
  BY <1>1, <1>2, <1>4 DEF TypeOK, PcOK
<1> QED
  BY <1>3, <1>4

\* Every step keeps every variable within its type.
THEOREM TypeCorrect == Spec => []TypeOK
<1>1. Init => TypeOK
  <2> SUFFICES ASSUME Init PROVE TypeOK
    OBVIOUS
  <2>1. /\ pc \in [Procs -> ClientLabels \cup RecoveryLabels]
        /\ \A t \in Threads : pc[t] \in ClientLabels
        /\ \A r \in Recoveries : pc[r] \in RecoveryLabels
    BY DEF Init, ClientLabels, RecoveryLabels, Procs
  <2>2. /\ state \in [Conns -> {"free", "stopped", "started"}]
        /\ temp \in [Procs -> Conns \cup {None}]
        /\ session \in [Threads -> Conns \cup {None}]
    BY DEF Init
  <2>3. /\ iter \in [Recoveries -> Nat]
        /\ before \in [Recoveries -> SUBSET Handlers]
        /\ invoked \in [Recoveries -> SUBSET Handlers]
    BY DEF Init
  <2> QED
    BY <2>1, <2>2, <2>3 DEF Init, TypeOK
<1>2. TypeOK /\ [Next]_vars => TypeOK'
  <2> SUFFICES ASSUME TypeOK, [Next]_vars PROVE TypeOK'
    OBVIOUS
  <2>0. PcOK
    BY DEF TypeOK, PcOK
  <2>a. ASSUME PcOK', UNCHANGED <<connVars, sessionVars, registered, recoveryVars,
                                  failures>>,
               crashed' \in BOOLEAN
        PROVE  TypeOK'
    BY <2>a DEF TypeOK, PcOK, connVars, sessionVars, recoveryVars
  <2>1. ASSUME NEW t \in Threads, Instance(t) PROVE TypeOK'
    <3>1. PcOK'
      BY <2>0, <2>1, GotoType, ConnectionManagerAssumption
         DEF Instance, Procs, ClientLabels, StartupLabels
    <3> QED
      BY <2>1, <2>a, <3>1 DEF Instance, TypeOK
  <2>2. ASSUME NEW t \in Threads, CreateSession(t) PROVE TypeOK'
    <3>1. CASE connection = None
      BY <2>0, <2>2, <2>a, <3>1 DEF CreateSession, Crash, PcOK
    <3>2. CASE connection # None
      <4>1. PcOK'
        BY <2>0, <2>2, <3>2, GotoType, ConnectionManagerAssumption
           DEF CreateSession, Procs, ClientLabels
      <4>2. session' \in [Threads -> Conns \cup {None}]
        BY <2>2, <3>2 DEF CreateSession, TypeOK
      <4> QED
        BY <2>2, <3>2, <4>1, <4>2
           DEF CreateSession, TypeOK, PcOK, connVars, recoveryVars
    <3> QED
      BY <3>1, <3>2
  <2>3. ASSUME NEW t \in Threads, CloseSession(t) PROVE TypeOK'
    BY <2>3 DEF CloseSession, TypeOK, connVars, recoveryVars
  <2>4. ASSUME NEW t \in Threads, NEW h \in Handlers, RegisterHandler(t, h)
        PROVE  TypeOK'
    <3>1. PcOK'
      BY <2>0, <2>4, GotoType, ConnectionManagerAssumption
         DEF RegisterHandler, Procs, ClientLabels
    <3> QED
      BY <2>4, <3>1
         DEF RegisterHandler, TypeOK, PcOK, connVars, sessionVars, recoveryVars
  <2>5. ASSUME NEW p \in Procs, CreateConnection(p) PROVE TypeOK'
    <3>1. PcOK'
      BY <2>0, <2>5, GotoType, CreateConnectionEffect
         DEF ClientLabels, RecoveryLabels, StartupLabels
    <3>2. /\ temp' \in [Procs -> Conns \cup {None}]
          /\ state' \in [Conns -> {"free", "stopped", "started"}]
      BY <2>5, CreateConnectionEffect DEF TypeOK
    <3>3. UNCHANGED <<connection, listening, failed, dead, sessionVars, registered,
                      recoveryVars, failures, crashed>>
      BY <2>5, CreateConnectionEffect
    <3> QED
      BY <3>1, <3>2, <3>3 DEF TypeOK, PcOK, sessionVars, recoveryVars
  <2>6. ASSUME NEW p \in Procs, CreateConnectionThrows(p) PROVE TypeOK'
    <3>1. PcOK'
      BY <2>0, <2>6, GotoType, CaughtType DEF CreateConnectionThrows, StartupFails
    <3> QED
      BY <2>6, <2>a, <3>1 DEF CreateConnectionThrows, StartupFails, TypeOK
  <2>7. ASSUME NEW p \in Procs, NEW closing, NEW done,
               ResetConnection(p, closing, done), {closing, done} \subseteq
                 IF p \in Threads THEN ClientLabels ELSE RecoveryLabels
        PROVE  TypeOK'
    <3>1. PcOK'
      BY <2>0, <2>7, GotoType, ConnectionManagerAssumption DEF ResetConnection, Procs
    <3>2. /\ connection' \in Conns \cup {None}
          /\ temp' \in [Procs -> Conns \cup {None}]
      BY <2>7 DEF ResetConnection, TypeOK
    <3> QED
      BY <2>7, <3>1, <3>2
         DEF ResetConnection, TypeOK, PcOK, sessionVars, recoveryVars
  <2>8. ASSUME NEW p \in Procs, NEW done, DestroyConnection(p, done),
               done \in IF p \in Threads THEN ClientLabels ELSE RecoveryLabels
        PROVE  TypeOK'
    <3>1. PcOK'
      BY <2>0, <2>8, GotoType, ConnectionManagerAssumption DEF DestroyConnection, Procs
    <3> QED
      BY <2>8, <3>1, DestroyConnectionType DEF TypeOK, PcOK, recoveryVars
  <2>9. ASSUME NEW p \in Procs, ReplaceConnection(p) \/ CloseReplaced(p) PROVE TypeOK'
    <3>1. {"dispose", "start"} \subseteq
            IF p \in Threads THEN ClientLabels ELSE RecoveryLabels
      BY DEF ClientLabels, RecoveryLabels, StartupLabels
    <3> QED
      BY <2>7, <2>8, <2>9, <3>1 DEF ReplaceConnection, CloseReplaced
  <2>10. ASSUME NEW r \in Recoveries, DropConnection(r) \/ CloseDropped(r)
         PROVE  TypeOK'
    <3>1. r \in Procs /\ {"release", "await"} \subseteq
            IF r \in Threads THEN ClientLabels ELSE RecoveryLabels
      BY ConnectionManagerAssumption DEF Procs, RecoveryLabels
    <3> QED
      BY <2>7, <2>8, <2>10, <3>1 DEF DropConnection, CloseDropped
  <2>11. ASSUME NEW p \in Procs, StartConnection(p) PROVE TypeOK'
    <3>1. PcOK'
      BY <2>0, <2>11, GotoType
         DEF StartConnection, ClientLabels, RecoveryLabels, StartupLabels
    <3> QED
      BY <2>11, <3>1 DEF StartConnection, TypeOK, PcOK, sessionVars, recoveryVars
  <2>12. ASSUME NEW p \in Procs, StartConnectionThrows(p) PROVE TypeOK'
    <3>1. PcOK'
      BY <2>0, <2>12, GotoType, CaughtType
         DEF StartConnectionThrows, StartupFails, Crash, PcOK
    <3> QED
      BY <2>12, <2>a, <3>1 DEF StartConnectionThrows, StartupFails, Crash, TypeOK
  <2>13. ASSUME NEW p \in Procs, SetExceptionListener(p) PROVE TypeOK'
    <3>1. CASE connection = None
      BY <2>0, <2>13, <2>a, <3>1 DEF SetExceptionListener, Crash, PcOK
    <3>2. CASE connection # None
      <4>1. PcOK'
        BY <2>0, <2>13, <3>2, GotoType, ConnectionManagerAssumption
           DEF SetExceptionListener, Procs, ClientLabels, RecoveryLabels
      <4>2. listening' \subseteq Conns /\ lost' \subseteq Threads
        BY <2>13, <3>2 DEF SetExceptionListener, TypeOK
      <4> QED
        BY <2>13, <3>2, <4>1, <4>2
           DEF SetExceptionListener, TypeOK, PcOK, recoveryVars
    <3> QED
      BY <3>1, <3>2
  <2>14. ASSUME NEW c \in Conns, TransportFails(c) PROVE TypeOK'
    <3>1. /\ session' \in [Threads -> Conns \cup {None}]
          /\ lost' \subseteq Threads
      BY <2>14 DEF TransportFails, DisposeSessions, TypeOK
    <3>2. failures' \in Nat /\ failed' \subseteq Conns /\ dead' \subseteq failed'
      BY <2>14 DEF TransportFails, TypeOK
    <3>3. PcOK' /\ before' \in [Recoveries -> SUBSET Handlers]
      <4>1. CASE c \in listening
        <5>1. PICK r \in Recoveries :
                Goto(r, "test") /\ before' = [before EXCEPT ![r] = registered]
          BY <2>14, <4>1 DEF TransportFails
        <5>2. PcOK'
          BY <2>0, <5>1, GotoType, ConnectionManagerAssumption
             DEF Procs, RecoveryLabels
        <5> QED
          BY <5>1, <5>2 DEF TypeOK
      <4>2. CASE c \notin listening
        BY <2>0, <2>14, <4>2 DEF TransportFails, TypeOK, PcOK
      <4> QED
        BY <4>1, <4>2
    <3> QED
      BY <2>14, <3>1, <3>2, <3>3 DEF TransportFails, TypeOK, PcOK
  <2>15. ASSUME NEW r \in Recoveries, TestConnection(r) \/ AwaitRetry(r)
         PROVE  TypeOK'
    <3>1. PcOK'
      BY <2>0, <2>15, GotoType, ConnectionManagerAssumption
         DEF TestConnection, AwaitRetry, Procs, RecoveryLabels, StartupLabels
    <3> QED
      BY <2>15, <2>a, <3>1 DEF TestConnection, AwaitRetry, TypeOK
  <2>16. ASSUME NEW r \in Recoveries, StopConnection(r) PROVE TypeOK'
    <3>1. CASE connection = None
      BY <2>0, <2>16, <2>a, <3>1 DEF StopConnection, Crash, PcOK
    <3>2. CASE connection # None
      <4>1. /\ PcOK'
            /\ iter' \in [Recoveries -> Nat]
            /\ before' \in [Recoveries -> SUBSET Handlers]
            /\ invoked' \in [Recoveries -> SUBSET Handlers]
            /\ state' \in [Conns -> {"free", "stopped", "started"}]
        <5>1. CASE connection \in dead
          BY <2>16, <3>2, <5>1, ReturnType DEF StopConnection, TypeOK
        <5>2. CASE connection \notin dead
          <6>1. PcOK'
            BY <2>0, <2>16, <3>2, <5>2, GotoType, ConnectionManagerAssumption
               DEF StopConnection, Procs, RecoveryLabels
          <6> QED
            BY <2>16, <3>2, <5>2, <6>1 DEF StopConnection, TypeOK, recoveryVars
        <5> QED
          BY <5>1, <5>2
      <4> QED
        BY <2>16, <3>2, <4>1 DEF StopConnection, TypeOK, PcOK, sessionVars
    <3> QED
      BY <3>1, <3>2
  <2>17. ASSUME NEW r \in Recoveries, InvokeFunction(r) PROVE TypeOK'
    <3>1. /\ PcOK'
          /\ iter' \in [Recoveries -> Nat]
          /\ before' \in [Recoveries -> SUBSET Handlers]
          /\ invoked' \in [Recoveries -> SUBSET Handlers]
      <4>1. CASE InvokeNext(r, "function")
        BY <4>1, InvokeNextType
      <4>2. CASE ~InvokeNext(r, "function")
        <5>1. PcOK'
          BY <2>0, <2>17, <4>2, GotoType, ConnectionManagerAssumption
             DEF InvokeFunction, Procs, RecoveryLabels
        <5> QED
          BY <2>17, <4>2, <5>1 DEF InvokeFunction, TypeOK
      <4> QED
        BY <4>1, <4>2
    <3> QED
      BY <2>17, <3>1 DEF InvokeFunction, TypeOK, PcOK, connVars, sessionVars
  <2>18. ASSUME NEW r \in Recoveries, InvokeObject(r) PROVE TypeOK'
    <3>1. /\ PcOK'
          /\ iter' \in [Recoveries -> Nat]
          /\ before' \in [Recoveries -> SUBSET Handlers]
          /\ invoked' \in [Recoveries -> SUBSET Handlers]
      BY <2>18, InvokeNextType, ReturnType DEF InvokeObject
    <3> QED
      BY <2>18, <3>1 DEF InvokeObject, TypeOK, PcOK, connVars, sessionVars
  <2>19. CASE UNCHANGED vars
    BY <2>19 DEF vars, TypeOK
  <2> QED
    BY <2>1, <2>2, <2>3, <2>4, <2>5, <2>6, <2>9, <2>10, <2>11, <2>12, <2>13, <2>14,
       <2>15, <2>16, <2>17, <2>18, <2>19
    DEF Next, Client, Startup, onException
<1> QED
  BY <1>1, <1>2, PTL DEF Spec

-----------------------------------------------------------------------------
(* Who owns the connection objects                                         *)

\* The labels at which a process owns an object.
OwnerLabels == {"swap", "dispose", "release"}

TempInv == \A p \in Procs : temp[p] # None <=> pc[p] \in OwnerLabels

\* An object that is about to be put in place was never in place.
FreshInv ==
  \A p \in Procs : pc[p] = "swap" =>
    /\ state[temp[p]] = "stopped"
    /\ temp[p] \notin listening
    /\ \A t \in Threads : session[t] # temp[p]

FreeInv == \A c \in Conns : state[c] = "free" => c \notin listening /\ c \notin failed

\* ConnectionsOwned by its parts.
ExistingOwned ==
  \A c \in Conns :
    state[c] # "free" <=> c = connection \/ \E p \in Procs : temp[p] = c

OwnedOnce ==
  \A p \in Procs : temp[p] # None =>
    temp[p] # connection /\ \A q \in Procs : temp[q] = temp[p] => q = p

SessionsOwned ==
  \A t \in Threads : session[t] # None =>
    /\ session[t] \notin failed
    /\ \/ session[t] = connection
       \/ \E p \in Procs : Closing(p) /\ temp[p] = session[t]

\* Every object that exists has one owner, which process it is shows in its label,
\* and what an owner may do to it follows.  The invariant is inductive because
\* createConnection, the swap and the destruction of what was swapped out are the
\* only steps that move an object, and calls act on the one in place.
OwnInv ==
  /\ TempInv /\ FreshInv /\ FreeInv
  /\ ExistingOwned /\ OwnedOnce /\ SessionsOwned
  /\ ListenerInstalled

LEMMA OwnInvOwned == OwnInv => ConnectionsOwned
BY DEF OwnInv, ExistingOwned, OwnedOnce, SessionsOwned, ConnectionsOwned

\* A step that moves no process into or out of its ownership or away from "listen",
\* changes no connection, and opens sessions on the one in place at most.
LEMMA OwnInvKept ==
  ASSUME TypeOK, OwnInv, UNCHANGED connVars,
         \A p \in Procs : \/ pc'[p] = pc[p]
                          \/ pc[p] \notin OwnerLabels \cup {"listen"} /\
                             pc'[p] \notin OwnerLabels,
         \A t \in Threads : \/ session'[t] \in {session[t], None}
                            \/ connection \notin failed /\ session'[t] = connection
  PROVE  OwnInv'
<1> USE DEF connVars
<1>1. /\ UNCHANGED <<connection, temp, state, listening, failed>>
      /\ \A p \in Procs : pc[p] = "swap" <=> pc'[p] = "swap"
      /\ \A p \in Procs : pc[p] \in OwnerLabels <=> pc'[p] \in OwnerLabels
      /\ \A p \in Procs : Closing(p)' <=> Closing(p)
      /\ \A p \in Procs : pc[p] = "listen" => pc'[p] = "listen"
  BY DEF OwnerLabels, Closing
<1>2. TempInv' /\ FreeInv' /\ ExistingOwned' /\ OwnedOnce'
  BY <1>1 DEF OwnInv, TempInv, FreeInv, ExistingOwned, OwnedOnce
<1>3. FreshInv'
  <2> SUFFICES ASSUME NEW p \in Procs, pc'[p] = "swap"
               PROVE  /\ state[temp[p]] = "stopped" /\ temp[p] \notin listening
                      /\ \A t \in Threads : session'[t] # temp[p]
    BY <1>1 DEF FreshInv
  <2>1. /\ temp[p] # None /\ temp[p] # connection
        /\ state[temp[p]] = "stopped" /\ temp[p] \notin listening
        /\ \A t \in Threads : session[t] # temp[p]
    BY <1>1 DEF OwnInv, TempInv, OwnedOnce, FreshInv, OwnerLabels
  <2> QED
    BY <2>1
<1>4. SessionsOwned'
  BY <1>1 DEF OwnInv, SessionsOwned
<1>5. ListenerInstalled'
  BY <1>1 DEF OwnInv, ListenerInstalled
<1> QED
  BY <1>2, <1>3, <1>4, <1>5 DEF OwnInv

\* createConnection: the new object is owned by its maker.
LEMMA OwnInvCreate ==
  ASSUME TypeOK, OwnInv, NEW p \in Procs, CreateConnection(p)
  PROVE  OwnInv'
<1>1. PICK new \in Conns : /\ state[new] = "free"
                           /\ temp' = [temp EXCEPT ![p] = new]
                           /\ state' = [state EXCEPT ![new] = "stopped"]
  BY CreateConnectionEffect
<1>2. /\ UNCHANGED <<connection, listening, failed, session>>
      /\ pc[p] = "create" /\ pc' = [pc EXCEPT ![p] = "swap"]
  BY CreateConnectionEffect DEF Goto, sessionVars
<1>3. /\ pc \in [Procs -> ClientLabels \cup RecoveryLabels]
      /\ temp \in [Procs -> Conns \cup {None}]
      /\ state \in [Conns -> {"free", "stopped", "started"}]
      /\ None \notin Conns
  BY ConnectionManagerAssumption DEF TypeOK
<1>4. new # connection /\ \A q \in Procs : temp[q] # new
  BY <1>1 DEF OwnInv, ExistingOwned
<1>5. temp[p] = None
  BY <1>2 DEF OwnInv, TempInv, OwnerLabels
<1>6. \A t \in Threads : session[t] # new
  <2> SUFFICES ASSUME NEW t \in Threads, session[t] = new PROVE FALSE
    OBVIOUS
  <2>1. session[t] = connection \/ \E q \in Procs : temp[q] = session[t]
    BY <1>3 DEF OwnInv, SessionsOwned
  <2> QED
    BY <1>4, <2>1
<1>7. /\ temp'[p] = new /\ pc'[p] = "swap"
      /\ state'[new] = "stopped"
      /\ \A q \in Procs : q # p => temp'[q] = temp[q] /\ pc'[q] = pc[q]
      /\ \A c \in Conns : c # new => state'[c] = state[c]
  BY <1>1, <1>2, <1>3
<1>8. TempInv'
  BY <1>3, <1>7 DEF OwnInv, TempInv, OwnerLabels
<1>9. FreshInv'
  <2> SUFFICES ASSUME NEW q \in Procs, pc'[q] = "swap"
               PROVE  /\ state'[temp'[q]] = "stopped" /\ temp'[q] \notin listening
                      /\ \A t \in Threads : session[t] # temp'[q]
    BY <1>2 DEF FreshInv
  <2>1. CASE q = p
    BY <1>1, <1>6, <1>7, <2>1 DEF OwnInv, FreeInv
  <2>2. CASE q # p
    <3>1. temp[q] # None /\ temp[q] # new /\ temp[q] \in Conns /\ pc[q] = "swap"
      BY <1>3, <1>4, <1>7, <2>2 DEF OwnInv, TempInv, OwnerLabels
    <3> QED
      BY <1>7, <2>2, <3>1 DEF OwnInv, FreshInv
  <2> QED
    BY <2>1, <2>2
<1>10. FreeInv'
  BY <1>2, <1>7 DEF OwnInv, FreeInv
<1>11. ExistingOwned'
  <2> SUFFICES ASSUME NEW c \in Conns
               PROVE  state'[c] # "free" <=> c = connection \/ \E q \in Procs : temp'[q] = c
    BY <1>2 DEF ExistingOwned
  <2>1. CASE c = new
    BY <1>7, <2>1
  <2>2. CASE c # new
    <3>1. (\E q \in Procs : temp'[q] = c) <=> (\E q \in Procs : temp[q] = c)
      BY <1>3, <1>5, <1>7, <2>2
    <3> QED
      BY <1>7, <2>2, <3>1 DEF OwnInv, ExistingOwned
  <2> QED
    BY <2>1, <2>2
<1>12. OwnedOnce'
  BY <1>2, <1>4, <1>7 DEF OwnInv, OwnedOnce
<1>13. SessionsOwned'
  <2>1. \A q \in Procs : Closing(q) => q # p /\ Closing(q)' /\ temp'[q] = temp[q]
    BY <1>2, <1>7 DEF Closing
  <2> QED
    BY <1>2, <2>1 DEF OwnInv, SessionsOwned
<1>14. ListenerInstalled'
  <2>1. \A q \in Procs : Closing(q) => q # p /\ Closing(q)' /\ temp'[q] = temp[q]
    BY <1>2, <1>7 DEF Closing
  <2>2. \A q \in Procs : pc[q] = "listen" => pc'[q] = "listen"
    BY <1>2, <1>7
  <2>3. \A c \in Conns : state'[c] = "started" => state[c] = "started"
    BY <1>7
  <2> QED
    BY <1>2, <2>1, <2>2, <2>3 DEF OwnInv, ListenerInstalled
<1> QED
  BY <1>8, <1>9, <1>10, <1>11, <1>12, <1>13, <1>14 DEF OwnInv

\* The swap: what was in place has a new owner, which is going to close it.
LEMMA OwnInvReset ==
  ASSUME TypeOK, OwnInv, NEW p \in Procs, NEW closing \in {"dispose", "release"},
         NEW done \in {"start", "await"}, pc[p] \in {"swap", "reset"},
         ResetConnection(p, closing, done)
  PROVE  OwnInv'
<1>1. /\ connection' = temp[p]
      /\ temp' = [temp EXCEPT ![p] = connection]
      /\ pc' = [pc EXCEPT ![p] = IF connection = None THEN done ELSE closing]
      /\ UNCHANGED <<state, listening, failed, session>>
  BY DEF ResetConnection, Goto, sessionVars
<1>2. /\ pc \in [Procs -> ClientLabels \cup RecoveryLabels]
      /\ temp \in [Procs -> Conns \cup {None}]
      /\ connection \in Conns \cup {None} /\ None \notin Conns
      /\ \A t \in Threads : session[t] \in Conns \cup {None}
  BY ConnectionManagerAssumption DEF TypeOK
<1>3. /\ temp'[p] = connection
      /\ pc'[p] = IF connection = None THEN done ELSE closing
      /\ \A q \in Procs : q # p => temp'[q] = temp[q] /\ pc'[q] = pc[q]
  BY <1>1, <1>2
<1>4. \A q \in Procs : pc'[q] = "swap" => q # p /\ pc[q] = "swap"
  BY <1>3
<1>5. /\ \A q \in Procs : Closing(q) => q # p /\ Closing(q)' /\ temp'[q] = temp[q]
      /\ connection # None => Closing(p)' /\ temp'[p] = connection
  BY <1>3 DEF Closing
<1>6. TempInv'
  <2>1. ASSUME NEW q \in Procs
        PROVE  temp'[q] # None <=> pc'[q] \in OwnerLabels
    BY <1>3 DEF OwnInv, TempInv, OwnerLabels
  <2> QED
    BY <2>1 DEF TempInv
<1>7. FreshInv'
  BY <1>1, <1>3, <1>4 DEF OwnInv, FreshInv
<1>8. FreeInv'
  BY <1>1 DEF OwnInv, FreeInv
<1>9. ExistingOwned'
  <2>1. ASSUME NEW c \in Conns
        PROVE  (c = connection \/ \E q \in Procs : temp[q] = c) <=>
               (c = connection' \/ \E q \in Procs : temp'[q] = c)
    BY <1>1, <1>3
  <2> QED
    BY <1>1, <2>1 DEF OwnInv, ExistingOwned
<1>10. OwnedOnce'
  <2> SUFFICES ASSUME NEW q \in Procs, temp'[q] # None
               PROVE  temp'[q] # temp[p] /\ \A u \in Procs : temp'[u] = temp'[q] => u = q
    BY <1>1 DEF OwnedOnce
  <2>1. CASE q = p
    BY <1>1, <1>3, <2>1 DEF OwnInv, OwnedOnce
  <2>2. CASE q # p
    BY <1>1, <1>3, <2>2 DEF OwnInv, OwnedOnce
  <2> QED
    BY <2>1, <2>2
<1>11. SessionsOwned'
  <2> SUFFICES ASSUME NEW t \in Threads, session[t] # None
               PROVE  /\ session[t] \notin failed
                      /\ \E q \in Procs : Closing(q)' /\ temp'[q] = session[t]
    BY <1>1 DEF SessionsOwned
  <2>1. CASE session[t] = connection
    BY <1>5, <2>1 DEF OwnInv, SessionsOwned
  <2>2. CASE session[t] # connection
    BY <1>5, <2>2 DEF OwnInv, SessionsOwned
  <2> QED
    BY <2>1, <2>2
<1>12. ListenerInstalled'
  <2> SUFFICES ASSUME NEW c \in Conns, state[c] = "started", c \notin listening
               PROVE  \E q \in Procs : Closing(q)' /\ temp'[q] = c
    BY <1>1 DEF ListenerInstalled
  <2>1. CASE c = connection
    BY <1>2, <1>5, <2>1
  <2>2. CASE c # connection
    BY <1>5, <2>2 DEF OwnInv, ListenerInstalled
  <2> QED
    BY <2>1, <2>2
<1> QED
  BY <1>6, <1>7, <1>8, <1>9, <1>10, <1>11, <1>12 DEF OwnInv

\* The object that was replaced exists no more, nor do its sessions.
LEMMA OwnInvDestroy ==
  ASSUME TypeOK, OwnInv, NEW p \in Procs, NEW done \in {"start", "await"},
         pc[p] \in {"dispose", "release"}, DestroyConnection(p, done)
  PROVE  OwnInv'
<1>1. PICK old : old = temp[p]
  OBVIOUS
<1>2. /\ temp' = [temp EXCEPT ![p] = None]
      /\ state' = [state EXCEPT ![old] = "free"]
      /\ listening' = listening \ {old} /\ failed' = failed \ {old}
      /\ session' = [t \in Threads |-> IF t \in {u \in Threads : session[u] = old}
                                         THEN None ELSE session[t]]
      /\ pc' = [pc EXCEPT ![p] = done]
      /\ connection' = connection
  BY <1>1 DEF DestroyConnection, DisposeSessions, Goto
<1>3. /\ pc \in [Procs -> ClientLabels \cup RecoveryLabels]
      /\ temp \in [Procs -> Conns \cup {None}]
      /\ state \in [Conns -> {"free", "stopped", "started"}]
      /\ None \notin Conns
  BY ConnectionManagerAssumption DEF TypeOK
<1>4. /\ old # None /\ old \in Conns /\ old # connection
      /\ \A q \in Procs : q # p => temp[q] # old
  BY <1>1, <1>3 DEF OwnInv, TempInv, OwnedOnce, OwnerLabels
<1>5. /\ temp'[p] = None /\ pc'[p] = done
      /\ \A q \in Procs : q # p => temp'[q] = temp[q] /\ pc'[q] = pc[q]
      /\ state'[old] = "free"
      /\ \A c \in Conns : c # old => state'[c] = state[c]
      /\ \A t \in Threads : session'[t] = IF session[t] = old THEN None ELSE session[t]
  BY <1>2, <1>3, <1>4
<1>6. /\ \A q \in Procs : Closing(q) /\ temp[q] # old => q # p /\ Closing(q)'
      /\ \A q \in Procs : pc[q] = "listen" => pc'[q] = "listen"
      /\ \A q \in Procs : pc'[q] = "swap" => q # p /\ pc[q] = "swap"
  BY <1>1, <1>5 DEF Closing
<1>7. TempInv'
  <2>1. ASSUME NEW q \in Procs
        PROVE  temp'[q] # None <=> pc'[q] \in OwnerLabels
    BY <1>5 DEF OwnInv, TempInv, OwnerLabels
  <2> QED
    BY <2>1 DEF TempInv
<1>8. FreshInv'
  <2> SUFFICES ASSUME NEW q \in Procs, pc'[q] = "swap"
               PROVE  /\ state'[temp'[q]] = "stopped" /\ temp'[q] \notin listening'
                      /\ \A t \in Threads : session'[t] # temp'[q]
    BY DEF FreshInv
  <2>1. /\ q # p /\ pc[q] = "swap" /\ temp'[q] = temp[q] /\ temp[q] # old
        /\ temp[q] # None /\ temp[q] \in Conns
    BY <1>3, <1>4, <1>5, <1>6 DEF OwnInv, TempInv, OwnerLabels
  <2> QED
    BY <1>2, <1>5, <2>1 DEF OwnInv, FreshInv
<1>9. FreeInv'
  <2> SUFFICES ASSUME NEW c \in Conns, state'[c] = "free"
               PROVE  c \notin listening' /\ c \notin failed'
    BY DEF FreeInv
  <2>1. CASE c = old
    BY <1>2, <2>1
  <2>2. CASE c # old
    BY <1>2, <1>5, <2>2 DEF OwnInv, FreeInv
  <2> QED
    BY <2>1, <2>2
<1>10. ExistingOwned'
  <2> SUFFICES ASSUME NEW c \in Conns
               PROVE  state'[c] # "free" <=> c = connection \/ \E q \in Procs : temp'[q] = c
    BY <1>2 DEF ExistingOwned
  <2>1. CASE c = old
    <3>1. \A q \in Procs : temp'[q] # old
      BY <1>4, <1>5
    <3> QED
      BY <1>4, <1>5, <2>1, <3>1
  <2>2. CASE c # old
    <3>1. (\E q \in Procs : temp'[q] = c) <=> (\E q \in Procs : temp[q] = c)
      BY <1>1, <1>3, <1>5, <2>2
    <3> QED
      BY <1>5, <2>2, <3>1 DEF OwnInv, ExistingOwned
  <2> QED
    BY <2>1, <2>2
<1>11. OwnedOnce'
  BY <1>2, <1>5 DEF OwnInv, OwnedOnce
<1>12. SessionsOwned'
  <2> SUFFICES ASSUME NEW t \in Threads, session'[t] # None
               PROVE  /\ session'[t] \notin failed'
                      /\ \/ session'[t] = connection
                         \/ \E q \in Procs : Closing(q)' /\ temp'[q] = session'[t]
    BY <1>2 DEF SessionsOwned
  <2>1. session'[t] = session[t] /\ session[t] # old
    BY <1>5
  <2>2. /\ session[t] \notin failed
        /\ \/ session[t] = connection
           \/ \E q \in Procs : Closing(q) /\ temp[q] = session[t]
    BY <2>1 DEF OwnInv, SessionsOwned
  <2> QED
    BY <1>2, <1>5, <1>6, <2>1, <2>2
<1>13. ListenerInstalled'
  <2> SUFFICES ASSUME NEW c \in Conns, state'[c] = "started", c \notin listening'
               PROVE  \/ c = connection /\ \E q \in Procs : pc'[q] = "listen"
                      \/ \E q \in Procs : Closing(q)' /\ temp'[q] = c
    BY <1>2 DEF ListenerInstalled
  <2>1. c # old /\ state[c] = "started" /\ c \notin listening
    BY <1>2, <1>5
  <2>2. \/ c = connection /\ \E q \in Procs : pc[q] = "listen"
        \/ \E q \in Procs : Closing(q) /\ temp[q] = c
    BY <2>1 DEF OwnInv, ListenerInstalled
  <2> QED
    BY <1>5, <1>6, <2>1, <2>2
<1> QED
  BY <1>7, <1>8, <1>9, <1>10, <1>11, <1>12, <1>13 DEF OwnInv

\* A call on the connection in place, or the failure of a connection, moves no
\* object.
LEMMA OwnInvCalls ==
  ASSUME TypeOK, OwnInv, UNCHANGED <<connection, temp>>,
         \A p \in Procs : pc[p] \in OwnerLabels <=> pc'[p] \in OwnerLabels,
         \A p \in Procs : pc[p] = "swap" <=> pc'[p] = "swap",
         \A c \in Conns : c # connection => state'[c] = state[c],
         \A c \in Conns : state[c] = "free" <=> state'[c] = "free",
         listening \subseteq listening', listening' \subseteq listening \cup {connection},
         \A c \in failed' : c \notin failed => c \in Conns /\ state[c] # "free",
         \A t \in Threads : session'[t] \in {session[t], None} /\
                            session'[t] \notin failed',
         connection \in Conns /\ state'[connection] = "started" /\
         connection \notin listening' => \E p \in Procs : pc'[p] = "listen"
  PROVE  OwnInv'
<1>1. /\ None \notin Conns /\ temp \in [Procs -> Conns \cup {None}]
      /\ listening' \subseteq Conns \cup {connection}
      /\ \A t \in Threads : session[t] \in Conns \cup {None}
  BY ConnectionManagerAssumption DEF TypeOK
<1>2. \A p \in Procs : Closing(p)' <=> Closing(p)
  BY DEF OwnerLabels, Closing
<1>3. TempInv' /\ OwnedOnce' /\ ExistingOwned'
  BY DEF OwnInv, TempInv, OwnedOnce, ExistingOwned
<1>4. FreshInv'
  <2> SUFFICES ASSUME NEW p \in Procs, pc'[p] = "swap"
               PROVE  /\ state'[temp[p]] = "stopped" /\ temp[p] \notin listening'
                      /\ \A t \in Threads : session'[t] # temp[p]
    BY DEF FreshInv
  <2>1. /\ temp[p] # None /\ temp[p] \in Conns /\ temp[p] # connection
        /\ state[temp[p]] = "stopped" /\ temp[p] \notin listening
        /\ \A t \in Threads : session[t] # temp[p]
    BY <1>1 DEF OwnInv, TempInv, OwnedOnce, FreshInv, OwnerLabels
  <2> QED
    BY <2>1
<1>5. FreeInv'
  <2> SUFFICES ASSUME NEW c \in Conns, state'[c] = "free"
               PROVE  c \notin listening' /\ c \notin failed'
    BY DEF FreeInv
  <2>1. c # connection /\ c \notin listening /\ c \notin failed /\ state[c] = "free"
    BY DEF OwnInv, ExistingOwned, FreeInv
  <2> QED
    BY <2>1
<1>6. SessionsOwned'
  BY <1>2 DEF OwnInv, SessionsOwned
<1>7. ListenerInstalled'
  <2> SUFFICES ASSUME NEW c \in Conns, state'[c] = "started", c \notin listening'
               PROVE  \/ c = connection /\ \E p \in Procs : pc'[p] = "listen"
                      \/ \E p \in Procs : Closing(p) /\ temp[p] = c
    BY <1>2 DEF ListenerInstalled
  <2>1. CASE c = connection
    BY <2>1
  <2>2. CASE c # connection
    BY <2>2 DEF OwnInv, ListenerInstalled
  <2> QED
    BY <2>1, <2>2
<1> QED
  BY <1>3, <1>4, <1>5, <1>6, <1>7 DEF OwnInv

\* The steps that move no object, by process.
LEMMA OwnInvClient ==
  ASSUME TypeOK, OwnInv, NEW t \in Threads, Client(t)
  PROVE  OwnInv'
<1>1. UNCHANGED connVars
  BY DEF Client, Instance, CreateSession, CloseSession, RegisterHandler, Crash
<1>2. \A p \in Procs : \/ pc'[p] = pc[p]
                       \/ pc[p] \notin OwnerLabels \cup {"listen"} /\
                          pc'[p] \notin OwnerLabels
  BY DEF Client, Instance, CreateSession, CloseSession, RegisterHandler, Crash, Goto,
         TypeOK, OwnerLabels
<1>3. \A u \in Threads : \/ session'[u] \in {session[u], None}
                         \/ connection \notin failed /\ session'[u] = connection
  BY DEF Client, Instance, CreateSession, CloseSession, RegisterHandler, Crash,
         sessionVars, TypeOK
<1> QED
  BY <1>1, <1>2, <1>3, OwnInvKept

LEMMA OwnInvThrows ==
  ASSUME TypeOK, OwnInv, NEW p \in Procs,
         CreateConnectionThrows(p) \/ StartConnectionThrows(p)
  PROVE  OwnInv'
<1>1. UNCHANGED connVars /\ session' = session
  BY DEF CreateConnectionThrows, StartConnectionThrows, StartupFails, Crash, sessionVars
<1>2. \A q \in Procs : \/ pc'[q] = pc[q]
                       \/ pc[q] \notin OwnerLabels \cup {"listen"} /\
                          pc'[q] \notin OwnerLabels
  BY DEF CreateConnectionThrows, StartConnectionThrows, StartupFails, Crash, Goto,
         Caught, OwnerLabels, TypeOK
<1> QED
  BY <1>1, <1>2, OwnInvKept

LEMMA OwnInvStart ==
  ASSUME TypeOK, OwnInv, NEW p \in Procs, StartConnection(p)
  PROVE  OwnInv'
<1>1. /\ UNCHANGED <<connection, temp, listening, failed, session>>
      /\ connection # None /\ pc[p] = "start" /\ pc' = [pc EXCEPT ![p] = "listen"]
      /\ state' = [state EXCEPT ![connection] = "started"]
  BY DEF StartConnection, Goto, sessionVars
<1>2. /\ pc \in [Procs -> ClientLabels \cup RecoveryLabels]
      /\ state \in [Conns -> {"free", "stopped", "started"}]
      /\ connection \in Conns /\ state[connection] # "free" /\ None \notin failed
  BY <1>1, ConnectionManagerAssumption DEF TypeOK, OwnInv, ExistingOwned
<1>3. pc'[p] = "listen" /\ \A q \in Procs : q # p => pc'[q] = pc[q]
  BY <1>1, <1>2
<1>4. /\ \A q \in Procs : pc[q] \in OwnerLabels <=> pc'[q] \in OwnerLabels
      /\ \A q \in Procs : pc[q] = "swap" <=> pc'[q] = "swap"
  BY <1>1, <1>3 DEF OwnerLabels
<1>5. /\ \A c \in Conns : c # connection => state'[c] = state[c]
      /\ \A c \in Conns : state[c] = "free" <=> state'[c] = "free"
  BY <1>1, <1>2
<1>6. \A t \in Threads : session[t] \notin failed
  BY <1>2 DEF OwnInv, SessionsOwned
<1> QED
  BY <1>1, <1>3, <1>4, <1>5, <1>6, OwnInvCalls

LEMMA OwnInvListen ==
  ASSUME TypeOK, OwnInv, NEW p \in Procs, SetExceptionListener(p)
  PROVE  OwnInv'
<1>1. CASE connection = None
  BY <1>1, OwnInvKept DEF SetExceptionListener, Crash, sessionVars
<1>2. CASE connection # None
  <2>1. /\ UNCHANGED <<connection, temp, state, failed, session>>
        /\ pc[p] = "listen" /\ listening' = listening \cup {connection}
        /\ pc' = [pc EXCEPT ![p] = "body"] \/ pc' = [pc EXCEPT ![p] = "functions"]
    BY <1>2 DEF SetExceptionListener, Goto
  <2>2. /\ \A q \in Procs : pc[q] \in OwnerLabels <=> pc'[q] \in OwnerLabels
        /\ \A q \in Procs : pc[q] = "swap" <=> pc'[q] = "swap"
    BY <2>1 DEF OwnerLabels, TypeOK
  <2>3. \A t \in Threads : session[t] \notin failed
    BY ConnectionManagerAssumption DEF OwnInv, SessionsOwned, TypeOK
  <2> QED
    BY <2>1, <2>2, <2>3, OwnInvCalls
<1> QED
  BY <1>1, <1>2

LEMMA OwnInvFails ==
  ASSUME TypeOK, OwnInv, NEW c \in Conns, TransportFails(c)
  PROVE  OwnInv'
<1>1. /\ UNCHANGED <<connection, temp, state, listening>>
      /\ state[c] # "free" /\ failed' = failed \cup {c}
      /\ \A t \in Threads : session'[t] = IF session[t] = c THEN None ELSE session[t]
  BY DEF TransportFails, DisposeSessions
<1>2. \A p \in Procs : \/ pc'[p] = pc[p]
                       \/ pc[p] = "idle" /\ pc'[p] = "test"
  BY DEF TransportFails, Goto, TypeOK
<1>3. /\ \A p \in Procs : pc[p] \in OwnerLabels <=> pc'[p] \in OwnerLabels
      /\ \A p \in Procs : pc[p] = "swap" <=> pc'[p] = "swap"
      /\ \A p \in Procs : pc[p] = "listen" => pc'[p] = "listen"
  BY <1>2 DEF OwnerLabels
<1>4. \A t \in Threads : session'[t] \in {session[t], None} /\ session'[t] \notin failed'
  <2> SUFFICES ASSUME NEW t \in Threads
               PROVE  session'[t] \in {session[t], None} /\ session'[t] \notin failed'
    OBVIOUS
  <2>1. None \notin failed'
    BY <1>1, ConnectionManagerAssumption DEF TypeOK
  <2>2. session[t] # None => session[t] \notin failed
    BY DEF OwnInv, SessionsOwned
  <2> QED
    BY <1>1, <2>1, <2>2
<1>5. connection \in Conns /\ state[connection] = "started" /\ connection \notin listening
        => \E p \in Procs : pc'[p] = "listen"
  <2> SUFFICES ASSUME connection \in Conns, state[connection] = "started",
                      connection \notin listening
               PROVE  \E p \in Procs : pc'[p] = "listen"
    OBVIOUS
  <2>1. \A p \in Procs : temp[p] # connection
    BY ConnectionManagerAssumption DEF OwnInv, OwnedOnce
  <2> QED
    BY <1>3, <2>1 DEF OwnInv, ListenerInstalled
<1> QED
  BY <1>1, <1>3, <1>4, <1>5, OwnInvCalls

LEMMA OwnInvStop ==
  ASSUME TypeOK, OwnInv, NEW r \in Recoveries, StopConnection(r)
  PROVE  OwnInv'
<1>1. CASE connection = None
  BY <1>1, OwnInvKept DEF StopConnection, Crash, sessionVars
<1>2. CASE connection # None /\ connection \in dead
  <2>1. UNCHANGED connVars /\ session' = session
    BY <1>2 DEF StopConnection, connVars, sessionVars
  <2>2. \A p \in Procs : \/ pc'[p] = pc[p]
                         \/ pc[p] \notin OwnerLabels \cup {"listen"} /\
                            pc'[p] \notin OwnerLabels
    BY <1>2 DEF StopConnection, Return, Goto, OwnerLabels, TypeOK
  <2> QED
    BY <2>1, <2>2, OwnInvKept
<1>3. CASE connection # None /\ connection \notin dead
  <2>1. /\ UNCHANGED <<connection, temp, listening, failed, session>>
        /\ state' = [state EXCEPT ![connection] = "stopped"]
        /\ pc[r] = "stop" /\ pc' = [pc EXCEPT ![r] = "reset"]
    BY <1>3 DEF StopConnection, Goto, sessionVars
  <2>2. /\ connection \in Conns /\ state[connection] # "free"
        /\ state \in [Conns -> {"free", "stopped", "started"}]
    BY <1>3 DEF TypeOK, OwnInv, ExistingOwned
  <2>3. /\ \A p \in Procs : pc[p] \in OwnerLabels <=> pc'[p] \in OwnerLabels
        /\ \A p \in Procs : pc[p] = "swap" <=> pc'[p] = "swap"
    BY <2>1 DEF OwnerLabels, TypeOK
  <2>4. \A t \in Threads : session[t] \notin failed
    BY ConnectionManagerAssumption DEF OwnInv, SessionsOwned, TypeOK
  <2>5. /\ state'[connection] = "stopped"
        /\ \A c \in Conns : c # connection => state'[c] = state[c]
        /\ \A c \in Conns : state[c] = "free" <=> state'[c] = "free"
    BY <2>1, <2>2
  <2> QED
    BY <2>1, <2>3, <2>4, <2>5, OwnInvCalls
<1> QED
  BY <1>1, <1>2, <1>3

LEMMA OwnInvRecovery ==
  ASSUME TypeOK, OwnInv, NEW r \in Recoveries,
         \/ TestConnection(r) \/ AwaitRetry(r)
         \/ InvokeFunction(r) \/ InvokeObject(r)
  PROVE  OwnInv'
<1>1. UNCHANGED connVars /\ session' = session
  BY DEF TestConnection, AwaitRetry, InvokeFunction, InvokeObject, sessionVars
<1>2. \A p \in Procs : \/ pc'[p] = pc[p]
                       \/ pc[p] \notin OwnerLabels \cup {"listen"} /\
                          pc'[p] \notin OwnerLabels
  <2>1. pc[r] \in {"test", "await", "functions", "objects"}
    BY DEF TestConnection, AwaitRetry, InvokeFunction, InvokeObject
  <2>2. \/ pc' = pc
        \/ pc' = [pc EXCEPT ![r] = "reset"] \/ pc' = [pc EXCEPT ![r] = "stop"]
        \/ pc' = [pc EXCEPT ![r] = "create"] \/ pc' = [pc EXCEPT ![r] = "objects"]
        \/ pc' = [pc EXCEPT ![r] = "idle"]
    BY DEF TestConnection, AwaitRetry, InvokeFunction, InvokeObject, InvokeNext, Return,
           Goto
  <2> QED
    BY <2>1, <2>2 DEF OwnerLabels, TypeOK
<1> QED
  BY <1>1, <1>2, OwnInvKept

LEMMA OwnInvInvariant == Spec => []OwnInv
<1>1. Init => OwnInv
  <2> SUFFICES ASSUME Init PROVE OwnInv
    OBVIOUS
  <2>1. \A p \in Procs : pc[p] = "idle" /\ temp[p] = None
    BY DEF Init
  <2>2. \A c \in Conns : state[c] = "free" /\ c # None
    BY ConnectionManagerAssumption DEF Init
  <2>3. TempInv /\ FreshInv /\ FreeInv
    BY <2>1 DEF Init, TempInv, FreshInv, FreeInv, OwnerLabels
  <2>4. ExistingOwned /\ OwnedOnce /\ SessionsOwned /\ ListenerInstalled
    BY <2>1, <2>2 DEF Init, ExistingOwned, OwnedOnce, SessionsOwned, ListenerInstalled
  <2> QED
    BY <2>3, <2>4 DEF OwnInv
<1>2. TypeOK /\ OwnInv /\ [Next]_vars => OwnInv'
  <2> SUFFICES ASSUME TypeOK, OwnInv, [Next]_vars PROVE OwnInv'
    OBVIOUS
  <2>1. ASSUME NEW p \in Procs, ReplaceConnection(p) \/ CloseReplaced(p) PROVE OwnInv'
    BY <2>1, OwnInvReset, OwnInvDestroy DEF ReplaceConnection, CloseReplaced
  <2>2. ASSUME NEW r \in Recoveries, DropConnection(r) \/ CloseDropped(r) PROVE OwnInv'
    BY <2>2, OwnInvReset, OwnInvDestroy DEF DropConnection, CloseDropped, Procs
  <2>3. CASE UNCHANGED vars
    BY <2>3, OwnInvKept DEF vars, connVars
  <2> QED
    BY <2>1, <2>2, <2>3, OwnInvClient, OwnInvCreate, OwnInvThrows, OwnInvStart,
       OwnInvListen, OwnInvFails, OwnInvStop, OwnInvRecovery
    DEF Next, Startup, onException
<1> QED
  BY <1>1, <1>2, TypeCorrect, PTL DEF Spec

\* No connection object is leaked, none is deleted twice or while _connection points
\* at it, and the sessions that work are of the one in place or of one being closed.
THEOREM EveryConnectionOwned == Spec => []ConnectionsOwned
BY OwnInvInvariant, OwnInvOwned, PTL

\* A started connection without the listener is being closed, or is the one in place
\* and some process is about to install the listener on it.
THEOREM ListenerAlwaysInstalled == Spec => []ListenerInstalled
BY OwnInvInvariant, PTL DEF OwnInv

-----------------------------------------------------------------------------
(* The manager implements Sessions                                         *)

\* The connection Sessions sees.
Current == IF connection \in failed THEN None ELSE connection

LEMMA SessionsStutter ==
  ASSUME UNCHANGED <<connection, failed, session>>
  PROVE  UNCHANGED (S!vars)
BY DEF S!vars

LEMMA SessionsClient ==
  ASSUME TypeOK, NEW t \in Threads, Client(t)
  PROVE  S!Open(t) \/ S!Close(t) \/ UNCHANGED (S!vars)
<1>1. UNCHANGED <<connection, failed>>
  BY DEF Client, Instance, CreateSession, CloseSession, RegisterHandler, Crash, connVars
<1>2. \/ session' = session
      \/ /\ connection # None /\ connection \notin failed
         /\ session' = [session EXCEPT ![t] = connection]
      \/ session[t] # None /\ session' = [session EXCEPT ![t] = None]
  BY DEF Client, Instance, CreateSession, CloseSession, RegisterHandler, Crash,
         sessionVars
<1>3. CASE session' = session
  BY <1>1, <1>3, SessionsStutter
<1>4. CASE /\ connection # None /\ connection \notin failed
           /\ session' = [session EXCEPT ![t] = connection]
  BY <1>1, <1>4 DEF S!Open
<1>5. CASE session[t] # None /\ session' = [session EXCEPT ![t] = None]
  BY <1>1, <1>5 DEF S!Close
<1> QED
  BY <1>2, <1>3, <1>4, <1>5

\* The swap installs a connection on which no session is open, or drops the one in
\* place: after it there is none, or one that failed before it was ever in place.
LEMMA SessionsReset ==
  ASSUME TypeOK, OwnInv, NEW p \in Procs, NEW closing, NEW done,
         pc[p] \in {"swap", "reset"}, ResetConnection(p, closing, done)
  PROVE  S!Drop \/ \E c \in Conns : S!Install(c)
<1>1. connection' = temp[p] /\ UNCHANGED <<failed, session>>
  BY DEF ResetConnection, sessionVars
<1>2. CASE temp[p] = None \/ temp[p] \in failed
  BY <1>1, <1>2 DEF S!Drop
<1>3. CASE temp[p] # None /\ temp[p] \notin failed
  <2>1. PICK c : c = temp[p]
    OBVIOUS
  <2>2. c \in Conns /\ pc[p] = "swap"
    BY <1>3, <2>1 DEF TypeOK, OwnInv, TempInv, OwnerLabels
  <2>3. \A t \in Threads : session[t] # c
    BY <2>1, <2>2 DEF OwnInv, FreshInv
  <2>4. S!Install(c)
    BY <1>1, <1>3, <2>1, <2>3 DEF S!Install
  <2> QED
    BY <2>2, <2>4
<1> QED
  BY <1>2, <1>3

\* Closing a connection that is not in place ends its sessions and no others.
LEMMA SessionsDestroy ==
  ASSUME TypeOK, OwnInv, NEW p \in Procs, NEW done,
         pc[p] \in {"dispose", "release"}, DestroyConnection(p, done)
  PROVE  \E c \in Conns : S!End(c)
<1>1. PICK c : c = temp[p]
  OBVIOUS
<1>2. c \in Conns /\ c # connection /\ c # None
  BY <1>1, ConnectionManagerAssumption
     DEF TypeOK, OwnInv, TempInv, OwnedOnce, OwnerLabels
<1>3. /\ connection' = connection /\ failed' = failed \ {c}
      /\ session' = [t \in Threads |-> IF t \in {u \in Threads : session[u] = c}
                                         THEN None ELSE session[t]]
  BY <1>1 DEF DestroyConnection, DisposeSessions
<1>4. session' = [t \in Threads |-> IF session[t] = c THEN None ELSE session[t]]
  BY <1>3
<1>5. Current' = IF Current = c THEN None ELSE Current
  BY <1>2, <1>3 DEF Current
<1>6. S!End(c)
  BY <1>4, <1>5 DEF S!End, Current
<1> QED
  BY <1>2, <1>6

LEMMA SessionsFail ==
  ASSUME TypeOK, NEW c \in Conns, TransportFails(c)
  PROVE  S!End(c)
<1>1. /\ connection' = connection /\ failed' = failed \cup {c} /\ c \notin failed
      /\ session' = [t \in Threads |-> IF t \in {u \in Threads : session[u] = c}
                                         THEN None ELSE session[t]]
  BY DEF TransportFails, DisposeSessions
<1>2. session' = [t \in Threads |-> IF session[t] = c THEN None ELSE session[t]]
  BY <1>1
<1>3. Current' = IF Current = c THEN None ELSE Current
  BY <1>1, ConnectionManagerAssumption DEF Current
<1> QED
  BY <1>2, <1>3 DEF S!End, Current

LEMMA SessionsStep ==
  ASSUME TypeOK, OwnInv, [Next]_vars
  PROVE  [S!Next]_(S!vars)
<1>1. ASSUME NEW t \in Threads, Client(t) PROVE [S!Next]_(S!vars)
  BY <1>1, SessionsClient DEF S!Next
<1>2. ASSUME NEW p \in Procs, ReplaceConnection(p) \/ CloseReplaced(p)
      PROVE  [S!Next]_(S!vars)
  BY <1>2, SessionsReset, SessionsDestroy DEF S!Next, ReplaceConnection, CloseReplaced
<1>3. ASSUME NEW r \in Recoveries, DropConnection(r) \/ CloseDropped(r)
      PROVE  [S!Next]_(S!vars)
  BY <1>3, SessionsReset, SessionsDestroy
     DEF S!Next, DropConnection, CloseDropped, Procs
<1>4. ASSUME NEW c \in Conns, TransportFails(c) PROVE [S!Next]_(S!vars)
  BY <1>4, SessionsFail DEF S!Next
<1>5. ASSUME NEW p \in Procs,
             \/ CreateConnection(p) \/ CreateConnectionThrows(p) \/ StartConnection(p)
             \/ StartConnectionThrows(p) \/ SetExceptionListener(p)
      PROVE  [S!Next]_(S!vars)
  <2>1. UNCHANGED <<connection, failed, session>>
    BY <1>5, CreateConnectionEffect
    DEF CreateConnectionThrows, StartConnection, StartConnectionThrows, StartupFails,
        SetExceptionListener, Crash, connVars, sessionVars
  <2> QED
    BY <2>1, SessionsStutter
<1>6. ASSUME NEW r \in Recoveries,
             \/ TestConnection(r) \/ StopConnection(r) \/ AwaitRetry(r)
             \/ InvokeFunction(r) \/ InvokeObject(r)
      PROVE  [S!Next]_(S!vars)
  <2>1. UNCHANGED <<connection, failed, session>>
    BY <1>6 DEF TestConnection, StopConnection, AwaitRetry, InvokeFunction,
                InvokeObject, Crash, connVars, sessionVars
  <2> QED
    BY <2>1, SessionsStutter
<1>7. CASE UNCHANGED vars
  BY <1>7, SessionsStutter DEF vars
<1> QED
  BY <1>1, <1>2, <1>3, <1>4, <1>5, <1>6, <1>7 DEF Next, Startup, onException

\* For any threads, connections and failures, sessions are opened on the connection
\* in place while it works, and end by their owner's hand or with that connection,
\* which never gets back into place.
THEOREM ManagerImplementsSessions == Spec => ImplementsSessions
<1>1. Init => S!Init
  BY DEF Init, S!Init
<1>2. TypeOK /\ OwnInv /\ [Next]_vars => [S!Next]_(S!vars)
  BY SessionsStep
<1> QED
  BY <1>1, <1>2, TypeCorrect, OwnInvInvariant, PTL
  DEF Spec, ImplementsSessions, S!Spec
-----------------------------------------------------------------------------
(* The error handlers                                                      *)

\* What onException has done so far: the handlers up to the one its iterator
\* stands on have been invoked, the functions before the objects, and nothing
\* unregisters a handler.
RecoveryInv(r) ==
  /\ before[r] \subseteq registered
  /\ pc[r] \notin {"functions", "objects"} => iter[r] = 0
  /\ pc[r] = "functions" =>
       \A h \in before[r] \cap FunctionHandlers :
         h[2] <= iter[r] => h \in invoked[r]
  /\ pc[r] = "objects" =>
       /\ before[r] \cap FunctionHandlers \subseteq invoked[r]
       /\ \A h \in before[r] \cap ObjectHandlers :
            h[2] <= iter[r] => h \in invoked[r]

HandlersInv == \A r \in Recoveries : RecoveryInv(r)

\* The kind and the key of a handler.
LEMMA HandlerKeys ==
  /\ \A h \in FunctionHandlers : h = <<"function", h[2]>> /\ h[1] = "function"
                                 /\ h[2] \in Nat /\ h[2] > 0
  /\ \A h \in ObjectHandlers : h = <<"object", h[2]>> /\ h[1] = "object"
                               /\ h[2] \in Nat /\ h[2] > 0
<1>1. ASSUME NEW h \in FunctionHandlers
      PROVE  h = <<"function", h[2]>> /\ h[1] = "function"
             /\ h[2] \in Nat /\ h[2] > 0
  <2>1. PICK k \in {"function"}, f \in Functions : h = <<k, f>>
    BY DEF FunctionHandlers
  <2> QED
    BY <2>1, ConnectionManagerAssumption
<1>2. ASSUME NEW h \in ObjectHandlers
      PROVE  h = <<"object", h[2]>> /\ h[1] = "object"
             /\ h[2] \in Nat /\ h[2] > 0
  <2>1. PICK k \in {"object"}, o \in Objects : h = <<k, o>>
    BY DEF ObjectHandlers
  <2> QED
    BY <2>1, ConnectionManagerAssumption
<1> QED
  BY <1>1, <1>2

\* A registered handler the iterator has passed over nothing of is ahead of it.
LEMMA AheadIntro ==
  ASSUME NEW r \in Recoveries, NEW h \in registered, h[2] > iter[r]
  PROVE  h[2] \in Ahead(r, h[1])
BY DEF Ahead

\* The invariant speaks of one onException at a time: a step that leaves the
\* local state of r alone, and unregisters nothing, preserves it for r.
LEMMA HandlersKept ==
  ASSUME HandlersInv, NEW r \in Recoveries,
         before'[r] = before[r], iter'[r] = iter[r], invoked'[r] = invoked[r],
         registered \subseteq registered',
         \/ pc'[r] = pc[r]
         \/ pc[r] \notin {"functions", "objects"} /\
            pc'[r] \notin {"functions", "objects"}
  PROVE  RecoveryInv(r)'
BY DEF HandlersInv, RecoveryInv

\* What InvokeNext does when no handler throws: it invokes the handler with the
\* smallest key ahead and moves on to it.
LEMMA InvokeNextEffect ==
  ASSUME TypeOK, ThrowingHandlers = {}, NEW r \in Recoveries,
         NEW kind \in {"function", "object"}, InvokeNext(r, kind)
  PROVE  \E n \in Ahead(r, kind) :
           /\ \A m \in Ahead(r, kind) : n <= m
           /\ iter' = [iter EXCEPT ![r] = n]
           /\ invoked' = [invoked EXCEPT ![r] = @ \cup {<<kind, n>>}]
           /\ UNCHANGED <<pc, before>>
BY DEF InvokeNext

\* A function handler registered before, up to the new position of the
\* iterator, was invoked earlier or is the one just invoked.
LEMMA FunctionStep ==
  ASSUME TypeOK, HandlersInv, ThrowingHandlers = {}, NEW r \in Recoveries,
         InvokeFunction(r)
  PROVE  RecoveryInv(r)'
<1> USE HandlerKeys
<1>1. pc[r] = "functions" /\ registered' = registered /\ RecoveryInv(r)
  BY DEF InvokeFunction, HandlersInv
<1>2. CASE InvokeNext(r, "function")
  <2>1. PICK n \in Ahead(r, "function") :
          /\ \A m \in Ahead(r, "function") : n <= m
          /\ iter' = [iter EXCEPT ![r] = n]
          /\ invoked' = [invoked EXCEPT ![r] = @ \cup {<<"function", n>>}]
          /\ UNCHANGED <<pc, before>>
    BY <1>2, InvokeNextEffect
  <2>2. n \in Nat /\ iter[r] \in Nat
    BY AheadType DEF TypeOK
  <2>3. iter'[r] = n /\ invoked'[r] = invoked[r] \cup {<<"function", n>>}
    BY <2>1 DEF TypeOK
  <2>4. ASSUME NEW h \in before[r] \cap FunctionHandlers, h[2] <= n
        PROVE  h \in invoked'[r]
    <3>1. CASE h[2] <= iter[r]
      BY <1>1, <2>3, <3>1 DEF RecoveryInv
    <3>2. CASE h[2] > iter[r]
      <4>1. h[2] \in Ahead(r, "function")
        BY <1>1, <3>2, AheadIntro DEF RecoveryInv
      <4>2. h[2] = n
        BY <2>1, <2>2, <2>4, <4>1
      <4> QED
        BY <2>3, <4>2
    <3> QED
      BY <2>2, <3>1, <3>2
  <2> QED
    BY <1>1, <2>1, <2>3, <2>4 DEF RecoveryInv
<1>3. CASE ~InvokeNext(r, "function")
  <2>1. /\ Ahead(r, "function") = {}
        /\ pc'[r] = "objects" /\ iter'[r] = 0
        /\ before' = before /\ invoked' = invoked
    BY <1>3 DEF InvokeFunction, Goto, TypeOK, Procs
  <2>2. ASSUME NEW h \in before[r] \cap FunctionHandlers
        PROVE  h \in invoked[r]
    <3>1. ~(h[2] > iter[r])
      BY <1>1, <2>1, AheadIntro DEF RecoveryInv
    <3>2. h[2] <= iter[r]
      BY <3>1 DEF TypeOK
    <3> QED
      BY <1>1, <3>2 DEF RecoveryInv
  <2>3. \A h \in ObjectHandlers : ~(h[2] <= 0)
    OBVIOUS
  <2> QED
    BY <1>1, <2>1, <2>2, <2>3 DEF RecoveryInv
<1> QED
  BY <1>2, <1>3

\* The same for the objects; when none is left, all that were registered before
\* have been invoked and onException returns.
LEMMA ObjectStep ==
  ASSUME TypeOK, HandlersInv, ThrowingHandlers = {}, NEW r \in Recoveries,
         InvokeObject(r)
  PROVE  /\ RecoveryInv(r)'
         /\ pc'[r] = "idle" => before[r] \subseteq invoked[r]
<1> USE HandlerKeys
<1>1. pc[r] = "objects" /\ registered' = registered /\ RecoveryInv(r)
  BY DEF InvokeObject, HandlersInv
<1>2. CASE InvokeNext(r, "object")
  <2>1. PICK n \in Ahead(r, "object") :
          /\ \A m \in Ahead(r, "object") : n <= m
          /\ iter' = [iter EXCEPT ![r] = n]
          /\ invoked' = [invoked EXCEPT ![r] = @ \cup {<<"object", n>>}]
          /\ UNCHANGED <<pc, before>>
    BY <1>2, InvokeNextEffect
  <2>2. n \in Nat /\ iter[r] \in Nat
    BY AheadType DEF TypeOK
  <2>3. iter'[r] = n /\ invoked'[r] = invoked[r] \cup {<<"object", n>>}
    BY <2>1 DEF TypeOK
  <2>4. ASSUME NEW h \in before[r] \cap ObjectHandlers, h[2] <= n
        PROVE  h \in invoked'[r]
    <3>1. CASE h[2] <= iter[r]
      BY <1>1, <2>3, <3>1 DEF RecoveryInv
    <3>2. CASE h[2] > iter[r]
      <4>1. h[2] \in Ahead(r, "object")
        BY <1>1, <3>2, AheadIntro DEF RecoveryInv
      <4>2. h[2] = n
        BY <2>1, <2>2, <2>4, <4>1
      <4> QED
        BY <2>3, <4>2
    <3> QED
      BY <2>2, <3>1, <3>2
  <2> QED
    BY <1>1, <2>1, <2>3, <2>4 DEF RecoveryInv
<1>3. CASE ~InvokeNext(r, "object")
  <2>1. /\ Ahead(r, "object") = {}
        /\ pc'[r] = "idle" /\ iter'[r] = 0 /\ before'[r] = {}
    BY <1>3 DEF InvokeObject, Return, Goto, TypeOK, Procs
  <2>2. ASSUME NEW h \in before[r] \cap ObjectHandlers
        PROVE  h \in invoked[r]
    <3>1. ~(h[2] > iter[r])
      BY <1>1, <2>1, AheadIntro DEF RecoveryInv
    <3>2. h[2] <= iter[r]
      BY <3>1 DEF TypeOK
    <3> QED
      BY <1>1, <3>2 DEF RecoveryInv
  <2>3. before[r] \subseteq invoked[r]
    BY <1>1, <2>2 DEF RecoveryInv, TypeOK, Handlers
  <2> QED
    BY <2>1, <2>3 DEF RecoveryInv
<1> QED
  BY <1>2, <1>3

\* A step of a client or of startup() that is not the end of startup() keeps every
\* onException out of its handlers, or in them.
LEMMA StartupLabelsKept ==
  ASSUME TypeOK, NEW p \in Procs, Startup(p)
  PROVE  /\ UNCHANGED <<recoveryVars, registered>>
         /\ \A q \in Procs : q # p => pc'[q] = pc[q]
         /\ pc[p] \in StartupLabels
         /\ \/ pc'[p] \in StartupLabels \cup {"idle", "await"}
            \/ pc[p] = "listen" /\ pc'[p] \in {"body", "functions"}
<1>1. CASE CreateConnection(p)
  BY <1>1, CreateConnectionEffect DEF Goto, TypeOK, StartupLabels
<1>2. CASE ReplaceConnection(p)
  BY <1>2 DEF ReplaceConnection, ResetConnection, Goto, TypeOK, StartupLabels
<1>3. CASE CloseReplaced(p)
  BY <1>3 DEF CloseReplaced, DestroyConnection, Goto, TypeOK, StartupLabels
<1>4. CASE CreateConnectionThrows(p) \/ StartConnectionThrows(p)
  BY <1>4 DEF CreateConnectionThrows, StartConnectionThrows, StartupFails, Crash, Goto,
              Caught, TypeOK, StartupLabels
<1>5. CASE StartConnection(p)
  BY <1>5 DEF StartConnection, Goto, TypeOK, StartupLabels
<1>6. CASE SetExceptionListener(p)
  BY <1>6 DEF SetExceptionListener, Crash, Goto, TypeOK, StartupLabels
<1> QED
  BY <1>1, <1>2, <1>3, <1>4, <1>5, <1>6 DEF Startup

\* An onException that is neither in its handlers nor about to enter them.
LEMMA RecoveryLabelsKept ==
  ASSUME TypeOK, NEW q \in Recoveries,
         \/ TestConnection(q) \/ DropConnection(q) \/ CloseDropped(q) \/ AwaitRetry(q)
  PROVE  /\ UNCHANGED <<recoveryVars, registered>>
         /\ \A p \in Procs : p # q => pc'[p] = pc[p]
         /\ pc[q] \in {"test", "reset", "release", "await"}
         /\ pc'[q] \in {"stop", "reset", "release", "await", "create"}
<1>1. CASE TestConnection(q) \/ AwaitRetry(q)
  BY <1>1 DEF TestConnection, AwaitRetry, Goto, TypeOK, Procs
<1>2. CASE DropConnection(q)
  BY <1>2 DEF DropConnection, ResetConnection, Goto, TypeOK, Procs
<1>3. CASE CloseDropped(q)
  BY <1>3 DEF CloseDropped, DestroyConnection, Goto, TypeOK, Procs
<1> QED
  BY <1>1, <1>2, <1>3

\* A step of anything but the handler phase of r leaves RecoveryInv(r) alone.
LEMMA HandlersInvStep ==
  ASSUME TypeOK, HandlersInv, ThrowingHandlers = {}, [Next]_vars
  PROVE  HandlersInv'
<1> SUFFICES ASSUME NEW r \in Recoveries PROVE RecoveryInv(r)'
  BY DEF HandlersInv
<1> USE DEF Goto, Procs, TypeOK, recoveryVars
<1>1. ASSUME NEW t \in Threads, Client(t) PROVE RecoveryInv(r)'
  <2>1. pc'[r] = pc[r] /\ UNCHANGED recoveryVars /\ registered \subseteq registered'
    BY <1>1, ConnectionManagerAssumption
    DEF Client, Instance, CreateSession, CloseSession, RegisterHandler, Crash
  <2> QED
    BY <2>1, HandlersKept
<1>2. ASSUME NEW p \in Procs, Startup(p) PROVE RecoveryInv(r)'
  <2>1. /\ UNCHANGED <<recoveryVars, registered>>
        /\ \A q \in Procs : q # p => pc'[q] = pc[q]
        /\ pc[p] \in StartupLabels
        /\ \/ pc'[p] \in StartupLabels \cup {"idle", "await"}
           \/ pc[p] = "listen" /\ pc'[p] \in {"body", "functions"}
    BY <1>2, StartupLabelsKept
  <2>2. CASE p = r /\ pc'[r] = "functions"
    <3>1. pc[r] = "listen"
      BY <2>1, <2>2 DEF StartupLabels
    <3>2. iter[r] = 0 /\ before[r] \subseteq registered
      BY <3>1 DEF HandlersInv, RecoveryInv
    <3>3. \A h \in FunctionHandlers : ~(h[2] <= 0)
      BY HandlerKeys
    <3> QED
      BY <2>1, <2>2, <3>1, <3>2, <3>3 DEF RecoveryInv
  <2>3. CASE ~(p = r /\ pc'[r] = "functions")
    <3>1. \/ pc'[r] = pc[r]
          \/ pc[r] \notin {"functions", "objects"} /\
             pc'[r] \notin {"functions", "objects"}
      BY <2>1, <2>3 DEF StartupLabels
    <3> QED
      BY <2>1, <3>1, HandlersKept
  <2> QED
    BY <2>2, <2>3
<1>3. ASSUME NEW c \in Conns, TransportFails(c) PROVE RecoveryInv(r)'
  <2>1. UNCHANGED <<iter, invoked, registered>>
    BY <1>3 DEF TransportFails
  <2>2. \/ pc'[r] = pc[r] /\ before'[r] = before[r]
        \/ pc[r] = "idle" /\ pc'[r] = "test" /\ before'[r] = registered
    BY <1>3 DEF TransportFails
  <2> QED
    BY <2>1, <2>2, HandlersKept DEF RecoveryInv, HandlersInv
<1>4. ASSUME NEW q \in Recoveries, StopConnection(q) PROVE RecoveryInv(r)'
  <2>1. registered' = registered /\ pc[q] = "stop"
    BY <1>4 DEF StopConnection, Crash
  <2>2. CASE UNCHANGED recoveryVars
    <3>1. \/ pc'[r] = pc[r]
          \/ pc[r] = "stop" /\ pc'[r] \in {"reset", "idle"}
      BY <1>4 DEF StopConnection, Crash, Return
    <3> QED
      BY <2>1, <2>2, <3>1, HandlersKept
  <2>3. CASE Return(q)
    <3>1. CASE q = r
      BY <2>1, <2>3, <3>1 DEF Return, RecoveryInv, HandlersInv
    <3>2. CASE q # r
      BY <2>1, <2>3, <3>2, HandlersKept DEF Return
    <3> QED
      BY <3>1, <3>2
  <2> QED
    BY <1>4, <2>2, <2>3 DEF StopConnection, Crash
<1>5. ASSUME NEW q \in Recoveries,
             TestConnection(q) \/ DropConnection(q) \/ CloseDropped(q) \/ AwaitRetry(q)
      PROVE  RecoveryInv(r)'
  BY <1>5, RecoveryLabelsKept, HandlersKept
<1>6. ASSUME NEW q \in Recoveries, q # r, InvokeFunction(q) \/ InvokeObject(q)
      PROVE  RecoveryInv(r)'
  <2>1. /\ pc'[r] = pc[r] /\ iter'[r] = iter[r] /\ before'[r] = before[r]
        /\ invoked'[r] = invoked[r] /\ registered' = registered
    BY <1>6 DEF InvokeFunction, InvokeObject, InvokeNext, Return
  <2> QED
    BY <2>1, HandlersKept
<1>7. ASSUME InvokeFunction(r) \/ InvokeObject(r) PROVE RecoveryInv(r)'
  BY <1>7, FunctionStep, ObjectStep
<1>8. CASE UNCHANGED vars
  BY <1>8, HandlersKept DEF vars
<1>9. ASSUME NEW q \in Recoveries, onException(q) PROVE RecoveryInv(r)'
  BY <1>4, <1>5, <1>6, <1>7, <1>9 DEF onException
<1> QED
  BY <1>1, <1>2, <1>3, <1>8, <1>9 DEF Next

\* The only way out of the handler phase is through its end.
LEMMA HandlersDone ==
  ASSUME TypeOK, HandlersInv, ThrowingHandlers = {}, [Next]_vars, NEW r \in Recoveries,
         pc[r] \in {"functions", "objects"}, pc'[r] = "idle"
  PROVE  before[r] \subseteq invoked[r]
<1> USE DEF Goto, Procs, TypeOK
<1>1. ASSUME NEW t \in Threads, Client(t) PROVE FALSE
  BY <1>1, ConnectionManagerAssumption
  DEF Client, Instance, CreateSession, CloseSession, RegisterHandler, Crash
<1>2. ASSUME NEW p \in Procs, Startup(p) PROVE FALSE
  BY <1>2, StartupLabelsKept DEF StartupLabels
<1>3. ASSUME NEW c \in Conns, TransportFails(c) PROVE FALSE
  BY <1>3 DEF TransportFails
<1>4. ASSUME NEW q \in Recoveries, InvokeFunction(q) \/ InvokeObject(q), q # r
      PROVE  FALSE
  BY <1>4 DEF InvokeFunction, InvokeObject, InvokeNext, Return
<1>5. ASSUME NEW q \in Recoveries,
             TestConnection(q) \/ DropConnection(q) \/ CloseDropped(q) \/ AwaitRetry(q)
      PROVE  FALSE
  BY <1>5, RecoveryLabelsKept
<1>6. ASSUME NEW q \in Recoveries, StopConnection(q) PROVE FALSE
  BY <1>6 DEF StopConnection, Crash, Return
<1>7. ASSUME InvokeFunction(r) PROVE FALSE
  BY <1>7, InvokeNextEffect DEF InvokeFunction
<1>8. CASE InvokeObject(r)
  BY <1>8, ObjectStep
<1>9. CASE UNCHANGED vars
  BY <1>9 DEF vars
<1> QED
  BY <1>1, <1>2, <1>3, <1>4, <1>5, <1>6, <1>7, <1>8, <1>9 DEF Next, onException

\* When no handler throws, onException returns from its handlers only after it
\* has invoked every handler that was registered when it was called, however
\* many are registered while it iterates.
THEOREM EveryHandlerInvoked ==
  ASSUME ThrowingHandlers = {}
  PROVE  Spec => AllHandlersInvoked
<1>1. Init => HandlersInv
  BY DEF Init, HandlersInv, RecoveryInv, Procs
<1>2. TypeOK /\ HandlersInv /\ [Next]_vars => HandlersInv'
  BY HandlersInvStep
<1>3. TypeOK /\ HandlersInv /\ [Next]_vars =>
        [\A r \in Recoveries :
           pc[r] \in {"functions", "objects"} /\ pc'[r] = "idle"
             => before[r] \subseteq invoked[r]]_vars
  BY HandlersDone
<1> QED
  BY <1>1, <1>2, <1>3, TypeCorrect, PTL DEF Spec, AllHandlersInvoked

-----------------------------------------------------------------------------
(* Lost sessions                                                           *)

\* An onException that is past stop(), from which alone it might return early.
BusyLabels == {"reset", "release", "await"} \cup StartupLabels
Busy == \E r \in Recoveries : pc[r] \in BusyLabels

\* One that is not, but will be: the connection in place failed with the listener
\* installed, so stop() does not throw, and nobody is about to replace it.
Announcing ==
  /\ connection \in failed /\ connection \notin dead
  /\ \E r \in Recoveries : pc[r] \in {"test", "stop"}
  /\ \A t \in Threads : pc[t] \notin StartupLabels

\* A client inside startup() has no session, unless an onException is closing it.
ClosedByRecovery(t) ==
  session[t] = None \/ \E r \in Recoveries : Closing(r) /\ temp[r] = session[t]

StarterInv == \A t \in Threads : pc[t] \in StartupLabels => ClosedByRecovery(t)

\* The strengthening of SessionLossAnnounced for a program with one client thread.
LossInv ==
  /\ lost # {} => crashed \/ Busy \/ Announcing
  /\ StarterInv

LEMMA RecoveryLabelsDistinct ==
  ASSUME NEW r \in Recoveries
  PROVE  r \in Procs /\ r \notin Threads
BY ConnectionManagerAssumption DEF Procs

\* What each process does to its own label in startup().
LEMMA StartupOutcome ==
  ASSUME TypeOK, NEW p \in Procs, Startup(p)
  PROVE  /\ crashed => crashed'
         /\ \/ crashed' /\ pc' = pc
            \/ pc'[p] \in StartupLabels
            \/ pc'[p] = Caught(p)
            \/ /\ SetExceptionListener(p)
               /\ pc'[p] = IF p \in Threads THEN "body" ELSE "functions"
               /\ lost' = IF p \in Threads THEN lost ELSE {}
<1>1. CASE CreateConnection(p)
  BY <1>1, CreateConnectionEffect DEF Goto, TypeOK, StartupLabels
<1>2. CASE ReplaceConnection(p)
  BY <1>2 DEF ReplaceConnection, ResetConnection, Goto, TypeOK, StartupLabels
<1>3. CASE CloseReplaced(p)
  BY <1>3 DEF CloseReplaced, DestroyConnection, Goto, TypeOK, StartupLabels
<1>4. CASE CreateConnectionThrows(p) \/ StartConnectionThrows(p)
  BY <1>4 DEF CreateConnectionThrows, StartConnectionThrows, StartupFails, Crash, Goto,
              TypeOK
<1>5. CASE StartConnection(p)
  BY <1>5 DEF StartConnection, Goto, TypeOK, StartupLabels
<1>6. CASE SetExceptionListener(p)
  BY <1>6 DEF SetExceptionListener, Crash, Goto, TypeOK
<1> QED
  BY <1>1, <1>2, <1>3, <1>4, <1>5, <1>6 DEF Startup

\* No step but the end of startup(), which empties lost, takes an onException out of
\* the part that leads to the handlers.
LEMMA BusyKept ==
  ASSUME TypeOK, Busy, [Next]_vars
  PROVE  Busy' \/ crashed' \/ lost' = {}
<1> USE RecoveryLabelsDistinct
<1>1. PICK r \in Recoveries : pc[r] \in BusyLabels
  BY DEF Busy
<1> SUFFICES ASSUME ~crashed' PROVE pc'[r] \in BusyLabels \/ lost' = {}
  BY <1>1 DEF Busy
<1>2. ASSUME NEW t \in Threads, Client(t) PROVE pc'[r] = pc[r]
  BY <1>2 DEF Client, Instance, CreateSession, CloseSession, RegisterHandler, Crash,
              Goto, TypeOK
<1>3. ASSUME NEW p \in Procs, Startup(p) PROVE pc'[r] \in BusyLabels \/ lost' = {}
  <2>1. CASE p # r
    BY <1>1, <1>3, <2>1, StartupLabelsKept
  <2>2. CASE p = r
    BY <1>1, <1>3, <2>2, StartupOutcome DEF BusyLabels, Caught
  <2> QED
    BY <2>1, <2>2
<1>4. ASSUME NEW c \in Conns, TransportFails(c) PROVE pc'[r] = pc[r]
  BY <1>1, <1>4 DEF TransportFails, Goto, TypeOK, BusyLabels, StartupLabels
<1>5. ASSUME NEW q \in Recoveries, onException(q) PROVE pc'[r] \in BusyLabels
  <2>1. CASE q # r
    <3>1. CASE StopConnection(q) \/ InvokeFunction(q) \/ InvokeObject(q)
      <4>1. pc'[r] = pc[r]
        BY <2>1, <3>1 DEF StopConnection, InvokeFunction, InvokeObject, InvokeNext,
                          Return, Crash, Goto, TypeOK
      <4> QED
        BY <1>1, <4>1
    <3> QED
      BY <1>1, <1>5, <2>1, <3>1, RecoveryLabelsKept DEF onException
  <2>2. CASE q = r
    <3>1. pc[q] \notin {"stop", "functions", "objects"}
      BY <1>1, <2>2 DEF BusyLabels, StartupLabels
    <3>2. /\ pc[q] \in {"test", "reset", "release", "await"}
          /\ pc'[q] \in {"stop", "reset", "release", "await", "create"}
          /\ pc[q] = "test" \/ pc'[q] # "stop"
      <4>1. \/ TestConnection(q) \/ DropConnection(q) \/ CloseDropped(q)
            \/ AwaitRetry(q)
        BY <1>5, <3>1 DEF onException, StopConnection, InvokeFunction, InvokeObject
      <4>2. pc[q] # "test" => pc'[q] # "stop"
        BY <4>1 DEF TestConnection, DropConnection, CloseDropped, AwaitRetry,
                    ResetConnection, DestroyConnection, Goto, TypeOK
      <4> QED
        BY <4>1, <4>2, RecoveryLabelsKept
    <3> QED
      BY <1>1, <2>2, <3>2 DEF BusyLabels, StartupLabels
  <2> QED
    BY <2>1, <2>2
<1>6. CASE UNCHANGED vars
  BY <1>1, <1>6 DEF vars
<1> QED
  BY <1>1, <1>2, <1>3, <1>4, <1>5, <1>6 DEF Next

\* While the connection in place has failed with the listener installed, and nobody
\* is replacing it, the onException it called gets past stop().
LEMMA AnnouncingKept ==
  ASSUME TypeOK, Announcing, ~Busy, [Next]_vars
  PROVE  Announcing' \/ Busy'
<1> USE RecoveryLabelsDistinct
<1>1. PICK r \in Recoveries : pc[r] \in {"test", "stop"}
  BY DEF Announcing
<1>2. connection # None
  BY ConnectionManagerAssumption DEF Announcing, TypeOK
<1>3. ASSUME NEW t \in Threads, Client(t) PROVE Announcing'
  <2>1. UNCHANGED <<connection, failed, dead>> /\ pc'[r] = pc[r]
    BY <1>3 DEF Client, Instance, CreateSession, CloseSession, RegisterHandler, Crash,
                Goto, TypeOK, connVars
  <2>2. \A s \in Threads : pc'[s] \notin StartupLabels
    BY <1>2, <1>3 DEF Announcing, Client, Instance, CreateSession, CloseSession,
      RegisterHandler, Crash, Goto, TypeOK, StartupLabels, Procs
  <2> QED
    BY <1>1, <2>1, <2>2 DEF Announcing
<1>4. ASSUME NEW p \in Procs, Startup(p) PROVE FALSE
  <2>1. pc[p] \in StartupLabels
    BY <1>4, StartupLabelsKept
  <2> QED
    BY <2>1 DEF Announcing, Busy, BusyLabels, Procs
<1>5. ASSUME NEW c \in Conns, TransportFails(c) PROVE Announcing'
  <2>1. /\ connection' = connection /\ failed \subseteq failed'
        /\ connection \notin dead'
    BY <1>5 DEF TransportFails, Announcing
  <2>2. \A p \in Procs : pc'[p] = pc[p] \/ (pc[p] = "idle" /\ p \in Recoveries)
    BY <1>5 DEF TransportFails, Goto, TypeOK
  <2>3. pc'[r] = pc[r] /\ \A t \in Threads : pc'[t] = pc[t]
    BY <1>1, <2>2 DEF Procs
  <2> QED
    BY <1>1, <2>1, <2>3 DEF Announcing
<1>6. ASSUME NEW q \in Recoveries, onException(q) PROVE Announcing' \/ Busy'
  <2>1. pc[q] \notin BusyLabels
    BY DEF Busy
  <2>2. CASE TestConnection(q)
    <3>1. /\ UNCHANGED <<connection, failed, dead>> /\ pc' = [pc EXCEPT ![q] = "stop"]
      BY <1>2, <2>2 DEF TestConnection, Goto, connVars
    <3>2. pc'[q] = "stop" /\ \A t \in Threads : pc'[t] = pc[t]
      BY <3>1 DEF TypeOK, Procs
    <3> QED
      BY <3>1, <3>2 DEF Announcing
  <2>3. CASE StopConnection(q)
    <3>1. pc'[q] = "reset"
      BY <1>2, <2>3 DEF Announcing, StopConnection, Goto, TypeOK
    <3> QED
      BY <3>1 DEF Busy, BusyLabels
  <2>4. CASE InvokeFunction(q) \/ InvokeObject(q)
    <3>1. UNCHANGED <<connection, failed, dead>> /\ q # r
      BY <1>1, <2>4 DEF InvokeFunction, InvokeObject, connVars
    <3>2. pc'[r] = pc[r] /\ \A t \in Threads : pc'[t] = pc[t]
      BY <2>4, <3>1 DEF InvokeFunction, InvokeObject, InvokeNext, Return, Goto, TypeOK,
                        Procs
    <3> QED
      BY <1>1, <3>1, <3>2 DEF Announcing
  <2>5. CASE DropConnection(q) \/ CloseDropped(q) \/ AwaitRetry(q)
    BY <2>1, <2>5 DEF DropConnection, CloseDropped, AwaitRetry, BusyLabels
  <2> QED
    BY <1>6, <2>2, <2>3, <2>4, <2>5 DEF onException
<1>7. CASE UNCHANGED vars
  BY <1>7 DEF vars, Announcing
<1> QED
  BY <1>3, <1>4, <1>5, <1>6, <1>7 DEF Next

\* Who loses a session by the destruction of a connection: with one client thread,
\* it is an onException that destroys it, and goes on towards the handlers.
LEMMA DestroyAnnounced ==
  ASSUME \A s, t \in Threads : s = t, TypeOK, OwnInv, StarterInv,
         NEW p \in Procs, NEW done \in {"start", "await"},
         pc[p] \in {"dispose", "release"}, DestroyConnection(p, done)
  PROVE  lost' \subseteq lost \/ Busy'
<1>1. CASE p \in Recoveries
  BY <1>1 DEF DestroyConnection, Goto, Busy, BusyLabels, StartupLabels, TypeOK
<1>2. CASE p \in Threads
  <2>1. pc[p] = "dispose"
    BY <1>2 DEF TypeOK, ClientLabels, StartupLabels
  <2>2. {t \in Threads : session[t] = temp[p]} = {}
    <3> SUFFICES ASSUME NEW t \in Threads, session[t] = temp[p] PROVE FALSE
      OBVIOUS
    <3>1. t = p /\ temp[p] # None
      BY <1>2, <2>1 DEF OwnInv, TempInv, OwnerLabels
    <3>2. PICK r \in Recoveries : temp[r] = temp[p]
      BY <2>1, <3>1 DEF StarterInv, ClosedByRecovery, StartupLabels
    <3> QED
      BY <1>2, <3>1, <3>2, RecoveryLabelsDistinct DEF OwnInv, OwnedOnce
  <2> QED
    BY <2>2 DEF DestroyConnection, DisposeSessions
<1> QED
  BY <1>1, <1>2 DEF Procs

\* By the failure of a connection: it is in place, and calls onException, or an
\* onException is destroying it.
LEMMA FailureAnnounced ==
  ASSUME \A s, t \in Threads : s = t, TypeOK, OwnInv, StarterInv,
         NEW c \in Conns, TransportFails(c)
  PROVE  lost' \subseteq lost \/ Busy' \/ Announcing'
<1> USE RecoveryLabelsDistinct
<1> SUFFICES ASSUME ~(lost' \subseteq lost) PROVE Busy' \/ Announcing'
  OBVIOUS
<1>1. PICK t \in Threads : session[t] = c /\ c \in listening
  BY DEF TransportFails, DisposeSessions
<1>2. /\ c # None /\ connection' = connection /\ dead' = dead
      /\ failed' = failed \cup {c} /\ c \notin dead
      /\ \E r \in Recoveries : pc[r] = "idle" /\ pc' = [pc EXCEPT ![r] = "test"]
  BY <1>1, ConnectionManagerAssumption DEF TransportFails, Goto, TypeOK
<1>3. ASSUME NEW r \in Recoveries, Closing(r) PROVE Busy'
  <2>1. pc'[r] = pc[r]
    BY <1>2, <1>3 DEF Closing, TypeOK
  <2> QED
    BY <1>3, <2>1 DEF Closing, Busy, BusyLabels, StartupLabels
<1>4. CASE pc[t] \in StartupLabels
  BY <1>1, <1>2, <1>3, <1>4 DEF StarterInv, ClosedByRecovery
<1>5. CASE pc[t] \notin StartupLabels
  <2>1. c = connection \/ \E p \in Procs : Closing(p) /\ temp[p] = c
    BY <1>1, <1>2 DEF OwnInv, SessionsOwned
  <2>2. CASE c = connection
    <3>1. \A s \in Threads : pc'[s] \notin StartupLabels
      BY <1>2, <1>5 DEF TypeOK
    <3>2. \E r \in Recoveries : pc'[r] = "test"
      BY <1>2 DEF TypeOK
    <3> QED
      BY <1>2, <2>2, <3>1, <3>2 DEF Announcing
  <2>3. ASSUME NEW p \in Procs, Closing(p) PROVE Busy'
    <3>1. p \notin Threads
      BY <1>5, <2>3 DEF Closing, TypeOK, ClientLabels, StartupLabels
    <3> QED
      BY <1>3, <2>3, <3>1 DEF Procs
  <2> QED
    BY <2>1, <2>2, <2>3
<1> QED
  BY <1>4, <1>5

\* Only the end of a connection that startup() completed for makes a session lost.
LEMMA LossStarted ==
  ASSUME \A s, t \in Threads : s = t, TypeOK, OwnInv, StarterInv, [Next]_vars
  PROVE  lost' \subseteq lost \/ Busy' \/ Announcing'
<1>1. ASSUME NEW t \in Threads, Client(t) PROVE lost' = lost
  BY <1>1 DEF Client, Instance, CreateSession, CloseSession, RegisterHandler, Crash,
              sessionVars
<1>2. ASSUME NEW p \in Procs, CloseReplaced(p) PROVE lost' \subseteq lost \/ Busy'
  BY <1>2, DestroyAnnounced DEF CloseReplaced
<1>3. ASSUME NEW p \in Procs, Startup(p), ~CloseReplaced(p)
      PROVE  lost' \subseteq lost
  <2>1. CASE CreateConnection(p)
    BY <2>1, CreateConnectionEffect DEF sessionVars
  <2>2. CASE ReplaceConnection(p) \/ StartConnection(p) \/ SetExceptionListener(p)
    BY <2>2 DEF ReplaceConnection, ResetConnection, StartConnection,
                SetExceptionListener, Crash, sessionVars
  <2>3. CASE CreateConnectionThrows(p) \/ StartConnectionThrows(p)
    BY <2>3 DEF CreateConnectionThrows, StartConnectionThrows, StartupFails, Crash,
                sessionVars
  <2> QED
    BY <1>3, <2>1, <2>2, <2>3 DEF Startup
<1>4. ASSUME NEW r \in Recoveries, CloseDropped(r) PROVE lost' \subseteq lost \/ Busy'
  BY <1>4, DestroyAnnounced, RecoveryLabelsDistinct DEF CloseDropped
<1>5. ASSUME NEW r \in Recoveries, onException(r), ~CloseDropped(r) PROVE lost' = lost
  BY <1>5 DEF onException, TestConnection, StopConnection, DropConnection,
              ResetConnection, AwaitRetry, InvokeFunction, InvokeObject, Crash,
              sessionVars
<1>6. CASE UNCHANGED vars
  BY <1>6 DEF vars
<1> QED
  BY <1>1, <1>2, <1>3, <1>4, <1>5, <1>6, FailureAnnounced DEF Next

\* What a step of startup() does to the objects others own and to the sessions.
LEMMA StartupSessions ==
  ASSUME TypeOK, NEW p \in Procs, Startup(p)
  PROVE  /\ \A q \in Procs : q # p => temp'[q] = temp[q]
         /\ \A t \in Threads : session'[t] \in {session[t], None}
         /\ Closing(p) => \A t \in Threads : session[t] = temp[p] => session'[t] = None
<1>1. CASE CreateConnection(p)
  BY <1>1, CreateConnectionEffect DEF sessionVars, Closing, TypeOK
<1>2. CASE ReplaceConnection(p)
  BY <1>2 DEF ReplaceConnection, ResetConnection, sessionVars, Closing, TypeOK
<1>3. CASE CloseReplaced(p)
  BY <1>3 DEF CloseReplaced, DestroyConnection, DisposeSessions, Closing, TypeOK
<1>4. CASE CreateConnectionThrows(p) \/ StartConnectionThrows(p)
  BY <1>4 DEF CreateConnectionThrows, StartConnectionThrows, StartupFails, Crash,
              connVars, sessionVars, Closing
<1>5. CASE StartConnection(p) \/ SetExceptionListener(p)
  BY <1>5 DEF StartConnection, SetExceptionListener, Crash, connVars, sessionVars,
              Closing
<1> QED
  BY <1>1, <1>2, <1>3, <1>4, <1>5 DEF Startup

\* The same for onException.
LEMMA RecoverySessions ==
  ASSUME TypeOK, NEW p \in Recoveries, onException(p)
  PROVE  /\ \A q \in Procs : q # p => temp'[q] = temp[q] /\ pc'[q] = pc[q]
         /\ \A t \in Threads : session'[t] \in {session[t], None}
         /\ Closing(p) => \A t \in Threads : session[t] = temp[p] => session'[t] = None
<1>1. CASE DropConnection(p)
  BY <1>1 DEF DropConnection, ResetConnection, Goto, sessionVars, Closing, TypeOK
<1>2. CASE CloseDropped(p)
  BY <1>2 DEF CloseDropped, DestroyConnection, DisposeSessions, Goto, Closing, TypeOK
<1>3. CASE TestConnection(p) \/ AwaitRetry(p)
  BY <1>3 DEF TestConnection, AwaitRetry, Goto, connVars, sessionVars, Closing, TypeOK
<1>4. CASE StopConnection(p)
  BY <1>4 DEF StopConnection, Crash, Return, Goto, connVars, sessionVars, Closing,
              TypeOK
<1>5. CASE InvokeFunction(p) \/ InvokeObject(p)
  BY <1>5 DEF InvokeFunction, InvokeObject, InvokeNext, Return, Goto, connVars,
              sessionVars, Closing, TypeOK
<1> QED
  BY <1>1, <1>2, <1>3, <1>4, <1>5 DEF onException

\* A step that lets no thread into startup(), opens no session, and lets no
\* onException off the connection it is closing before its sessions have ended.
LEMMA StarterKept ==
  ASSUME StarterInv,
         \A t \in Threads : pc'[t] \in StartupLabels => pc[t] \in StartupLabels,
         \A t \in Threads : session'[t] \in {session[t], None},
         \A t \in Threads, r \in Recoveries :
           Closing(r) /\ temp[r] = session[t] =>
             session'[t] = None \/ (Closing(r)' /\ temp'[r] = temp[r])
  PROVE  StarterInv'
<1> SUFFICES ASSUME NEW t \in Threads, pc'[t] \in StartupLabels, session'[t] # None
             PROVE  \E r \in Recoveries : Closing(r)' /\ temp'[r] = session'[t]
  BY DEF StarterInv, ClosedByRecovery
<1>1. session'[t] = session[t] /\ pc[t] \in StartupLabels
  OBVIOUS
<1>2. PICK r \in Recoveries : Closing(r) /\ temp[r] = session[t]
  BY <1>1 DEF StarterInv, ClosedByRecovery
<1> QED
  BY <1>1, <1>2

LEMMA StarterInvStep ==
  ASSUME \A s, t \in Threads : s = t, TypeOK, OwnInv, StarterInv, [Next]_vars
  PROVE  StarterInv'
<1> USE RecoveryLabelsDistinct
<1>1. ASSUME NEW t \in Threads, Client(t) PROVE StarterInv'
  <2>1. temp' = temp /\ \A q \in Procs : q # t => pc'[q] = pc[q]
    BY <1>1 DEF Client, Instance, CreateSession, CloseSession, RegisterHandler, Crash,
                Goto, TypeOK, connVars
  <2>2. \A r \in Recoveries : Closing(r) => Closing(r)' /\ temp'[r] = temp[r]
    BY <2>1 DEF Closing
  <2>3. CASE Instance(t) /\ connection = None
    <3>1. session' = session /\ pc[t] = "idle"
      BY <2>3 DEF Instance, sessionVars
    <3>2. ClosedByRecovery(t)
      BY <2>3, <3>1 DEF OwnInv, SessionsOwned, ClosedByRecovery, Closing, Procs
    <3>3. ClosedByRecovery(t)'
      BY <2>2, <3>1, <3>2 DEF ClosedByRecovery
    <3> QED
      BY <3>3 DEF StarterInv
  <2>4. CASE ~(Instance(t) /\ connection = None)
    <3>1. pc'[t] \notin StartupLabels
      BY <1>1, <2>4 DEF Client, Instance, CreateSession, CloseSession,
        RegisterHandler, Crash, Goto, TypeOK, StartupLabels, Procs
    <3> QED
      BY <3>1 DEF StarterInv
  <2> QED
    BY <2>3, <2>4
<1>2. ASSUME NEW p \in Procs, Startup(p) PROVE StarterInv'
  <2>1. \A t \in Threads : pc'[t] \in StartupLabels => pc[t] \in StartupLabels
    BY <1>2, StartupLabelsKept DEF Procs
  <2>2. \A t \in Threads, r \in Recoveries :
          Closing(r) /\ temp[r] = session[t] =>
            session'[t] = None \/ (Closing(r)' /\ temp'[r] = temp[r])
    BY <1>2, StartupSessions, StartupLabelsKept DEF Closing
  <2> QED
    BY <1>2, <2>1, <2>2, StartupSessions, StarterKept
<1>3. ASSUME NEW c \in Conns, TransportFails(c) PROVE StarterInv'
  <2>1. temp' = temp /\ \A t \in Threads : session'[t] \in {session[t], None}
    BY <1>3 DEF TransportFails, DisposeSessions, TypeOK
  <2>2. \A p \in Procs : pc'[p] = pc[p] \/ (pc[p] = "idle" /\ p \in Recoveries)
    BY <1>3 DEF TransportFails, Goto, TypeOK
  <2>3. /\ \A t \in Threads : pc'[t] = pc[t]
        /\ \A r \in Recoveries : Closing(r) => Closing(r)'
    BY <2>2 DEF Closing, Procs
  <2> QED
    BY <2>1, <2>3, StarterKept
<1>4. ASSUME NEW q \in Recoveries, onException(q) PROVE StarterInv'
  <2>1. \A t \in Threads : pc'[t] = pc[t]
    BY <1>4, RecoverySessions DEF Procs
  <2>2. \A t \in Threads, r \in Recoveries :
          Closing(r) /\ temp[r] = session[t] =>
            session'[t] = None \/ (Closing(r)' /\ temp'[r] = temp[r])
    BY <1>4, RecoverySessions DEF Closing
  <2> QED
    BY <1>4, <2>1, <2>2, RecoverySessions, StarterKept
<1>5. CASE UNCHANGED vars
  BY <1>5 DEF vars, StarterInv, ClosedByRecovery, Closing
<1> QED
  BY <1>1, <1>2, <1>3, <1>4, <1>5 DEF Next

LEMMA LossInvStep ==
  ASSUME \A s, t \in Threads : s = t, TypeOK, OwnInv, LossInv, [Next]_vars
  PROVE  LossInv'
<1>1. StarterInv'
  BY StarterInvStep DEF LossInv
<1>2. ASSUME lost' # {} PROVE crashed' \/ Busy' \/ Announcing'
  <2>1. crashed => crashed'
    BY DEF Next, vars
  <2>2. CASE lost' \subseteq lost
    <3>1. crashed \/ Busy \/ Announcing
      BY <1>2, <2>2 DEF LossInv
    <3> QED
      BY <1>2, <2>1, <3>1, BusyKept, AnnouncingKept
  <2>3. CASE ~(lost' \subseteq lost)
    BY <2>3, LossStarted DEF LossInv
  <2> QED
    BY <2>2, <2>3
<1> QED
  BY <1>1, <1>2 DEF LossInv

\* With one client thread, a client whose session died on an established connection
\* is told: an onException that will run the handlers is under way.
THEOREM SessionLossAlwaysAnnounced ==
  ASSUME \A s, t \in Threads : s = t
  PROVE  Spec => []SessionLossAnnounced
<1>1. Init => LossInv
  <2> SUFFICES ASSUME Init PROVE LossInv
    OBVIOUS
  <2>1. \A t \in Threads : pc[t] \notin StartupLabels
    BY DEF Init, Procs, StartupLabels
  <2> QED
    BY <2>1 DEF Init, LossInv, StarterInv
<1>2. TypeOK /\ OwnInv /\ LossInv /\ [Next]_vars => LossInv'
  BY LossInvStep
<1>3. LossInv => SessionLossAnnounced
  BY DEF LossInv, Busy, BusyLabels, Announcing, SessionLossAnnounced, Recovering
<1> QED
  BY <1>1, <1>2, <1>3, TypeCorrect, OwnInvInvariant, PTL DEF Spec
============================================================================

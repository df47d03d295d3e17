---------------------- MODULE EpicsSubscriptions_proofs ----------------------
(***************************************************************************)
(* Proofs about the subscriptions to EPICS channels, for any channels and  *)
(* any number of calls, connections and updates: the most recent consumer  *)
(* of a channel is the only one, ERROR is for invalid names, a             *)
(* subscription works on a new connection once the names are known,        *)
(* complete updates reach the handlers as they were sent, whatever they    *)
(* are, and consumers implement Delivery.                                  *)
(***************************************************************************)
EXTENDS EpicsSubscriptions, EpicsItems_proofs, Queues_proofs

-----------------------------------------------------------------------------
(* Types                                                                   *)

\* While the client is inside a call and has no new consumer yet, one of the
\* numbers the calls so far account for is free.
CountInv ==
  pc \notin {"idle", "store"} => created < calls

TypeInv == TypeOK /\ CountInv

\* The initial names exist.
LEMMA SomeValidChannel == (CHOOSE ch \in ValidChannels : TRUE) \in Channels
BY EpicsAssumption

LEMMA InitTyped == Init => TypeInv
<1> SUFFICES ASSUME Init PROVE TypeInv
  OBVIOUS
<1>1. /\ MaxCalls \in Nat /\ MaxConnections \in Nat \ {0} /\ MaxUpdates \in Nat
      /\ (CHOOSE ch \in ValidChannels : TRUE) \in Channels
  BY EpicsAssumption, SomeValidChannel
<1>2. /\ pc \in Labels /\ op \in Operations /\ result \in Results
      /\ form \in [Updates -> Forms \cup {OtherMessage, NoUpdate}]
      /\ item \in [Consumers -> Items]
  BY DEF Init, Labels, Operations, Results, Items
<1>3. /\ connection \in 0..MaxConnections /\ connections \in 1..MaxConnections
      /\ session \in 0..MaxConnections /\ opening \in 0..MaxConnections
      /\ calls \in 0..MaxCalls /\ created \in 0..calls /\ fresh \in 0..created
      /\ published \in 0..MaxUpdates
  <2>1. /\ connection = 1 /\ connections = 1 /\ session = 0 /\ opening = 0
        /\ calls = 0 /\ created = 0 /\ fresh = 0 /\ published = 0
    BY DEF Init
  <2> QED
    BY <1>1, <2>1
<1>4. /\ name \in Channels /\ channel \in [Consumers -> Channels]
      /\ known \subseteq ValidChannels /\ disturbed \in BOOLEAN
      /\ unlisted \in BOOLEAN
      /\ open \subseteq 1..created /\ crashed \in BOOLEAN
  BY <1>1 DEF Init
<1>5. /\ origin \in [Consumers -> 0..MaxConnections]
      /\ holder \in [Channels -> 0..created] /\ recent \in [Channels -> 0..created]
      /\ queue \in [Consumers -> Seq(Updates)]
      /\ handling \in [Consumers -> 0..MaxUpdates]
      /\ seen \in [Consumers -> SUBSET Updates]
  <2>1. 0 \in 0..MaxConnections /\ 0 \in 0..MaxUpdates /\ 0 \in 0..created
    BY <1>1, <1>3
  <2> QED
    BY <2>1 DEF Init
<1> QED
  BY <1>2, <1>3, <1>4, <1>5 DEF TypeInv, TypeOK, CountInv, Init

\* What is common to the steps of the client that leave the consumers alone.
LEMMA ClientStepTyped ==
  ASSUME TypeInv, UNCHANGED <<connectionVars, consumerVars, updateVars>>,
         session' \in 0..MaxConnections, opening' \in 0..MaxConnections,
         known' \subseteq ValidChannels, pc' \in Labels, result' \in Results,
         op' \in Operations, name' \in Channels, disturbed' \in BOOLEAN,
         unlisted' \in BOOLEAN,
         calls' \in calls..MaxCalls,
         pc' \notin {"idle", "store"} => created < calls'
  PROVE  TypeInv'
<1>1. created' \in 0..calls' /\ calls' \in 0..MaxCalls
  BY EpicsAssumption DEF TypeInv, TypeOK, consumerVars
<1> QED
  BY <1>1 DEF TypeInv, TypeOK, CountInv, connectionVars, consumerVars, updateVars

\* What is common to the steps of the other threads.
LEMMA OtherStepTyped ==
  ASSUME TypeInv,
         UNCHANGED <<session, opening, known, pc, op, name, unlisted, calls, result,
                     created, channel, origin, open, fresh, holder, recent>>,
         connection' \in 0..MaxConnections, connections' \in 1..MaxConnections,
         disturbed' \in BOOLEAN, published' \in 0..MaxUpdates,
         form' \in [Updates -> Forms \cup {OtherMessage, NoUpdate}],
         queue' \in [Consumers -> Seq(Updates)],
         handling' \in [Consumers -> 0..MaxUpdates],
         item' \in [Consumers -> Items],
         seen' \in [Consumers -> SUBSET Updates], crashed' \in BOOLEAN
  PROVE  TypeInv'
BY DEF TypeInv, TypeOK, CountInv

\* The results and labels of the client's steps.
LEMMA ClientNames ==
  /\ {"OK", "ERROR", "TimeoutException", "CommunicationException"} \subseteq Results
  /\ {"idle", "instance", "configure", "services", "ready", "request", "lookup",
      "create", "store", "erase"} \subseteq Labels
BY DEF Results, Labels

\* Closing a consumer keeps the queues typed.
LEMMA ClosedTyped ==
  ASSUME TypeInv, NEW c, Closed(c)
  PROVE  open' \subseteq open /\ queue' \in [Consumers -> Seq(Updates)]
<1>1. <<>> \in Seq(Updates)
  OBVIOUS
<1> QED
  BY <1>1 DEF Closed, TypeInv, TypeOK

LEMMA TypeInvStep == TypeInv /\ [Next]_vars => TypeInv'
<1> SUFFICES ASSUME TypeInv, [Next]_vars PROVE TypeInv'
  OBVIOUS
<1> USE EpicsAssumption
<1>1. ASSUME NEW o \in Operations, NEW ch \in Channels, Call(o, ch) PROVE TypeInv'
  <2>1. /\ calls' = calls + 1 /\ calls < MaxCalls /\ created < calls'
        /\ pc' \in {"instance", "ready"}
        /\ session \in 0..MaxConnections /\ opening \in 0..MaxConnections
        /\ known \subseteq ValidChannels /\ result \in Results
        /\ calls' \in calls..MaxCalls
    BY <1>1 DEF Call, TypeInv, TypeOK
  <2>2. disturbed' \in BOOLEAN /\ unlisted' \in BOOLEAN
    BY <1>1 DEF Call
  <2> QED
    BY <1>1, <2>1, <2>2, ClientNames, ClientStepTyped DEF Call
<1>2. ASSUME \/ OpenSession \/ Configure \/ OpenServices \/ InstanceThrows
             \/ IsInitialized \/ RequestChannels \/ RequestTimesOut
             \/ RequestThrows \/ HasNoChannel \/ HasChannel
             \/ CreateConsumerThrows
      PROVE  TypeInv'
  <2>1. /\ pc \notin {"idle", "store"} /\ created < calls
        /\ calls \in calls..MaxCalls /\ op \in Operations /\ name \in Channels
        /\ disturbed \in BOOLEAN /\ unlisted \in BOOLEAN /\ result \in Results
        /\ connection \in 0..MaxConnections /\ session \in 0..MaxConnections
        /\ opening \in 0..MaxConnections /\ 0 \in 0..MaxConnections
        /\ known \subseteq ValidChannels
    BY <1>2 DEF TypeInv, TypeOK, CountInv, OpenSession, Configure, OpenServices,
       InstanceThrows, IsInitialized, RequestChannels, RequestTimesOut, RequestThrows,
       HasNoChannel, HasChannel, CreateConsumerThrows
  <2>2. /\ UNCHANGED <<connectionVars, op, name, disturbed, calls, consumerVars,
                       updateVars>>
        /\ unlisted' \in BOOLEAN /\ result' \in Results /\ pc' \in Labels
        /\ session' \in 0..MaxConnections /\ opening' \in 0..MaxConnections
        /\ known' \subseteq ValidChannels
    BY <1>2, <2>1, ClientNames DEF callVars, Returns, OpenSession, Configure, OpenServices,
       InstanceThrows, IsInitialized, RequestChannels, RequestTimesOut, RequestThrows,
       HasNoChannel, HasChannel, CreateConsumerThrows
  <2> QED
    BY <2>1, <2>2, ClientStepTyped
<1>3. ASSUME CreateConsumer PROVE TypeInv'
  <2>1. created < calls /\ created \in 0..calls /\ calls \in 0..MaxCalls
    BY <1>3 DEF CreateConsumer, TypeInv, TypeOK, CountInv
  <2>2. /\ created' = created + 1 /\ fresh' = created + 1 /\ calls' = calls
        /\ created + 1 \in Consumers /\ created + 1 \in 0..calls
    BY <1>3, <2>1 DEF CreateConsumer, callVars, Consumers
  <2>3. /\ channel' \in [Consumers -> Channels]
        /\ origin' \in [Consumers -> 0..MaxConnections]
        /\ open' \subseteq 1..created'
        /\ holder' \in [Channels -> 0..created']
        /\ recent' \in [Channels -> 0..created']
    <3>1. channel' = [channel EXCEPT ![created + 1] = name]
          /\ origin' = [origin EXCEPT ![created + 1] = connection]
          /\ open' = open \cup {created + 1}
          /\ holder' = holder /\ recent' = recent
      BY <1>3 DEF CreateConsumer, SessionOf
    <3>2. 0..created \subseteq 0..(created + 1) /\ 1..created \subseteq 1..(created + 1)
          /\ created + 1 \in 1..(created + 1)
      BY <2>1
    <3> QED
      BY <2>2, <3>1, <3>2 DEF TypeInv, TypeOK
  <2>4. /\ connection' \in 0..MaxConnections /\ connections' \in 1..MaxConnections
        /\ session' \in 0..MaxConnections /\ opening' \in 0..MaxConnections
        /\ known' \subseteq ValidChannels /\ pc' = "store" /\ pc' \in Labels
        /\ op' \in Operations /\ name' \in Channels /\ disturbed' \in BOOLEAN
        /\ unlisted' \in BOOLEAN
        /\ result' \in Results /\ queue' \in [Consumers -> Seq(Updates)]
    BY <1>3, ClientNames DEF CreateConsumer, TypeInv, TypeOK, connectionVars, callVars
  <2>5. /\ published' \in 0..MaxUpdates
        /\ form' \in [Updates -> Forms \cup {OtherMessage, NoUpdate}]
        /\ handling' \in [Consumers -> 0..MaxUpdates]
        /\ item' \in [Consumers -> Items]
        /\ seen' \in [Consumers -> SUBSET Updates] /\ crashed' \in BOOLEAN
    BY <1>3 DEF CreateConsumer, TypeInv, TypeOK, updateVars
  <2>6. /\ calls' \in 0..MaxCalls /\ created' \in 0..calls' /\ fresh' \in 0..created'
    BY <2>1, <2>2
  <2> QED
    BY <2>3, <2>4, <2>5, <2>6 DEF TypeInv, TypeOK, CountInv
<1>4. ASSUME StoreConsumer \/ EraseConsumer PROVE TypeInv'
  <2>1. /\ open' \subseteq open /\ queue' \in [Consumers -> Seq(Updates)]
    BY <1>4, ClosedTyped DEF StoreConsumer, EraseConsumer
  <2>2. /\ UNCHANGED <<connectionVars, session, opening, known, callVars, created,
                       channel, origin, updateVars>>
        /\ pc' = "idle" /\ result' = "OK" /\ fresh' \in {0, fresh}
        /\ holder' \in [Channels -> 0..created]
        /\ recent' \in [Channels -> 0..created]
    <3>1. /\ 0 \in 0..created /\ fresh \in 0..created
          /\ holder \in [Channels -> 0..created] /\ recent \in [Channels -> 0..created]
      BY DEF TypeInv, TypeOK
    <3>2. CASE StoreConsumer
      BY <3>1, <3>2 DEF StoreConsumer, Returns
    <3>3. CASE EraseConsumer
      BY <3>1, <3>3 DEF EraseConsumer, Returns, consumerVars
    <3> QED
      BY <1>4, <3>2, <3>3
  <2> QED
    BY <2>1, <2>2, ClientNames DEF TypeInv, TypeOK, CountInv, connectionVars, callVars,
       updateVars
<1>5. ASSUME NEW ch \in Channels, NEW f \in Forms \cup {OtherMessage}, Publish(ch, f)
      PROVE  TypeInv'
  <2>1. published + 1 \in Updates /\ published' \in 0..MaxUpdates
    BY <1>5 DEF Publish, TypeInv, TypeOK, Updates
  <2>2. \A c \in Consumers : Append(queue[c], published + 1) \in Seq(Updates)
    BY <2>1 DEF TypeInv, TypeOK
  <2>3. queue' \in [Consumers -> Seq(Updates)]
    BY <1>5, <2>2 DEF Publish, TypeInv, TypeOK
  <2> QED
    BY <1>5, <2>1, <2>3, OtherStepTyped DEF Publish, TypeInv, TypeOK, connectionVars,
       callVars
<1>6. ASSUME NEW c \in Consumers, OnMessage(c) PROVE TypeInv'
  <2>1. /\ Head(queue[c]) \in Updates /\ Tail(queue[c]) \in Seq(Updates)
    BY <1>6 DEF OnMessage, TypeInv, TypeOK
  <2>2. Head(queue[c]) \in 0..MaxUpdates
    BY <2>1 DEF Updates
  <2>3. ASSUME form[Head(queue[c])] # OtherMessage
        PROVE  \A built \in buildEpicsStatusItem(form[Head(queue[c])]) : built \in Items
    BY <2>1, <2>3 DEF Items, TypeInv, TypeOK
  <2>4. queue' \in [Consumers -> Seq(Updates)]
    BY <1>6, <2>1 DEF OnMessage, TypeInv, TypeOK
  <2>5. /\ handling' \in [Consumers -> 0..MaxUpdates]
        /\ item' \in [Consumers -> Items]
        /\ crashed' \in BOOLEAN
    <3>1. CASE form[Head(queue[c])] = OtherMessage
      BY <1>6, <3>1 DEF OnMessage, TypeInv, TypeOK
    <3>2. CASE form[Head(queue[c])] # OtherMessage
      <4>1. PICK built \in buildEpicsStatusItem(form[Head(queue[c])]) :
              /\ handling' = [handling EXCEPT ![c] = Head(queue[c])]
              /\ item' = [item EXCEPT ![c] = built]
              /\ crashed' = (built.outcome = "terminated")
        BY <1>6, <3>2 DEF OnMessage
      <4> QED
        BY <2>2, <2>3, <3>2, <4>1 DEF TypeInv, TypeOK
    <3> QED
      BY <3>1, <3>2
  <2> QED
    BY <1>6, <2>4, <2>5, OtherStepTyped DEF OnMessage, TypeInv, TypeOK,
       connectionVars, callVars
<1>7. ASSUME NEW c \in Consumers, HandlerReturns(c) PROVE TypeInv'
  <2>1. handling[c] \in Updates
    BY <1>7 DEF HandlerReturns, TypeInv, TypeOK, Updates
  <2>2. /\ seen' \in [Consumers -> SUBSET Updates]
        /\ handling' \in [Consumers -> 0..MaxUpdates]
        /\ item' \in [Consumers -> Items]
    BY <1>7, <2>1 DEF HandlerReturns, TypeInv, TypeOK, Items
  <2> QED
    BY <1>7, <2>2, OtherStepTyped DEF HandlerReturns, TypeInv, TypeOK, connectionVars,
       callVars, consumerVars
<1>11. ASSUME NEW c \in Consumers, HandlerThrows(c) PROVE TypeInv'
  BY <1>11, OtherStepTyped DEF HandlerThrows, TypeInv, TypeOK, connectionVars,
     callVars, consumerVars
<1>8. ASSUME Disconnect PROVE TypeInv'
  <2>1. queue' \in [Consumers -> Seq(Updates)]
    <3>1. <<>> \in Seq(Updates)
      OBVIOUS
    <3> QED
      BY <1>8, <3>1 DEF Disconnect
  <2> QED
    BY <1>8, <2>1, OtherStepTyped DEF Disconnect, TypeInv, TypeOK, updateVars
<1>9. ASSUME Reconnect PROVE TypeInv'
  BY <1>9, OtherStepTyped DEF Reconnect, TypeInv, TypeOK, callVars, consumerVars,
     updateVars
<1>10. ASSUME UNCHANGED vars PROVE TypeInv'
  BY <1>10 DEF vars, TypeInv, TypeOK, CountInv
<1> QED
  BY <1>1, <1>2, <1>3, <1>4, <1>5, <1>6, <1>7, <1>8, <1>9, <1>10, <1>11 DEF Next, Client,
     Dispatch

\* Every variable keeps its type, however many calls are made and however often
\* the connection is lost: the numbers of consumers never run out.
THEOREM TypeCorrect == Spec => []TypeOK
<1>1. Spec => []TypeInv
  BY InitTyped, TypeInvStep, PTL DEF Spec
<1>2. TypeInv => TypeOK
  BY DEF TypeInv
<1> QED
  BY <1>1, <1>2, PTL

-----------------------------------------------------------------------------
(* The consumers that exist                                                *)

\* A consumer exists while the map holds it or it is about to be stored; it is
\* held under its own channel.  The invariant holds also inside a call, where
\* two consumers of the channel exist.
HolderInv ==
  /\ holder = recent
  /\ fresh # 0 <=> pc = "store"
  /\ pc = "store" => channel[fresh] = name /\ \A ch \in Channels : holder[ch] # fresh
  /\ \A ch \in Channels : holder[ch] # 0 => channel[holder[ch]] = ch
  /\ \A c \in 1..created : c \in open <=> holder[channel[c]] = c \/ c = fresh

\* Steps that create and destroy no consumer.
HolderFrame ==
  UNCHANGED <<created, channel, open, fresh, holder, recent>>

LEMMA HolderKept ==
  ASSUME HolderInv, HolderFrame, pc # "store", pc' # "store"
  PROVE  HolderInv'
BY DEF HolderInv, HolderFrame

LEMMA HolderKeptByOthers ==
  ASSUME HolderInv, HolderFrame, pc' = pc, name' = name
  PROVE  HolderInv'
BY DEF HolderInv, HolderFrame

\* The consumers created so far are among those the calls account for.
LEMMA CreatedConsumers ==
  ASSUME TypeInv
  PROVE  /\ created \in Nat /\ fresh \in 0..created /\ name \in Channels
         /\ channel \in [Consumers -> Channels] /\ open \subseteq 1..created
         /\ holder \in [Channels -> 0..created] /\ 1..created \subseteq Consumers
<1>1. created \in 0..calls /\ calls \in 0..MaxCalls /\ MaxCalls \in Nat
  BY EpicsAssumption DEF TypeInv, TypeOK
<1>2. created \in Nat /\ 1..created \subseteq Consumers
  BY <1>1 DEF Consumers
<1> QED
  BY <1>2 DEF TypeInv, TypeOK

LEMMA HolderInvStep == TypeInv /\ HolderInv /\ [Next]_vars => HolderInv'
<1> SUFFICES ASSUME TypeInv, HolderInv, [Next]_vars PROVE HolderInv'
  OBVIOUS
<1> USE EpicsAssumption
<1>0. /\ created \in Nat /\ fresh \in 0..created /\ name \in Channels
      /\ channel \in [Consumers -> Channels] /\ open \subseteq 1..created
      /\ holder \in [Channels -> 0..created] /\ 1..created \subseteq Consumers
  BY CreatedConsumers
<1>1. ASSUME \/ \E o \in Operations, ch \in Channels : Call(o, ch)
             \/ OpenSession \/ Configure \/ OpenServices \/ InstanceThrows
             \/ IsInitialized \/ RequestChannels \/ RequestTimesOut
             \/ RequestThrows \/ HasNoChannel \/ HasChannel
             \/ CreateConsumerThrows
      PROVE  HolderInv'
  BY <1>1, HolderKept DEF HolderFrame, consumerVars, Returns, Call, OpenSession,
     Configure, OpenServices, InstanceThrows, IsInitialized, RequestChannels,
     RequestTimesOut, RequestThrows, HasNoChannel, HasChannel, CreateConsumerThrows
<1>2. ASSUME CreateConsumer PROVE HolderInv'
  <2> DEFINE new == created + 1
  <2>1. /\ created' = new /\ fresh' = new /\ channel' = [channel EXCEPT ![new] = name]
        /\ open' = open \cup {new} /\ holder' = holder /\ recent' = recent
        /\ pc' = "store" /\ name' = name /\ fresh = 0
    BY <1>2 DEF CreateConsumer, HolderInv, callVars
  <2>2. new \in Consumers
    BY <1>2 DEF CreateConsumer, TypeInv, TypeOK, CountInv, Consumers
  <2>3. \A c \in 1..created : c # new /\ channel'[c] = channel[c]
    BY <1>0, <2>1
  <2>4. channel'[new] = name
    BY <1>0, <2>1, <2>2
  <2>5. \A ch \in Channels : holder[ch] # new
    BY <1>0
  <2>6. \A ch \in Channels : holder'[ch] # 0 => channel'[holder'[ch]] = ch
    BY <1>0, <2>1, <2>3 DEF HolderInv
  <2>7. ASSUME NEW c \in 1..created'
        PROVE  c \in open' <=> holder'[channel'[c]] = c \/ c = fresh'
    <3>1. CASE c = new
      BY <2>1, <3>1
    <3>2. CASE c \in 1..created
      BY <1>0, <2>1, <2>3, <3>2 DEF HolderInv
    <3> QED
      BY <1>0, <2>1, <3>1, <3>2
  <2>8. fresh' # 0
    BY <1>0, <2>1
  <2> QED
    BY <2>1, <2>4, <2>5, <2>6, <2>7, <2>8 DEF HolderInv
<1>3. ASSUME StoreConsumer PROVE HolderInv'
  <2>1. /\ created' = created /\ channel' = channel /\ fresh' = 0 /\ pc' = "idle"
        /\ holder' = [holder EXCEPT ![name] = fresh] /\ recent' = holder'
        /\ open' = open \ {holder[name]} /\ pc = "store"
    BY <1>3 DEF StoreConsumer, Returns, Closed, HolderInv
  <2>2. /\ fresh \in 1..created /\ channel[fresh] = name
        /\ \A ch \in Channels : holder[ch] # fresh
    BY <1>0, <2>1 DEF HolderInv
  <2>3. \A ch \in Channels : holder'[ch] # 0 => channel'[holder'[ch]] = ch
    BY <1>0, <2>1, <2>2 DEF HolderInv
  <2>4. ASSUME NEW c \in 1..created
        PROVE  c \in open' <=> holder'[channel[c]] = c
    <3>0. /\ channel[c] \in Channels /\ c # 0
          /\ c \in open <=> holder[channel[c]] = c \/ c = fresh
      BY <1>0 DEF HolderInv
    <3>1. CASE c = fresh
      BY <1>0, <2>1, <2>2, <3>0, <3>1
    <3>2. CASE c # fresh /\ channel[c] = name
      BY <1>0, <2>1, <3>0, <3>2
    <3>3. CASE c # fresh /\ channel[c] # name
      <4>1. c # holder[name]
        BY <1>0, <3>0, <3>3 DEF HolderInv
      <4> QED
        BY <1>0, <2>1, <3>0, <3>3, <4>1
    <3> QED
      BY <3>1, <3>2, <3>3
  <2>5. \A c \in 1..created' : c # 0
    BY <1>0, <2>1
  <2> QED
    BY <2>1, <2>3, <2>4, <2>5 DEF HolderInv
<1>4. ASSUME EraseConsumer PROVE HolderInv'
  <2>1. /\ created' = created /\ channel' = channel /\ fresh' = 0 /\ pc' = "idle"
        /\ holder' = [holder EXCEPT ![name] = 0] /\ recent' = holder'
        /\ open' = open \ {holder[name]} /\ fresh = 0
    BY <1>4 DEF EraseConsumer, Returns, Closed, HolderInv
  <2>2. \A ch \in Channels : holder'[ch] # 0 => channel'[holder'[ch]] = ch
    BY <1>0, <2>1 DEF HolderInv
  <2>3. ASSUME NEW c \in 1..created
        PROVE  c \in open' <=> holder'[channel[c]] = c
    <3>0. /\ channel[c] \in Channels /\ c # 0
          /\ c \in open <=> holder[channel[c]] = c
      BY <1>0, <2>1 DEF HolderInv
    <3>1. CASE channel[c] = name
      BY <1>0, <2>1, <3>0, <3>1
    <3>2. CASE channel[c] # name
      <4>1. c # holder[name]
        BY <1>0, <3>0, <3>2 DEF HolderInv
      <4> QED
        BY <1>0, <2>1, <3>0, <3>2, <4>1
    <3> QED
      BY <3>1, <3>2
  <2>4. \A c \in 1..created' : c # 0
    BY <1>0, <2>1
  <2> QED
    BY <2>1, <2>2, <2>3, <2>4 DEF HolderInv
<1>5. ASSUME \/ \E ch \in Channels, f \in Forms \cup {OtherMessage} : Publish(ch, f)
             \/ \E c \in Consumers : Dispatch(c)
             \/ Disconnect \/ Reconnect
             \/ UNCHANGED vars
      PROVE  HolderInv'
  BY <1>5, HolderKeptByOthers DEF HolderFrame, consumerVars, callVars, vars, Publish,
     Dispatch, OnMessage, HandlerReturns, HandlerThrows, Disconnect, Reconnect
<1> QED
  BY <1>1, <1>2, <1>3, <1>4, <1>5 DEF Next, Client

LEMMA HolderInvariant == Spec => [](TypeInv /\ HolderInv)
<1>1. Init => HolderInv
  BY DEF Init, HolderInv
<1> QED
  BY <1>1, InitTyped, TypeInvStep, HolderInvStep, PTL DEF Spec

\* Between calls the consumers that exist are those of the last successful
\* subscription to each channel: a replaced consumer is destroyed, and so is one
\* whose subscription is undone, however the connection comes and goes.
THEOREM MostRecentIsUsedCorrect == Spec => []MostRecentIsUsed
<1>1. TypeInv /\ HolderInv => MostRecentIsUsed
  <2> SUFFICES ASSUME TypeInv, HolderInv, pc = "idle"
               PROVE  open = {c \in 1..created : recent[channel[c]] = c}
    BY DEF MostRecentIsUsed, HolderInv
  <2>1. open \subseteq 1..created /\ fresh = 0 /\ holder = recent
    BY DEF TypeInv, TypeOK, HolderInv
  <2>2. \A c \in 1..created : c # 0
    BY DEF TypeInv, TypeOK
  <2>3. \A c \in 1..created : c \in open <=> recent[channel[c]] = c
    BY <2>1, <2>2 DEF HolderInv
  <2> QED
    BY <2>1, <2>3
<1> QED
  BY <1>1, HolderInvariant, PTL

-----------------------------------------------------------------------------
(* The names of the channels and lost connections                          *)

\* The names are all known or none is; a subscription gets to the lookup with names,
\* unless the GMP listed none to it; and a call that is under way without a connection was disturbed.
NamesInv ==
  /\ known \in {{}, ValidChannels}
  /\ pc = "request" => known = {}
  /\ pc = "lookup" /\ op = "subscribe" => known # {} \/ unlisted
  /\ pc # "idle" /\ connection = 0 => disturbed

ResultInv == NamesInv /\ ErrorMeansInvalid /\ ResubscribeWhenKnown

LEMMA ResultInvStep == TypeInv /\ ResultInv /\ [Next]_vars => ResultInv'
<1> SUFFICES ASSUME TypeInv, ResultInv, [Next]_vars PROVE ResultInv'
  OBVIOUS
<1> USE EpicsAssumption DEF ResultInv, NamesInv, ErrorMeansInvalid,
    ResubscribeWhenKnown
<1>1. ASSUME NEW o \in Operations, NEW ch \in Channels, Call(o, ch)
      PROVE  ResultInv'
  BY <1>1 DEF Call, connectionVars
<1>2. ASSUME OpenSession \/ Configure \/ OpenServices PROVE ResultInv'
  BY <1>2 DEF OpenSession, Configure, OpenServices, connectionVars, callVars
<1>3. ASSUME InstanceThrows PROVE ResultInv'
  BY <1>3 DEF InstanceThrows, Returns, connectionVars, callVars
<1>4. ASSUME IsInitialized PROVE ResultInv'
  BY <1>4 DEF IsInitialized, connectionVars, callVars
<1>5. ASSUME RequestChannels \/ RequestTimesOut \/ RequestThrows PROVE ResultInv'
  BY <1>5 DEF RequestChannels, RequestTimesOut, RequestThrows, Returns,
     connectionVars, callVars
<1>6. ASSUME HasNoChannel \/ HasChannel PROVE ResultInv'
  BY <1>6 DEF HasNoChannel, HasChannel, Returns, connectionVars, callVars
<1>7. ASSUME CreateConsumer \/ CreateConsumerThrows PROVE ResultInv'
  BY <1>7 DEF CreateConsumer, CreateConsumerThrows, SessionOf, Returns,
     connectionVars, callVars
<1>8. ASSUME StoreConsumer \/ EraseConsumer PROVE ResultInv'
  BY <1>8 DEF StoreConsumer, EraseConsumer, Returns, connectionVars, callVars
<1>9. ASSUME \/ \E ch \in Channels, f \in Forms \cup {OtherMessage} : Publish(ch, f)
             \/ \E c \in Consumers : Dispatch(c)
             \/ Disconnect \/ Reconnect
             \/ UNCHANGED vars
      PROVE  ResultInv'
  <2>1. /\ UNCHANGED <<known, pc, op, name, unlisted, calls, result>>
        /\ disturbed => disturbed'
        /\ connection' = connection \/ connection' # 0 \/ disturbed'
    BY <1>9 DEF Publish, Dispatch, OnMessage, HandlerReturns, HandlerThrows,
       Disconnect, Reconnect,
       connectionVars, callVars, vars, TypeInv, TypeOK
  <2> QED
    BY <2>1
<1> QED
  BY <1>1, <1>2, <1>3, <1>4, <1>5, <1>6, <1>7, <1>8, <1>9 DEF Next, Client

LEMMA ResultInvariant == Spec => []ResultInv
<1>1. Init => ResultInv
  BY EpicsAssumption DEF Init, ResultInv, NamesInv, ErrorMeansInvalid,
     ResubscribeWhenKnown
<1> QED
  BY <1>1, InitTyped, TypeInvStep, ResultInvStep, PTL DEF Spec

\* subscribeEpicsStatus returns ERROR for names the GMP does not list only, or when
\* it lists none, also when the names were not received by an earlier call.
THEOREM ErrorMeansInvalidCorrect == Spec => []ErrorMeansInvalid
<1>1. ResultInv => ErrorMeansInvalid
  BY DEF ResultInv
<1> QED
  BY <1>1, ResultInvariant, PTL

\* Once the names are known, a subscription fails only if the connection was lost
\* during it or is not back yet: the stale session of the manager is not used.
THEOREM ResubscribeWhenKnownCorrect == Spec => []ResubscribeWhenKnown
<1>1. ResultInv => ResubscribeWhenKnown
  BY DEF ResultInv
<1> QED
  BY <1>1, ResultInvariant, PTL

-----------------------------------------------------------------------------
(* The items the handlers are given                                        *)

\* The parts of an update.
LEMMA FormsTyped ==
  ASSUME NEW m \in Forms
  PROVE  /\ m.code \in 0..255 \cup {CutShort} /\ m.count \in Int
         /\ m.elements \in Seq(Seq(Cells)) /\ Len(m.elements) \in Nat
         /\ \A i \in 1..Len(m.elements) : m.elements[i] \in Seq(Cells)
         /\ m.code # DataType.STRING => \A i \in 1..Len(m.elements) :
              Len(m.elements[i]) = 1 /\ m.elements[i][1] \in Cells
<1>1. /\ m.code \in 0..255 \cup {CutShort} /\ m.count \in Int
      /\ m.elements \in Seq(Seq(Cells))
      /\ m.code # DataType.STRING => \A i \in 1..Len(m.elements) : Len(m.elements[i]) = 1
  BY FormsAssumption
<1>2. Len(m.elements) \in Nat /\ \A i \in 1..Len(m.elements) : m.elements[i] \in Seq(Cells)
  BY <1>1
<1>3. ASSUME NEW i \in 1..Len(m.elements), Len(m.elements[i]) = 1
      PROVE  m.elements[i][1] \in Cells
  <2>1. m.elements[i] \in Seq(Cells)
    BY <1>2
  <2> QED
    BY <1>3, <2>1
<1> QED
  BY <1>1, <1>2, <1>3

\* Nothing that is read from an update is an exception.
LEMMA NoException ==
  /\ \A s \in Seq(Cells) : s # InvalidOperation /\ CString(s) # InvalidOperation
  /\ \A x \in Cells \cup {Garbage} : <<x>> # InvalidOperation
<1>1. InvalidOperation[1] \notin Cells \cup {Garbage} /\ Len(InvalidOperation) = 1
  BY FormsAssumption DEF InvalidOperation, Garbage
<1>2. \A s \in Seq(Cells) : s # InvalidOperation
  <2> SUFFICES ASSUME NEW s \in Seq(Cells), s = InvalidOperation PROVE FALSE
    OBVIOUS
  <2>1. Len(s) = 1
    BY <1>1
  <2>2. s[1] \in Cells
    BY <2>1
  <2> QED
    BY <1>1, <2>2
<1>3. ASSUME NEW s \in Seq(Cells) PROVE CString(s) # InvalidOperation
  <2>1. CString(s) \in Seq(Cells \ {NUL})
    BY CStrings
  <2>2. \A t \in Seq(Cells \ {NUL}) : t \in Seq(Cells)
    OBVIOUS
  <2> QED
    BY <1>2, <2>1, <2>2
<1>4. \A x \in Cells \cup {Garbage} : <<x>> # InvalidOperation
  BY <1>1
<1> QED
  BY <1>2, <1>3, <1>4

\* A complete update makes one item, which reads back as it was sent.
LEMMA CompleteItems ==
  ASSUME NEW m \in CompleteUpdates, NEW it \in buildEpicsStatusItem(m), NEW index \in Int
  PROVE  EpicsStatusItem(it, index)[it.type]
           = IF index \in 0..(m.count - 1) THEN m.elements[index + 1] ELSE InvalidOperation
<1>1. /\ m \in Forms /\ m.count \in 0..Len(m.elements)
      /\ \/ m.code = DataType.BYTE
         \/ /\ m.code = DataType.STRING
            /\ \A i \in 1..m.count : \A p \in 1..Len(m.elements[i]) : m.elements[i][p] # NUL
  BY DEF CompleteUpdates
<1>2. /\ m.elements \in Seq(Seq(Cells)) /\ Len(m.elements) \in Nat
      /\ m.count \in Int /\ m.count \in Nat
      /\ \A i \in 1..Len(m.elements) : m.elements[i] \in Seq(Cells)
  BY <1>1, FormsTyped
<1>3. CASE m.code = DataType.STRING
  <2>1. ~Truncated(m)
    BY <1>1, <1>2 DEF Truncated
  <2>2. /\ it.type = "STRING"
        /\ getDataAsString(it, index)
             = IF index \in 0..(m.count - 1) THEN CString(m.elements[index + 1])
               ELSE InvalidOperation
    BY <1>2, <1>3, <2>1, StringsReadBack
  <2>3. ASSUME index \in 0..(m.count - 1)
        PROVE  CString(m.elements[index + 1]) = m.elements[index + 1]
    <3>1. /\ index + 1 \in 1..m.count /\ index + 1 \in 1..Len(m.elements)
          /\ DataType.STRING # DataType.BYTE
      BY <1>1, <1>2, <2>3 DEF DataType
    <3>2. /\ m.elements[index + 1] \in Seq(Cells)
          /\ \A p \in 1..Len(m.elements[index + 1]) : m.elements[index + 1][p] # NUL
      BY <1>1, <1>2, <1>3, <3>1
    <3> QED
      BY <3>2, CStrings
  <2>4. EpicsStatusItem(it, index)["STRING"] = getDataAsString(it, index)
    BY DEF EpicsStatusItem
  <2> QED
    BY <2>2, <2>3, <2>4
<1>4. CASE m.code = DataType.BYTE
  <2>1. /\ it.type = "BYTE"
        /\ getDataAsByte(it, index)
             = IF index \notin 0..(m.count - 1) THEN InvalidOperation
               ELSE IF index < Len(m.elements) THEN <<m.elements[index + 1][1]>>
               ELSE <<Garbage>>
    BY <1>2, <1>4, BytesReadBack
  <2>2. ASSUME index \in 0..(m.count - 1)
        PROVE  index < Len(m.elements) /\ <<m.elements[index + 1][1]>> = m.elements[index + 1]
    <3>1. index < Len(m.elements) /\ index + 1 \in 1..Len(m.elements)
      BY <1>1, <1>2, <2>2
    <3>2. m.elements[index + 1] \in Seq(Cells) /\ Len(m.elements[index + 1]) = 1
      <4>1. m.code # DataType.STRING
        BY <1>4 DEF DataType
      <4> QED
        BY <1>1, <3>1, <4>1, FormsTyped, Zenon
    <3>3. \A s \in Seq(Cells) : Len(s) = 1 => <<s[1]>> = s
      OBVIOUS
    <3> QED
      BY <3>1, <3>2, <3>3
  <2>3. EpicsStatusItem(it, index)["BYTE"] = getDataAsByte(it, index)
    BY DEF EpicsStatusItem
  <2> QED
    BY <2>1, <2>2, <2>3
<1> QED
  BY <1>1, <1>3, <1>4

\* Neither the builder nor the handler of the example ends the program over an update
\* that is not unsafe.
LEMMA SafeItems ==
  ASSUME NEW m \in Forms, m \notin UnsafeUpdates, NEW it \in buildEpicsStatusItem(m)
  PROVE  it.outcome = "item" /\ ~EpicsHandlerDemoThrows(it)
<1>0. /\ m.count \in Int /\ m.elements \in Seq(Seq(Cells))
      /\ Len(m.elements) \in Nat
      /\ \A i \in 1..Len(m.elements) : m.elements[i] \in Seq(Cells)
  BY FormsTyped
<1>1. CASE m.code = DataType.STRING
  <2>1. ~Truncated(m)
    BY <1>1 DEF UnsafeUpdates
  <2>2. /\ it.outcome = "item" /\ it.type = "STRING" /\ it.count = m.count
        /\ \A index \in Int : getDataAsString(it, index)
             = IF index \in 0..(m.count - 1) THEN CString(m.elements[index + 1])
               ELSE InvalidOperation
    <3>1. 0 \in Int
      OBVIOUS
    <3> QED
      BY <1>0, <1>1, <2>1, <3>1, StringsReadBack
  <2>3. ASSUME NEW index \in 0..(m.count - 1)
        PROVE  EpicsStatusItem(it, index)["STRING"] # InvalidOperation
    <3>1. m.elements[index + 1] \in Seq(Cells)
      <4>1. index + 1 \in 1..Len(m.elements)
        BY <1>0, <2>1 DEF Truncated
      <4> QED
        BY <1>0, <4>1
    <3>2. EpicsStatusItem(it, index)["STRING"] = CString(m.elements[index + 1])
      BY <1>0, <2>2 DEF EpicsStatusItem
    <3> QED
      BY <3>1, <3>2, NoException
  <2> QED
    BY <2>2, <2>3 DEF EpicsHandlerDemoThrows, GetterOf
<1>2. CASE m.code = DataType.BYTE
  <2>1. m.count \in Nat
    BY <1>0, <1>2 DEF UnsafeUpdates
  <2>2. /\ it.outcome = "item" /\ it.type = "BYTE" /\ it.count = m.count
        /\ \A index \in Int : getDataAsByte(it, index)
             = IF index \notin 0..(m.count - 1) THEN InvalidOperation
               ELSE IF index < Len(m.elements) THEN <<m.elements[index + 1][1]>>
               ELSE <<Garbage>>
    <3>1. 0 \in Int
      OBVIOUS
    <3> QED
      BY <1>0, <1>2, <2>1, <3>1, BytesReadBack
  <2>3. ASSUME NEW index \in 0..(m.count - 1)
        PROVE  EpicsStatusItem(it, index)["BYTE"] # InvalidOperation
    <3>1. index < Len(m.elements) => m.elements[index + 1][1] \in Cells
      <4>1. index < Len(m.elements) => index + 1 \in 1..Len(m.elements)
        BY <1>0, <2>1
      <4>2. m.code # DataType.STRING
        BY <1>2 DEF DataType
      <4> QED
        BY <4>1, <4>2, FormsTyped, Zenon
    <3>2. EpicsStatusItem(it, index)["BYTE"]
            = IF index < Len(m.elements) THEN <<m.elements[index + 1][1]>> ELSE <<Garbage>>
      BY <2>1, <2>2 DEF EpicsStatusItem
    <3> QED
      BY <3>1, <3>2, NoException
  <2> QED
    BY <2>2, <2>3 DEF EpicsHandlerDemoThrows, GetterOf
<1>3. CASE m.code \in Numeric
  <2>1. m.count = 0
    BY <1>3 DEF UnsafeUpdates
  <2>2. \/ it \in Numbers(m, "SHORT", 2) \/ it \in Numbers(m, "INT", 4)
        \/ it \in Numbers(m, "FLOAT", 4) \/ it \in Numbers(m, "DOUBLE", 8)
    BY <1>3 DEF Numeric, DataType, buildEpicsStatusItem, JmsShortEpicsBuilder,
       JmsFloatEpicsBuilder, JmsIntEpicsBuilder, JmsDoubleEpicsBuilder
  <2>3. ASSUME NEW type, NEW size \in Nat, it \in Numbers(m, type, size)
        PROVE  it.outcome = "item" /\ ~EpicsHandlerDemoThrows(it)
    <3>1. it = Item(type, 0, FlattenSeq(m.elements))
      BY <1>0, <2>1, <2>3 DEF Numbers, Truncated, CannotAllocate
    <3> QED
      BY <3>1 DEF Item, EpicsHandlerDemoThrows
  <2> QED
    BY <2>2, <2>3
<1> QED
  BY <1>1, <1>2, <1>3 DEF UnsafeUpdates

\* What waits and what is handled has been published, and the item in a handler is
\* made of the update it handles.
ItemsInv ==
  /\ \A u \in 1..published : form[u] \in Forms \cup {OtherMessage}
  /\ \A c \in Consumers : \A i \in 1..Len(queue[c]) : queue[c][i] \in 1..published
  /\ \A c \in Consumers : handling[c] # 0 =>
       /\ handling[c] \in 1..published
       /\ form[handling[c]] # OtherMessage
       /\ item[c] \in buildEpicsStatusItem(form[handling[c]])
  /\ OnlyUnsafeUpdatesTerminate

\* Steps that publish and handle nothing, and may destroy what is queued.
LEMMA ItemsKept ==
  ASSUME TypeInv, ItemsInv, UNCHANGED updateVars,
         \A c \in Consumers : queue'[c] \in {queue[c], <<>>}
  PROVE  ItemsInv'
<1>1. /\ published' = published /\ form' = form /\ handling' = handling
      /\ item' = item /\ crashed' = crashed
  BY DEF updateVars
<1>2. ASSUME NEW c \in Consumers, NEW i \in 1..Len(queue'[c])
      PROVE  queue'[c][i] \in 1..published'
  BY <1>1, <1>2 DEF ItemsInv
<1> QED
  BY <1>1, <1>2 DEF ItemsInv, OnlyUnsafeUpdatesTerminate

LEMMA ItemsInvStep == TypeInv /\ ItemsInv /\ [Next]_vars => ItemsInv'
<1> SUFFICES ASSUME TypeInv, ItemsInv, [Next]_vars PROVE ItemsInv'
  OBVIOUS
<1> USE EpicsAssumption
<1>0. /\ published \in Nat /\ published \in 0..MaxUpdates
      /\ form \in [Updates -> Forms \cup {OtherMessage, NoUpdate}]
      /\ queue \in [Consumers -> Seq(Updates)]
      /\ handling \in [Consumers -> 0..MaxUpdates]
      /\ item \in [Consumers -> Items]
      /\ 1..published \subseteq Updates
  BY DEF TypeInv, TypeOK, Updates
<1>1. ASSUME Client PROVE ItemsInv'
  <2>1. UNCHANGED updateVars
    BY <1>1 DEF Client, Call, OpenSession, Configure, OpenServices, InstanceThrows,
       IsInitialized, RequestChannels, RequestTimesOut, RequestThrows, HasNoChannel,
       HasChannel, CreateConsumer, CreateConsumerThrows, StoreConsumer, EraseConsumer
  <2>2. \A c \in Consumers : queue'[c] \in {queue[c], <<>>}
    <3>1. CASE StoreConsumer \/ EraseConsumer
      BY <3>1 DEF StoreConsumer, EraseConsumer, Closed
    <3>2. CASE ~(StoreConsumer \/ EraseConsumer)
      BY <1>1, <3>2 DEF consumerVars, Client, Call, OpenSession, Configure,
         OpenServices, InstanceThrows, IsInitialized, RequestChannels, RequestTimesOut,
         RequestThrows, HasNoChannel, HasChannel, CreateConsumer, CreateConsumerThrows
    <3> QED
      BY <3>1, <3>2
  <2> QED
    BY <2>1, <2>2, ItemsKept
<1>2. ASSUME NEW ch \in Channels, NEW f \in Forms \cup {OtherMessage}, Publish(ch, f)
      PROVE  ItemsInv'
  <2>1. /\ published' = published + 1 /\ form' = [form EXCEPT ![published + 1] = f]
        /\ handling' = handling /\ item' = item /\ crashed' = crashed
        /\ published + 1 \in Updates
        /\ \A c \in Consumers :
             queue'[c] \in {queue[c], Append(queue[c], published + 1)}
    BY <1>0, <1>2 DEF Publish, Updates
  <2>2. \A u \in 1..published : form'[u] = form[u] /\ u \in 1..published'
    BY <1>0, <2>1
  <2>3. \A u \in 1..published' : form'[u] \in Forms \cup {OtherMessage}
    BY <1>0, <2>1, <2>2 DEF ItemsInv
  <2>4. ASSUME NEW c \in Consumers, NEW i \in 1..Len(queue'[c])
        PROVE  queue'[c][i] \in 1..published'
    <3>1. queue[c] \in Seq(Updates)
      BY <1>0
    <3>2. CASE queue'[c] = queue[c]
      BY <2>2, <3>2 DEF ItemsInv
    <3>3. CASE queue'[c] = Append(queue[c], published + 1)
      <4>1. CASE i \in 1..Len(queue[c])
        BY <2>2, <3>1, <3>3, <4>1 DEF ItemsInv
      <4>2. CASE i = Len(queue[c]) + 1
        BY <1>0, <2>1, <3>1, <3>3, <4>2
      <4> QED
        BY <3>1, <3>3, <4>1, <4>2
    <3> QED
      BY <2>1, <3>2, <3>3
  <2>5. \A c \in Consumers : handling'[c] # 0 =>
          /\ handling'[c] \in 1..published'
          /\ form'[handling'[c]] # OtherMessage
          /\ item'[c] \in buildEpicsStatusItem(form'[handling'[c]])
    BY <2>1, <2>2 DEF ItemsInv
  <2>6. OnlyUnsafeUpdatesTerminate'
    BY <2>1, <2>2 DEF ItemsInv, OnlyUnsafeUpdatesTerminate
  <2> QED
    BY <2>3, <2>4, <2>5, <2>6 DEF ItemsInv
<1>3. ASSUME NEW c \in Consumers, OnMessage(c), ~crashed PROVE ItemsInv'
  <2> DEFINE u == Head(queue[c])
  <2>1. /\ published' = published /\ form' = form
        /\ queue' = [queue EXCEPT ![c] = Tail(queue[c])] /\ queue[c] # <<>>
    BY <1>3 DEF OnMessage
  <2>2. u \in 1..published /\ form[u] \in Forms \cup {OtherMessage}
    <3>1. u = queue[c][1] /\ 1 \in 1..Len(queue[c])
      BY <1>0, <2>1
    <3> QED
      BY <3>1 DEF ItemsInv
  <2>3. ASSUME NEW d \in Consumers, NEW i \in 1..Len(queue'[d])
        PROVE  queue'[d][i] \in 1..published'
    <3>1. CASE d = c
      <4>1. queue'[d] = Tail(queue[c]) /\ queue[c] \in Seq(Updates)
        BY <1>0, <2>1, <3>1
      <4>2. i + 1 \in 1..Len(queue[c]) /\ queue'[d][i] = queue[c][i + 1]
        <5>1. \A q \in Seq(Updates) : q # <<>> =>
                /\ Len(Tail(q)) = Len(q) - 1
                /\ \A j \in 1..Len(Tail(q)) : j + 1 \in 1..Len(q) /\ Tail(q)[j] = q[j + 1]
          OBVIOUS
        <5> QED
          BY <2>1, <4>1, <5>1
      <4> QED
        BY <2>1, <4>2 DEF ItemsInv
    <3>2. CASE d # c
      BY <1>0, <2>1, <3>2 DEF ItemsInv
    <3> QED
      BY <3>1, <3>2
  <2>4. CASE form[u] = OtherMessage
    <3>1. UNCHANGED <<handling, item, crashed>>
      BY <1>3, <2>4 DEF OnMessage
    <3> QED
      BY <2>1, <2>3, <3>1 DEF ItemsInv, OnlyUnsafeUpdatesTerminate
  <2>5. CASE form[u] # OtherMessage
    <3>1. PICK built \in buildEpicsStatusItem(form[u]) :
            /\ handling' = [handling EXCEPT ![c] = u]
            /\ item' = [item EXCEPT ![c] = built]
            /\ crashed' = (built.outcome = "terminated")
      BY <1>3, <2>5 DEF OnMessage
    <3>2. \A d \in Consumers : handling'[d] # 0 =>
            /\ handling'[d] \in 1..published'
            /\ form'[handling'[d]] # OtherMessage
            /\ item'[d] \in buildEpicsStatusItem(form'[handling'[d]])
      BY <1>0, <2>1, <2>2, <2>5, <3>1 DEF ItemsInv
    <3>3. ASSUME crashed' PROVE form[u] \in UnsafeUpdates
      <4>1. built.outcome = "terminated"
        BY <3>1, <3>3
      <4> QED
        BY <2>2, <2>5, <4>1, SafeItems
    <3> QED
      BY <2>1, <2>2, <2>3, <3>2, <3>3 DEF ItemsInv, OnlyUnsafeUpdatesTerminate
  <2> QED
    BY <2>4, <2>5
<1>4. ASSUME NEW c \in Consumers, HandlerReturns(c), ~crashed PROVE ItemsInv'
  <2>1. /\ published' = published /\ form' = form /\ queue' = queue
        /\ handling' = [handling EXCEPT ![c] = 0]
        /\ item' = [item EXCEPT ![c] = NullItem] /\ ~crashed'
    BY <1>4 DEF HandlerReturns, consumerVars
  <2> QED
    BY <1>0, <2>1 DEF ItemsInv, OnlyUnsafeUpdatesTerminate
<1>5. ASSUME NEW c \in Consumers, HandlerThrows(c), ~crashed PROVE ItemsInv'
  <2>1. /\ published' = published /\ form' = form /\ queue' = queue
        /\ handling' = handling /\ item' = item
        /\ handling[c] # 0 /\ EpicsHandlerDemoThrows(item[c])
    BY <1>5 DEF HandlerThrows, consumerVars
  <2>2. /\ handling[c] \in 1..published /\ form[handling[c]] # OtherMessage
        /\ form[handling[c]] \in Forms
        /\ item[c] \in buildEpicsStatusItem(form[handling[c]])
    BY <2>1 DEF ItemsInv
  <2>3. form[handling[c]] \in UnsafeUpdates
    BY <2>1, <2>2, SafeItems
  <2> QED
    BY <2>1, <2>2, <2>3 DEF ItemsInv, OnlyUnsafeUpdatesTerminate
<1>6. ASSUME Disconnect \/ Reconnect \/ UNCHANGED vars PROVE ItemsInv'
  <2>1. UNCHANGED updateVars /\ \A c \in Consumers : queue'[c] \in {queue[c], <<>>}
    BY <1>6 DEF Disconnect, Reconnect, vars, consumerVars, updateVars
  <2> QED
    BY <2>1, ItemsKept
<1> QED
  BY <1>1, <1>2, <1>3, <1>4, <1>5, <1>6 DEF Next, Dispatch

LEMMA ItemsInvariant == Spec => [](TypeInv /\ ItemsInv)
<1>1. Init => ItemsInv
  <2> SUFFICES ASSUME Init PROVE ItemsInv
    OBVIOUS
  <2>1. /\ published = 0 /\ handling = [c \in Consumers |-> 0] /\ ~crashed
        /\ queue = [c \in Consumers |-> <<>>]
    BY DEF Init
  <2>2. \A c \in Consumers : Len(queue[c]) = 0 /\ handling[c] = 0
    BY <2>1
  <2> QED
    BY <2>1, <2>2 DEF ItemsInv, OnlyUnsafeUpdatesTerminate
<1> QED
  BY <1>1, InitTyped, TypeInvStep, ItemsInvStep, PTL DEF Spec

\* What a handler reads of a complete update is what was published, whatever was
\* subscribed, lost or unsubscribed before.
THEOREM ItemsAlwaysReadBack == Spec => []ItemsReadBack
<1>1. TypeInv /\ ItemsInv => ItemsReadBack
  <2> SUFFICES ASSUME TypeInv, ItemsInv, NEW c \in Consumers, handling[c] # 0,
                      form[handling[c]] \in CompleteUpdates,
                      NEW index \in -1..(form[handling[c]].count + 1)
               PROVE  EpicsStatusItem(item[c], index)[item[c].type]
                        = IF index \in 0..(form[handling[c]].count - 1)
                          THEN form[handling[c]].elements[index + 1] ELSE InvalidOperation
    BY DEF ItemsReadBack
  <2>1. item[c] \in buildEpicsStatusItem(form[handling[c]])
    BY DEF ItemsInv
  <2>2. index \in Int
    OBVIOUS
  <2> QED
    BY <2>1, <2>2, CompleteItems
<1> QED
  BY <1>1, ItemsInvariant, PTL

\* A program that was terminated has been sent an unsafe update: neither a builder
\* nor the handler of the example ends it over another one.
THEOREM OnlyUnsafeUpdatesEverTerminate == Spec => []OnlyUnsafeUpdatesTerminate
<1>1. ItemsInv => OnlyUnsafeUpdatesTerminate
  BY DEF ItemsInv
<1> QED
  BY <1>1, ItemsInvariant, PTL

-----------------------------------------------------------------------------
(* Consumers implement Delivery                                            *)

\* What the refinement needs of a state: queues are in the order of publication, and
\* a consumer that was destroyed has an empty queue and is not in its handler.
QueuesInOrder == \A c \in Consumers : InOrder(queue[c], published)

ClosedAreSilent ==
  \A c \in Consumers : c \notin open => queue[c] = <<>> /\ handling[c] = 0

DeliveryInv == QueuesInOrder /\ ClosedAreSilent

\* The queues as Delivery sees them.
Pending == [c \in Consumers |-> Range(queue[c])]

\* Steps that Delivery does not see.
LEMMA DeliveryKept ==
  ASSUME DeliveryInv, UNCHANGED <<created, open, published, queue, handling>>
  PROVE  DeliveryInv' /\ UNCHANGED (D!vars)
<1>1. Pending' = Pending
  BY DEF Pending
<1> QED
  BY <1>1 DEF DeliveryInv, QueuesInOrder, ClosedAreSilent, D!vars, Pending

LEMMA DeliveryCreate ==
  ASSUME TypeInv, DeliveryInv, CreateConsumer
  PROVE  DeliveryInv' /\ \E c \in Consumers : D!Join(c)
<1> DEFINE n == created + 1
<1>1. /\ created \in Nat /\ n \in Consumers /\ n \notin 1..created
      /\ 1..created' = (1..created) \cup {n}
      /\ open' = open \cup {n} /\ UNCHANGED <<published, queue, handling>>
  <2>1. created \in Nat /\ created' = n /\ n \in Consumers
    <3>1. created \in Nat /\ created < calls /\ calls \in 0..MaxCalls /\ MaxCalls \in Nat
      BY CreatedConsumers, EpicsAssumption DEF CreateConsumer, TypeInv, TypeOK, CountInv
    <3>2. created + 1 \in Consumers
      BY <3>1 DEF Consumers
    <3> QED
      BY <3>1, <3>2 DEF CreateConsumer
  <2>2. n \notin 1..created /\ 1..n = (1..created) \cup {n}
    BY <2>1
  <2> QED
    BY <2>1, <2>2 DEF CreateConsumer, updateVars
<1> HIDE DEF n
<1>2. DeliveryInv'
  BY <1>1 DEF DeliveryInv, QueuesInOrder, ClosedAreSilent
<1>3. Pending' = Pending
  BY <1>1 DEF Pending
<1>4. D!Join(n)
  BY <1>1, <1>3 DEF D!Join, Pending
<1> QED
  BY <1>1, <1>2, <1>4

\* The consumer the map holds, if there is one, is destroyed.
LEMMA DeliveryClose ==
  ASSUME TypeInv, HolderInv, DeliveryInv, StoreConsumer \/ EraseConsumer
  PROVE  /\ DeliveryInv'
         /\ (\E c \in Consumers : D!Leave(c)) \/ UNCHANGED (D!vars)
<1> DEFINE h == holder[name]
<1>1. /\ h # 0 => handling[h] = 0
      /\ open' = open \ {h}
      /\ queue' = [d \in Consumers |-> IF d = h THEN <<>> ELSE queue[d]]
      /\ UNCHANGED <<created, published, handling>>
  BY DEF StoreConsumer, EraseConsumer, Closed, updateVars
<1>2. /\ h # 0 => h \in open /\ h \in Consumers
      /\ open \subseteq 1..created /\ 0 \notin open /\ 0 \notin Consumers
      /\ queue \in [Consumers -> Seq(Updates)] /\ published \in Nat
  <2>1. h \in 0..created /\ created \in Nat /\ 1..created \subseteq Consumers
    BY CreatedConsumers
  <2>2. h # 0 => h \in 1..created /\ holder[channel[h]] = h
    BY <2>1 DEF HolderInv, TypeInv, TypeOK
  <2> QED
    BY <2>1, <2>2 DEF HolderInv, TypeInv, TypeOK, Consumers
<1> HIDE DEF h
<1>3. DeliveryInv'
  BY <1>1, <1>2, QueueEmpty DEF DeliveryInv, QueuesInOrder, ClosedAreSilent
<1>4. CASE h = 0
  <2>1. Pending' = Pending /\ open' = open
    BY <1>1, <1>2, <1>4 DEF Pending
  <2> QED
    BY <1>1, <1>3, <2>1 DEF D!vars, Pending
<1>5. CASE h # 0
  <2>1. Pending' = [Pending EXCEPT ![h] = {}]
    BY <1>1, <1>2, <1>5, QueueEmpty DEF Pending
  <2>2. D!Leave(h)
    BY <1>1, <1>2, <1>5, <2>1 DEF D!Leave, Pending
  <2> QED
    BY <1>2, <1>3, <1>5, <2>2
<1> QED
  BY <1>4, <1>5

LEMMA DeliveryPublish ==
  ASSUME TypeInv, DeliveryInv, NEW ch, NEW f, Publish(ch, f)
  PROVE  DeliveryInv' /\ \E to \in SUBSET open : D!Publish(to)
<1> DEFINE to == {c \in open : channel[c] = ch /\ origin[c] = connection}
<1>1. /\ published \in Nat /\ published' = published + 1
      /\ queue' = [c \in Consumers |-> IF c \in to THEN Append(queue[c], published + 1)
                                       ELSE queue[c]]
      /\ UNCHANGED <<created, open, handling>>
  BY DEF Publish, TypeInv, TypeOK
<1>2. to \subseteq open
  OBVIOUS
<1> HIDE DEF to
<1>3. ASSUME NEW c \in Consumers
      PROVE  /\ InOrder(queue'[c], published')
             /\ Range(queue'[c]) = IF c \in to THEN Range(queue[c]) \cup {published + 1}
                                   ELSE Range(queue[c])
  <2>1. InOrder(queue[c], published)
    BY DEF DeliveryInv, QueuesInOrder
  <2>2. /\ InOrder(queue[c], published + 1)
        /\ InOrder(Append(queue[c], published + 1), published + 1)
        /\ Range(Append(queue[c], published + 1)) = Range(queue[c]) \cup {published + 1}
    BY <1>1, <2>1, QueueAppend
  <2> QED
    BY <1>1, <2>2
<1>4. DeliveryInv'
  BY <1>1, <1>2, <1>3 DEF DeliveryInv, QueuesInOrder, ClosedAreSilent
<1>5. Pending' = [c \in Consumers |-> IF c \in to THEN Pending[c] \cup {published + 1}
                                      ELSE Pending[c]]
  BY <1>3 DEF Pending
<1>6. D!Publish(to)
  BY <1>1, <1>5 DEF D!Publish, Pending
<1> QED
  BY <1>2, <1>4, <1>6

\* The update taken is the first of those that wait, handled or skipped.
LEMMA DeliveryOnMessage ==
  ASSUME TypeInv, DeliveryInv, NEW c \in Consumers, OnMessage(c)
  PROVE  /\ DeliveryInv'
         /\ \E m \in Pending[c] : D!Handle(c, m) \/ D!Skip(c, m)
<1> DEFINE m == Head(queue[c])
<1>1. /\ published \in Nat /\ handling[c] = 0 /\ queue[c] # <<>>
      /\ \/ handling' = handling
         \/ handling' = [handling EXCEPT ![c] = m]
      /\ queue' = [queue EXCEPT ![c] = Tail(queue[c])]
      /\ UNCHANGED <<created, open, published>>
      /\ queue \in [Consumers -> Seq(Updates)]
      /\ handling \in [Consumers -> 0..MaxUpdates]
  BY DEF OnMessage, TypeInv, TypeOK
<1>2. /\ m \in Range(queue[c]) /\ \A n \in Range(queue[c]) : m <= n
      /\ InOrder(Tail(queue[c]), published)
      /\ Range(Tail(queue[c])) = Range(queue[c]) \ {m}
  BY <1>1, QueueTake DEF DeliveryInv, QueuesInOrder
<1> HIDE DEF m
<1>3. c \in open
  BY <1>1 DEF DeliveryInv, ClosedAreSilent
<1>4. \A d \in Consumers :
        /\ queue'[d] = IF d = c THEN Tail(queue[c]) ELSE queue[d]
        /\ d # c => handling'[d] = handling[d]
  BY <1>1
<1>5. DeliveryInv'
  BY <1>1, <1>2, <1>3, <1>4 DEF DeliveryInv, QueuesInOrder, ClosedAreSilent
<1>6. /\ Pending' = [Pending EXCEPT ![c] = Pending[c] \ {m}]
      /\ Pending[c] = Range(queue[c])
  BY <1>2, <1>4 DEF Pending
<1>7. D!Takes(c, m)
  BY <1>1, <1>2, <1>3, <1>6 DEF D!Takes, Pending
<1> QED
  BY <1>1, <1>2, <1>5, <1>6, <1>7 DEF D!Handle, D!Skip

LEMMA DeliveryStep ==
  ASSUME TypeInv, HolderInv, DeliveryInv, [Next]_vars
  PROVE  DeliveryInv' /\ [D!Next]_(D!vars)
<1>1. CASE CreateConsumer
  BY <1>1, DeliveryCreate DEF D!Next
<1>2. CASE StoreConsumer \/ EraseConsumer
  BY <1>2, DeliveryClose DEF D!Next
<1>3. ASSUME NEW ch \in Channels, NEW f \in Forms \cup {OtherMessage}, Publish(ch, f)
      PROVE  DeliveryInv' /\ [D!Next]_(D!vars)
  BY <1>3, DeliveryPublish DEF D!Next
<1>4. ASSUME NEW c \in Consumers, OnMessage(c)
      PROVE  DeliveryInv' /\ [D!Next]_(D!vars)
  BY <1>4, DeliveryOnMessage DEF D!Next, Pending
<1>5. ASSUME NEW c \in Consumers, HandlerReturns(c)
      PROVE  DeliveryInv' /\ [D!Next]_(D!vars)
  <2>1. /\ handling[c] # 0 /\ handling' = [handling EXCEPT ![c] = 0]
        /\ UNCHANGED <<created, open, published, queue>>
        /\ handling \in [Consumers -> 0..MaxUpdates]
    BY <1>5 DEF HandlerReturns, TypeInv, TypeOK, consumerVars
  <2>2. DeliveryInv'
    BY <2>1 DEF DeliveryInv, QueuesInOrder, ClosedAreSilent
  <2>3. Pending' = Pending
    BY <2>1 DEF Pending
  <2>4. D!Finish(c)
    BY <2>1, <2>3 DEF D!Finish, Pending
  <2> QED
    BY <2>2, <2>4 DEF D!Next
<1>6. CASE Disconnect
  <2>1. /\ queue' = [c \in Consumers |-> <<>>] /\ published \in Nat
        /\ UNCHANGED <<created, open, published, handling>>
    BY <1>6 DEF Disconnect, updateVars, TypeInv, TypeOK
  <2>2. DeliveryInv'
    BY <2>1, QueueEmpty DEF DeliveryInv, QueuesInOrder, ClosedAreSilent
  <2>3. Pending' = [c \in Consumers |-> {}]
    BY <2>1, QueueEmpty DEF Pending
  <2>4. D!Lose
    BY <2>1, <2>3 DEF D!Lose, Pending
  <2> QED
    BY <2>2, <2>4 DEF D!Next
<1>7. ASSUME \/ \E o \in Operations, ch \in Channels : Call(o, ch)
             \/ OpenSession \/ Configure \/ OpenServices \/ InstanceThrows
             \/ IsInitialized \/ RequestChannels \/ RequestTimesOut
             \/ RequestThrows \/ HasNoChannel \/ HasChannel
             \/ CreateConsumerThrows
             \/ \E c \in Consumers : HandlerThrows(c)
             \/ Reconnect
             \/ UNCHANGED vars
      PROVE  DeliveryInv' /\ [D!Next]_(D!vars)
  <2>1. UNCHANGED <<created, open, published, queue, handling>>
    BY <1>7 DEF consumerVars, updateVars, vars, Call, OpenSession, Configure,
       OpenServices, InstanceThrows, IsInitialized, RequestChannels, RequestTimesOut,
       RequestThrows, HasNoChannel, HasChannel, CreateConsumerThrows, HandlerThrows,
       Reconnect
  <2> QED
    BY <2>1, DeliveryKept
<1> QED
  BY <1>1, <1>2, <1>3, <1>4, <1>5, <1>6, <1>7 DEF Next, Client, Dispatch

\* However channels are subscribed, subscribed again and undone while the connection
\* comes and goes, each consumer hands its handler the updates published while it
\* existed, in order, one at a time and each of them once, and none after it was
\* destroyed.
THEOREM UpdatesImplementDelivery == Spec => ImplementsDelivery
<1>1. Init => DeliveryInv /\ D!Init
  <2> SUFFICES ASSUME Init PROVE DeliveryInv /\ D!Init
    OBVIOUS
  <2>1. /\ created = 0 /\ published = 0 /\ open = {} /\ 1..created = {}
        /\ queue = [c \in Consumers |-> <<>>]
        /\ handling = [c \in Consumers |-> 0]
    BY DEF Init
  <2>2. DeliveryInv
    BY <2>1, QueueEmpty DEF DeliveryInv, QueuesInOrder, ClosedAreSilent
  <2>3. Pending = [c \in Consumers |-> {}]
    BY <2>1, QueueEmpty DEF Pending
  <2> QED
    BY <2>1, <2>2, <2>3 DEF D!Init, Pending
<1>2. TypeInv /\ HolderInv /\ DeliveryInv /\ [Next]_vars
        => DeliveryInv' /\ [D!Next]_(D!vars)
  BY DeliveryStep
<1> QED
  BY <1>1, <1>2, HolderInvariant, PTL DEF Spec, ImplementsDelivery, D!Spec
=============================================================================

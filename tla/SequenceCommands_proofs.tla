---------------------- MODULE SequenceCommands_proofs ----------------------
(***************************************************************************)
(* Proofs about SequenceCommands, for every set of topics and every number *)
(* of subscriptions and commands.                                          *)
(***************************************************************************)
EXTENDS SequenceCommands, Queues_proofs, TLAPS

-----------------------------------------------------------------------------
(* Lemmas about the two tables and about sequences                         *)

\* What registerConsumer files a consumer under, and what it receives, for each
\* activity set: the entries are activities it receives, and every activity it
\* receives has an entry, except that SET_PRESET_START has the only entry for
\* PRESET_START.
LEMMA Tables ==
  ASSUME NEW s \in ActivitySets
  PROVE  /\ Selector[s] \subseteq Activities
         /\ Entries[s] \in Seq(Activities)
         /\ \A i \in 1..Len(Entries[s]) :
              /\ Entries[s][i] \in Selector[s] \/ Selector[s] = {}
              /\ Entries[s][i] = "PRESET_START" => s = "SET_PRESET_START"
         /\ \A a \in Selector[s] \ {"PRESET_START"} :
              \E i \in 1..Len(Entries[s]) :
                Entries[s][i] = IF s = "SET_PRESET_START" THEN "PRESET_START"
                                ELSE a
<1>1. CASE s = "SET_PRESET"
  BY <1>1 DEF Selector, Entries, Activities
<1>2. CASE s = "SET_START"
  BY <1>2 DEF Selector, Entries, Activities
<1>3. CASE s = "SET_PRESET_START"
  BY <1>3 DEF Selector, Entries, Activities
<1>4. CASE s = "SET_CANCEL"
  BY <1>4 DEF Selector, Entries, Activities
<1>5. CASE s = "SET_PRESET_CANCEL"
  BY <1>5 DEF Selector, Entries, Activities
<1>6. CASE s = "SET_START_CANCEL"
  BY <1>6 DEF Selector, Entries, Activities
<1>7. CASE s = "SET_PRESET_START_CANCEL"
  BY <1>7 DEF Selector, Entries, Activities
<1> QED
  BY <1>1, <1>2, <1>3, <1>4, <1>5, <1>6, <1>7 DEF ActivitySets, Selector

\* The elements of a sequence are its head and the elements of its tail.
LEMMA HeadOrTail ==
  ASSUME NEW S, NEW s \in Seq(S), s # <<>>
  PROVE  /\ Head(s) \in S
         /\ Tail(s) \in Seq(S)
         /\ Head(s) = s[1] /\ 1 \in 1..Len(s)
         /\ \A i \in 1..Len(Tail(s)) : i + 1 \in 1..Len(s) /\ Tail(s)[i] = s[i + 1]
         /\ \A i \in 1..Len(s) :
              s[i] = Head(s) \/ \E j \in 1..Len(Tail(s)) : Tail(s)[j] = s[i]
<1>1. /\ Head(s) \in S /\ Tail(s) \in Seq(S) /\ Head(s) = s[1]
      /\ Len(s) \in Nat /\ Len(s) > 0 /\ Len(Tail(s)) = Len(s) - 1
      /\ \A i \in 1..Len(Tail(s)) : Tail(s)[i] = s[i + 1]
  OBVIOUS
<1>2. ASSUME NEW i \in 1..Len(s), i # 1
      PROVE  i - 1 \in 1..Len(Tail(s)) /\ Tail(s)[i - 1] = s[i]
  BY <1>1, <1>2
<1> QED
  BY <1>1, <1>2

-----------------------------------------------------------------------------
(* Type correctness                                                        *)

LEMMA TypeOKStep == TypeOK /\ [Next]_vars => TypeOK'
<1> SUFFICES ASSUME TypeOK, [Next]_vars PROVE TypeOK'
  OBVIOUS
<1> USE SequenceCommandsAssumption
    DEF TypeOK, Consumers, Commands, consumerVars, commandVars
<1>1. ASSUME NEW t \in Topics, NEW s \in ActivitySets, CreateConsumer(t, s)
      PROVE  TypeOK'
  <2>1. todo' \in Seq(Activities)
    BY <1>1, Tables DEF CreateConsumer
  <2>2. created' \in 1..MaxSubscriptions
    BY <1>1 DEF CreateConsumer
  <2> QED
    BY <1>1, <2>1, <2>2 DEF CreateConsumer
<1>2. ASSUME NEW t \in Topics, NEW s \in ActivitySets, CreateConsumerThrows(t, s)
      PROVE  TypeOK'
  BY <1>2 DEF CreateConsumerThrows
<1>3. ASSUME RegisterActivity PROVE TypeOK'
  <2>1. Head(todo) \in Activities /\ todo' \in Seq(Activities)
    BY <1>3, HeadOrTail DEF RegisterActivity
  <2>2. registering \in 1..MaxSubscriptions
    BY <1>3 DEF RegisterActivity
  <2>3. holder' \in [Topics -> [Activities -> 0..MaxSubscriptions]]
    BY <1>3, <2>1, <2>2 DEF RegisterActivity
  <2>4. queue' \in [Consumers -> Seq(Commands)]
    <3>1. /\ DOMAIN queue' = Consumers
          /\ queue' = [c \in Consumers |-> queue'[c]]
          /\ \A c \in Consumers : queue'[c] \in {<<>>, queue[c]}
      BY <1>3 DEF RegisterActivity
    <3>2. <<>> \in Seq(Commands)
      OBVIOUS
    <3>3. \A c \in Consumers : queue'[c] \in Seq(Commands)
      BY <3>1, <3>2
    <3> QED
      BY <3>1, <3>3
  <2> QED
    BY <1>3, <2>1, <2>3, <2>4 DEF RegisterActivity
<1>4. ASSUME SubscribeReturns PROVE TypeOK'
  BY <1>4 DEF SubscribeReturns
<1>5. ASSUME NEW t \in Topics, NEW a \in Activities, Publish(t, a) PROVE TypeOK'
  <2> DEFINE m == published + 1
  <2>1. m \in Commands
    BY <1>5 DEF Publish
  <2>2. Listeners(t, a) \subseteq Consumers
    BY DEF Listeners
  <2>3. queue' \in [Consumers -> Seq(Commands)]
    <3>1. \A c \in Consumers : Append(queue[c], m) \in Seq(Commands)
      BY <2>1
    <3> QED
      BY <1>5, <3>1 DEF Publish
  <2>4. recipients' \in [Commands -> SUBSET Consumers]
    BY <1>5, <2>1, <2>2 DEF Publish
  <2>5. published' \in 0..MaxCommands /\ noReplyTo' \subseteq 1..published'
    BY <1>5 DEF Publish
  <2> QED
    BY <1>5, <2>3, <2>4, <2>5 DEF Publish
<1>6. ASSUME NEW c \in Consumers, OnMessage(c) PROVE TypeOK'
  <2>1. Head(queue[c]) \in Commands /\ Tail(queue[c]) \in Seq(Commands)
    BY <1>6, HeadOrTail DEF OnMessage
  <2>2. queue' \in [Consumers -> Seq(Commands)]
    BY <1>6, <2>1 DEF OnMessage
  <2>3. handling' \in [Consumers -> 0..MaxCommands]
    <3> DEFINE m == Head(queue[c])
    <3>1. m \in 0..MaxCommands
      BY <2>1
    <3>2. handling' = [handling EXCEPT ![c] = m]
      BY <1>6 DEF OnMessage
    <3> HIDE DEF m
    <3> QED
      BY <3>1, <3>2
  <2> QED
    BY <1>6, <2>2, <2>3 DEF OnMessage
<1>7. ASSUME NEW c \in Consumers, Reply(c) PROVE TypeOK'
  <2>1. answers' \in [Commands -> Seq(Consumers)]
    <3>1. \A m \in Commands : Append(answers[m], c) \in Seq(Consumers)
      OBVIOUS
    <3> QED
      BY <1>7, <3>1 DEF Reply
  <2>2. handling' \in [Consumers -> 0..MaxCommands]
    <3>1. 0 \in 0..MaxCommands
      OBVIOUS
    <3> QED
      BY <1>7, <3>1, Zenon DEF Reply
  <2>3. UNCHANGED <<consumerVars, holder, registering, todo, result, queue,
                    published, noReplyTo, recipients, sendFailures>>
    BY <1>7, Zenon DEF Reply
  <2> QED
    BY <2>1, <2>2, <2>3
<1>8. ASSUME NEW c \in Consumers, ReplyThrows(c) PROVE TypeOK'
  BY <1>8 DEF ReplyThrows
<1>9. CASE UNCHANGED vars
  BY <1>9 DEF vars
<1> QED
  BY <1>1, <1>2, <1>3, <1>4, <1>5, <1>6, <1>7, <1>8, <1>9
  DEF Next, Client, Dispatch

\* Every step keeps every variable within its type.
THEOREM TypeCorrect == Spec => []TypeOK
<1>1. Init => TypeOK
  <2> SUFFICES ASSUME Init PROVE TypeOK
    OBVIOUS
  <2>1. topic \in [Consumers -> Topics] /\ set \in [Consumers -> ActivitySets]
    BY SequenceCommandsAssumption DEF Init, ActivitySets, Selector
  <2>2. /\ queue \in [Consumers -> Seq(Commands)]
        /\ answers \in [Commands -> Seq(Consumers)]
        /\ todo \in Seq(Activities)
    BY DEF Init
  <2>3. holder \in [Topics -> [Activities -> 0..MaxSubscriptions]]
    BY SequenceCommandsAssumption DEF Init
  <2>4. /\ handling \in [Consumers -> 0..MaxCommands]
        /\ recipients \in [Commands -> SUBSET Consumers]
    BY SequenceCommandsAssumption DEF Init
  <2>5. /\ created \in 0..MaxSubscriptions /\ registering \in {0, created}
        /\ published \in 0..MaxCommands /\ noReplyTo \subseteq 1..published
        /\ sendFailures \in 0..MaxSendFailures
        /\ result \in {"OK", "CommunicationException"}
    BY SequenceCommandsAssumption DEF Init
  <2> QED
    BY <2>1, <2>2, <2>3, <2>4, <2>5 DEF TypeOK
<1> QED
  BY <1>1, TypeOKStep, PTL DEF Spec

-----------------------------------------------------------------------------
(* The consumer an ActivityHolder holds, and the most recent consumer      *)

\* The entry that keeps consumer c alive for activity a.
Key(c, a) == IF set[c] = "SET_PRESET_START" THEN "PRESET_START" ELSE a

\* Entry a of a consumer, filed or about to be, is an activity it receives; an
\* entry for PRESET_START comes from SET_PRESET_START.
FiledUnder(c, a) ==
  a \in Selects(c) /\ (a = "PRESET_START" => set[c] = "SET_PRESET_START")

\* The strengthening of HolderReceives and MostRecentIsUsed: the most recent
\* consumer for an activity has its key entry, or is about to write it.  It is
\* inductive because a consumer that overwrites the key entry of another one
\* receives the same activity and is more recent.
Filed ==
  \A t \in Topics, a \in Activities :
    holder[t][a] # 0 => FiledUnder(holder[t][a], a)

ToBeFiled ==
  registering # 0 => \A i \in 1..Len(todo) : FiledUnder(registering, todo[i])

MostRecentHasKey ==
  \A c \in Consumers, a \in Activities \ {"PRESET_START"} :
    MostRecent(c, a) =>
      \/ holder[topic[c]][Key(c, a)] = c
      \/ c = registering /\ \E i \in 1..Len(todo) : todo[i] = Key(c, a)

HolderInv == HolderReceives /\ Filed /\ ToBeFiled /\ MostRecentHasKey

\* The invariant looks at no more than these variables.
HolderVars == <<created, topic, set, holder, registering, todo>>

LEMMA HolderInvKept == HolderInv /\ UNCHANGED HolderVars => HolderInv'
BY DEF HolderInv, Filed, ToBeFiled, MostRecentHasKey, HolderVars,
       HolderReceives, FiledUnder, MostRecent, Key, Selects

\* A new consumer is the most recent one for whatever it receives on its topic,
\* and about to write its entries.
LEMMA HolderInvCreate ==
  ASSUME TypeOK, HolderInv, NEW t \in Topics, NEW s \in ActivitySets,
         CreateConsumer(t, s)
  PROVE  HolderInv'
<1> DEFINE n == created + 1
<1>1. /\ n \in Consumers /\ n \in Nat /\ n # 0 /\ created \in Nat
      /\ created' = n /\ registering' = n /\ registering = 0
      /\ todo' = Entries[s] /\ holder' = holder
      /\ topic'[n] = t /\ set'[n] = s
      /\ \A c \in 1..created : topic'[c] = topic[c] /\ set'[c] = set[c]
      /\ 1..created' = 1..created \cup {n}
  BY SequenceCommandsAssumption DEF CreateConsumer, TypeOK, Consumers
<1>2. Selector[s] # {}
  BY DEF CreateConsumer
<1>3. \A u \in Topics, a \in Activities : holder[u][a] # 0 =>
        /\ holder[u][a] \in 1..created /\ topic[holder[u][a]] = u
        /\ FiledUnder(holder[u][a], a)
  BY DEF HolderInv, Filed, HolderReceives
<1>4. HolderReceives' /\ Filed'
  BY <1>1, <1>3 DEF HolderReceives, Filed, FiledUnder, Selects
<1>5. ToBeFiled'
  <2>1. \A i \in 1..Len(Entries[s]) :
          /\ Entries[s][i] \in Selector[s]
          /\ Entries[s][i] = "PRESET_START" => s = "SET_PRESET_START"
    BY <1>2, Tables
  <2> QED
    BY <1>1, <2>1 DEF ToBeFiled, FiledUnder, Selects
<1>6. ASSUME NEW c \in Consumers, NEW a \in Activities \ {"PRESET_START"},
             MostRecent(c, a)'
      PROVE  \/ holder'[topic'[c]][Key(c, a)'] = c
             \/ c = n /\ \E i \in 1..Len(todo') : todo'[i] = Key(c, a)'
  <2>1. CASE c = n
    <3>1. a \in Selector[s]
      BY <1>1, <1>6, <2>1 DEF MostRecent, Selects
    <3>2. Key(c, a)' = IF s = "SET_PRESET_START" THEN "PRESET_START" ELSE a
      BY <1>1, <2>1 DEF Key
    <3> QED
      BY <1>1, <2>1, <3>1, <3>2, Tables
  <2>2. CASE c # n
    <3>1. c \in 1..created
      BY <1>1, <1>6, <2>2 DEF MostRecent
    <3>2. MostRecent(c, a) /\ Key(c, a)' = Key(c, a) /\ topic'[c] = topic[c]
      BY <1>1, <1>6, <3>1 DEF MostRecent, Selects, Key
    <3>3. c # 0 /\ c # registering
      BY <1>1, <3>1
    <3> QED
      BY <1>1, <3>2, <3>3 DEF HolderInv, MostRecentHasKey
  <2> QED
    BY <2>1, <2>2
<1>7. MostRecentHasKey'
  BY <1>1, <1>6 DEF MostRecentHasKey
<1> QED
  BY <1>4, <1>5, <1>7 DEF HolderInv

\* The consumer being stored writes one entry.  Should the entry have been the
\* key of another consumer of the topic, that one is not the most recent any more.
LEMMA HolderInvRegister ==
  ASSUME TypeOK, HolderInv, RegisterActivity
  PROVE  HolderInv'
<1> DEFINE r == registering
           t == topic[r]
           b == Head(todo)
<1>1. /\ r = created /\ r \in 1..created /\ r \in Consumers /\ t \in Topics
      /\ todo # <<>> /\ todo \in Seq(Activities) /\ created \in Nat
      /\ UNCHANGED <<created, topic, set, registering>> /\ todo' = Tail(todo)
      /\ holder' = [holder EXCEPT ![t][b] = r]
  BY SequenceCommandsAssumption DEF RegisterActivity, TypeOK, Consumers,
     consumerVars
<1>2. /\ b \in Activities /\ FiledUnder(r, b)
      /\ \A i \in 1..Len(todo') : FiledUnder(r, todo'[i])
      /\ \A i \in 1..Len(todo) :
           todo[i] = b \/ \E j \in 1..Len(todo') : todo'[j] = todo[i]
  <2>1. \A i \in 1..Len(todo) : FiledUnder(r, todo[i])
    BY <1>1 DEF HolderInv, ToBeFiled
  <2>2. /\ b \in Activities /\ b = todo[1] /\ 1 \in 1..Len(todo)
        /\ \A i \in 1..Len(todo') :
             i + 1 \in 1..Len(todo) /\ todo'[i] = todo[i + 1]
        /\ \A i \in 1..Len(todo) :
             todo[i] = b \/ \E j \in 1..Len(todo') : todo'[j] = todo[i]
    BY <1>1, HeadOrTail
  <2> QED
    BY <2>1, <2>2
<1>3. \A u \in Topics, a \in Activities :
        holder'[u][a] = IF u = t /\ a = b THEN r ELSE holder[u][a]
  BY <1>1, <1>2 DEF TypeOK
<1>4. HolderReceives'
  <2>1. \A u \in Topics, a \in Activities : holder[u][a] # 0 =>
          /\ holder[u][a] \in 1..created /\ topic[holder[u][a]] = u
          /\ a \in Selects(holder[u][a])
    BY DEF HolderInv, HolderReceives
  <2>2. b \in Selects(r)
    BY <1>2 DEF FiledUnder
  <2> QED
    BY <1>1, <1>3, <2>1, <2>2 DEF HolderReceives, Selects
<1>5. Filed'
  BY <1>1, <1>2, <1>3 DEF HolderInv, Filed, FiledUnder, Selects
<1>6. ToBeFiled'
  BY <1>1, <1>2 DEF ToBeFiled, FiledUnder, Selects
<1>7. ASSUME NEW c \in Consumers, NEW a \in Activities \ {"PRESET_START"},
             MostRecent(c, a)
      PROVE  \/ holder'[topic[c]][Key(c, a)] = c
             \/ c = r /\ \E i \in 1..Len(todo') : todo'[i] = Key(c, a)
  <2> DEFINE k == Key(c, a)
  <2>1. c \in 1..created /\ topic[c] \in Topics /\ k \in Activities
    BY <1>7 DEF MostRecent, TypeOK, Key, Activities
  <2>2. CASE holder[topic[c]][k] = c /\ topic[c] = t /\ k = b
    <3>1. CASE c = r
      BY <1>3, <2>1, <2>2, <3>1
    <3>2. CASE c # r
      <4>1. r > c
        BY <1>1, <2>1, <3>2
      <4>2. a \notin Selects(r)
        BY <1>1, <1>7, <2>2, <4>1 DEF MostRecent
      <4>3. CASE set[c] = "SET_PRESET_START"
        <5>1. b = "PRESET_START" /\ set[r] = "SET_PRESET_START"
          BY <1>2, <2>2, <4>3 DEF Key, FiledUnder
        <5>2. a \in Selects(c)
          BY <1>7 DEF MostRecent
        <5> QED
          BY <4>2, <4>3, <5>1, <5>2 DEF Selects
      <4>4. CASE set[c] # "SET_PRESET_START"
        BY <1>2, <2>2, <4>2, <4>4 DEF Key, FiledUnder
      <4> QED
        BY <4>3, <4>4
    <3> QED
      BY <3>1, <3>2
  <2>3. CASE holder[topic[c]][k] = c /\ ~(topic[c] = t /\ k = b)
    BY <1>3, <2>1, <2>3
  <2>4. CASE c = r /\ \E i \in 1..Len(todo) : todo[i] = k
    BY <1>2, <1>3, <2>1, <2>4
  <2> QED
    BY <1>7, <2>2, <2>3, <2>4 DEF HolderInv, MostRecentHasKey
<1>8. MostRecentHasKey'
  <2>1. \A c, a : MostRecent(c, a)' <=> MostRecent(c, a)
    BY <1>1 DEF MostRecent, Selects
  <2>2. \A c, a : Key(c, a)' = Key(c, a)
    BY <1>1 DEF Key
  <2> QED
    BY <1>1, <1>7, <2>1, <2>2 DEF MostRecentHasKey
<1> QED
  BY <1>4, <1>5, <1>6, <1>8 DEF HolderInv

LEMMA HolderInvStep == TypeOK /\ HolderInv /\ [Next]_vars => HolderInv'
<1> SUFFICES ASSUME TypeOK, HolderInv, [Next]_vars PROVE HolderInv'
  OBVIOUS
<1>1. CASE \E t \in Topics, s \in ActivitySets : CreateConsumer(t, s)
  BY <1>1, HolderInvCreate
<1>2. CASE RegisterActivity
  BY <1>2, HolderInvRegister
<1>3. CASE SubscribeReturns
  <2>1. /\ todo = <<>> /\ registering' = 0
        /\ UNCHANGED <<created, topic, set, holder, todo>>
    BY <1>3 DEF SubscribeReturns, consumerVars
  <2>2. 1..Len(todo) = {}
    BY <2>1
  <2> QED
    BY <2>1, <2>2 DEF HolderInv, Filed, ToBeFiled, MostRecentHasKey,
       HolderReceives, FiledUnder, MostRecent, Key, Selects
<1>4. CASE \E t \in Topics, s \in ActivitySets : CreateConsumerThrows(t, s)
  BY <1>4, HolderInvKept DEF CreateConsumerThrows, HolderVars, consumerVars
<1>5. CASE \E t \in Topics, a \in Activities : Publish(t, a)
  BY <1>5, HolderInvKept DEF Publish, HolderVars, consumerVars
<1>6. CASE \E c \in Consumers : Dispatch(c)
  BY <1>6, HolderInvKept
  DEF Dispatch, OnMessage, Reply, ReplyThrows, HolderVars, consumerVars
<1>7. CASE UNCHANGED vars
  BY <1>7, HolderInvKept DEF vars, HolderVars
<1> QED
  BY <1>1, <1>2, <1>3, <1>4, <1>5, <1>6, <1>7 DEF Next, Client

LEMMA HolderInvAlways == Spec => [](TypeOK /\ HolderInv)
<1>1. Init => HolderInv
  BY SequenceCommandsAssumption DEF Init, HolderInv, Filed, ToBeFiled,
     MostRecentHasKey, HolderReceives, MostRecent
<1> QED
  BY <1>1, TypeCorrect, HolderInvStep, PTL DEF Spec

\* buildSelector and registerConsumer agree on every activity set: a consumer is
\* only ever held for an activity it receives, on the topic it listens to.
THEOREM HolderAlwaysReceives == Spec => []HolderReceives
<1>1. HolderInv => HolderReceives
  BY DEF HolderInv
<1> QED
  BY <1>1, HolderInvAlways, PTL

\* The most recent consumer for PRESET, START or CANCEL on a topic is never
\* destroyed, for any number of subscriptions on any topics.
THEOREM MostRecentAlwaysUsed == Spec => []MostRecentIsUsed
<1>1. TypeOK /\ HolderInv => MostRecentIsUsed
  <2> SUFFICES ASSUME TypeOK, HolderInv, NEW c \in Consumers,
                      NEW a \in Activities \ {"PRESET_START"}, MostRecent(c, a)
               PROVE  Alive(c)
    BY DEF MostRecentIsUsed
  <2>1. c \in 1..created /\ topic[c] \in Topics /\ Key(c, a) \in Activities
    BY DEF MostRecent, TypeOK, Key, Activities
  <2>2. holder[topic[c]][Key(c, a)] = c \/ c = registering
    BY DEF HolderInv, MostRecentHasKey
  <2> QED
    BY <2>1, <2>2 DEF Alive, Registered
<1> QED
  BY <1>1, HolderInvAlways, PTL
-----------------------------------------------------------------------------
(* Answers                                                                 *)

\* A consumer that has command m before it was sent it, and has not answered.
Owes(c, m) == m \in 1..published /\ c \in recipients[m] /\ ~Answered(m, c)

\* The strengthening of AnsweredOnce: a command waits in a queue once, not in that
\* of a consumer that is handling it, and is owed an answer while it waits and
\* while it is handled; what is not published has no answers.
Waiting ==
  \A c \in Consumers : \A k \in 1..Len(queue[c]) : \A m : m = queue[c][k] =>
    /\ Owes(c, m)
    /\ m # handling[c]
    /\ \A j \in 1..Len(queue[c]) : queue[c][j] = m => j = k

InHand == \A c \in Consumers : \A m : m = handling[c] /\ m # 0 => Owes(c, m)

Unpublished == \A m \in Commands : m > published => answers[m] = <<>>

AnswerInv == Waiting /\ InHand /\ Unpublished /\ AnsweredOnce

LEMMA AnswerInvKept ==
  ASSUME AnswerInv, UNCHANGED <<published, handling, recipients, answers>>,
         \A c \in Consumers : queue'[c] = queue[c] \/ queue'[c] = <<>>
  PROVE  AnswerInv'
<1>1. Waiting'
  <2> SUFFICES ASSUME NEW c \in Consumers, NEW k \in 1..Len(queue'[c]),
                      NEW n, n = queue'[c][k]
               PROVE  /\ Owes(c, n)' /\ n # handling'[c]
                      /\ \A j \in 1..Len(queue'[c]) : queue'[c][j] = n => j = k
    BY DEF Waiting
  <2>1. queue'[c] = queue[c]
    <3>1. queue'[c] = <<>> => 1..Len(queue'[c]) = {}
      OBVIOUS
    <3> QED
      BY <3>1
  <2> QED
    BY <2>1 DEF AnswerInv, Waiting, Owes, Answered
<1> QED
  BY <1>1 DEF AnswerInv, InHand, Owes, Answered, Unpublished, AnsweredOnce

\* A new command is behind the ones that wait, and has no answers.
LEMMA AnswerInvPublish ==
  ASSUME TypeOK, AnswerInv, NEW t \in Topics, NEW a \in Activities, Publish(t, a)
  PROVE  AnswerInv'
<1> SUFFICES ASSUME NEW m, m = published + 1 PROVE AnswerInv'
  OBVIOUS
<1> DEFINE to == Listeners(t, a)
<1>1. /\ m \in Commands /\ published \in Nat /\ published' = m
      /\ recipients' = [recipients EXCEPT ![m] = to]
      /\ \A c \in Consumers : queue'[c] = IF c \in to THEN Append(queue[c], m)
                                          ELSE queue[c]
      /\ UNCHANGED <<handling, answers>>
      /\ recipients \in [Commands -> SUBSET Consumers]
  BY SequenceCommandsAssumption DEF Publish, TypeOK, Commands
<1> HIDE DEF to
<1>2. answers[m] = <<>>
  BY <1>1 DEF AnswerInv, Unpublished
<1>3. ASSUME NEW c, NEW n, Owes(c, n) PROVE Owes(c, n)' /\ n # m
  <2>1. n \in Commands /\ n # m /\ n \in 1..published' /\ n \in 1..published
    BY <1>1, <1>3, SequenceCommandsAssumption DEF Owes, Commands
  <2>2. recipients'[n] = recipients[n]
    BY <1>1, <2>1
  <2> QED
    BY <1>1, <1>3, <2>1, <2>2 DEF Owes, Answered
<1>4. \A c \in to : Owes(c, m)'
  <2>1. 1..Len(answers'[m]) = {}
    BY <1>1, <1>2
  <2>2. recipients'[m] = to /\ m \in 1..published'
    BY <1>1
  <2> QED
    BY <2>1, <2>2 DEF Owes, Answered
<1>5. Waiting'
  <2> SUFFICES ASSUME NEW c \in Consumers, NEW k \in 1..Len(queue'[c]),
                      NEW n, n = queue'[c][k]
               PROVE  /\ Owes(c, n)' /\ n # handling'[c]
                      /\ \A j \in 1..Len(queue'[c]) : queue'[c][j] = n => j = k
    BY DEF Waiting
  <2>0. queue[c] \in Seq(Commands)
    BY DEF TypeOK
  <2>1. \A j \in 1..Len(queue[c]) : \A q : q = queue[c][j] =>
          /\ Owes(c, q)' /\ q # handling[c] /\ q # m
          /\ \A i \in 1..Len(queue[c]) : queue[c][i] = q => i = j
    BY <1>3 DEF AnswerInv, Waiting
  <2>2. CASE c \notin to
    BY <1>1, <2>1, <2>2
  <2>3. CASE c \in to
    <3>0. queue'[c] = Append(queue[c], m) /\ m \in Commands
      BY <1>1, <2>3
    <3>1. /\ Len(queue[c]) \in Nat
          /\ Len(queue'[c]) = Len(queue[c]) + 1
          /\ queue'[c][Len(queue[c]) + 1] = m
          /\ \A j \in 1..Len(queue[c]) : queue'[c][j] = queue[c][j]
      BY <2>0, <3>0
    <3>2. handling'[c] # m
      BY <1>1, <1>3 DEF AnswerInv, InHand
    <3>3. CASE k \in 1..Len(queue[c])
      <4>1. n = queue[c][k]
        BY <3>1, <3>3
      <4>2. /\ Owes(c, n)' /\ n # handling[c] /\ n # m
            /\ \A i \in 1..Len(queue[c]) : queue[c][i] = n => i = k
        BY <2>1, <3>3, <4>1
      <4>3. ASSUME NEW j \in 1..Len(queue'[c]), queue'[c][j] = n PROVE j = k
        <5>1. j \in 1..Len(queue[c]) \/ j = Len(queue[c]) + 1
          BY <3>1
        <5>2. j # Len(queue[c]) + 1
          BY <3>1, <4>2, <4>3
        <5> QED
          BY <3>1, <4>2, <4>3, <5>1, <5>2
      <4> QED
        BY <1>1, <4>2, <4>3
    <3>4. CASE k = Len(queue[c]) + 1
      <4>1. n = m /\ Owes(c, m)'
        BY <1>4, <2>3, <3>1, <3>4
      <4>2. ASSUME NEW j \in 1..Len(queue'[c]), queue'[c][j] = m PROVE j = k
        BY <2>1, <3>1, <3>4, <4>2
      <4> QED
        BY <3>2, <4>1, <4>2
    <3> QED
      BY <3>1, <3>3, <3>4
  <2> QED
    BY <2>2, <2>3
<1>6. InHand'
  BY <1>1, <1>3 DEF AnswerInv, InHand
<1>7. Unpublished'
  BY <1>1 DEF AnswerInv, Unpublished, Commands
<1>8. AnsweredOnce'
  <2> SUFFICES ASSUME NEW n \in Commands
               PROVE  /\ \A i \in 1..Len(answers[n]) : answers[n][i] \in recipients'[n]
                      /\ \A i, j \in 1..Len(answers[n]) :
                           answers[n][i] = answers[n][j] => i = j
    BY <1>1 DEF AnsweredOnce
  <2>1. CASE n = m
    BY <1>2, <2>1
  <2>2. CASE n # m
    BY <1>1, <2>2 DEF AnswerInv, AnsweredOnce
  <2> QED
    BY <2>1, <2>2
<1> QED
  BY <1>5, <1>6, <1>7, <1>8 DEF AnswerInv

\* The first command in the queue is now in hand.
LEMMA AnswerInvOnMessage ==
  ASSUME TypeOK, AnswerInv, NEW c \in Consumers, OnMessage(c)
  PROVE  AnswerInv'
<1>1. /\ queue[c] # <<>> /\ queue[c] \in Seq(Commands)
      /\ queue'[c] = Tail(queue[c]) /\ handling'[c] = Head(queue[c])
      /\ \A d \in Consumers : d # c => queue'[d] = queue[d] /\ handling'[d] = handling[d]
      /\ UNCHANGED <<published, recipients, answers>>
  BY DEF OnMessage, TypeOK, commandVars
<1>2. /\ Head(queue[c]) = queue[c][1] /\ 1 \in 1..Len(queue[c])
      /\ \A i \in 1..Len(queue'[c]) :
           i \in Nat /\ i + 1 \in 1..Len(queue[c]) /\ queue'[c][i] = queue[c][i + 1]
  BY <1>1, HeadOrTail
<1>3. \A d, m : Owes(d, m)' <=> Owes(d, m)
  BY <1>1 DEF Owes, Answered
<1>4. Waiting'
  <2> SUFFICES ASSUME NEW d \in Consumers, NEW k \in 1..Len(queue'[d]),
                      NEW m, m = queue'[d][k]
               PROVE  /\ Owes(d, m) /\ m # handling'[d]
                      /\ \A j \in 1..Len(queue'[d]) : queue'[d][j] = m => j = k
    BY <1>3 DEF Waiting
  <2>1. CASE d = c
    <3>1. /\ k + 1 \in 1..Len(queue[c]) /\ queue'[c][k] = queue[c][k + 1]
          /\ k + 1 # 1
      BY <1>2, <2>1
    <3>2. Owes(c, queue[c][k + 1]) /\ queue[c][k + 1] # queue[c][1]
      BY <1>2, <3>1 DEF AnswerInv, Waiting
    <3>3. ASSUME NEW j \in 1..Len(queue'[c]), queue'[c][j] = queue'[c][k]
          PROVE  j = k
      <4>1. /\ j + 1 \in 1..Len(queue[c]) /\ queue[c][j + 1] = queue[c][k + 1]
            /\ j \in Nat /\ k \in Nat
        BY <1>2, <2>1, <3>1, <3>3
      <4>2. j + 1 = k + 1
        BY <3>1, <4>1 DEF AnswerInv, Waiting
      <4> QED
        BY <4>1, <4>2
    <3> QED
      BY <1>1, <1>2, <2>1, <3>1, <3>2, <3>3
  <2>2. CASE d # c
    BY <1>1, <2>2 DEF AnswerInv, Waiting
  <2> QED
    BY <2>1, <2>2
<1>5. InHand'
  <2>1. Owes(c, Head(queue[c]))
    BY <1>2 DEF AnswerInv, Waiting
  <2> QED
    BY <1>1, <1>3, <2>1 DEF AnswerInv, InHand
<1> QED
  BY <1>1, <1>4, <1>5 DEF AnswerInv, Unpublished, AnsweredOnce

\* The reply of c to the command in its hands, sent or not.
LEMMA AnswerInvReply ==
  ASSUME TypeOK, AnswerInv, NEW c \in Consumers, Reply(c) \/ ReplyThrows(c)
  PROVE  AnswerInv'
<1> DEFINE n == handling[c]
<1>1. /\ n # 0 /\ Owes(c, n) /\ n \in 1..published
      /\ \A d \in Consumers : handling'[d] = IF d = c THEN 0 ELSE handling[d]
      /\ UNCHANGED <<published, recipients, queue>>
      /\ published \in Nat /\ answers \in [Commands -> Seq(Consumers)]
      /\ queue \in [Consumers -> Seq(Commands)]
  BY DEF Reply, ReplyThrows, TypeOK, AnswerInv, InHand, Owes
\* One more answer at most, to n by c.
<1>2. \A m \in Commands :
        \/ answers'[m] = answers[m]
        \/ m = n /\ answers'[m] = Append(answers[m], c)
  BY DEF Reply, ReplyThrows
<1>3. ASSUME NEW d \in Consumers, NEW m \in Commands, Owes(d, m), d # c \/ m # n
      PROVE  Owes(d, m)'
  <2>1. CASE answers'[m] = answers[m]
    BY <1>1, <1>3, <2>1 DEF Owes, Answered
  <2>2. CASE m = n /\ answers'[m] = Append(answers[m], c)
    <3>1. /\ Len(answers[m]) \in Nat /\ Len(answers'[m]) = Len(answers[m]) + 1
          /\ \A i \in 1..Len(answers[m]) : answers'[m][i] = answers[m][i]
          /\ answers'[m][Len(answers[m]) + 1] = c
      BY <1>1, <2>2
    <3>2. ~Answered(m, d)'
      BY <1>3, <2>2, <3>1 DEF Owes, Answered
    <3> QED
      BY <1>1, <1>3, <3>2 DEF Owes
  <2> QED
    BY <1>2, <2>1, <2>2
<1>4. Waiting'
  <2> SUFFICES ASSUME NEW d \in Consumers, NEW k \in 1..Len(queue'[d]),
                      NEW m, m = queue'[d][k]
               PROVE  /\ Owes(d, m)' /\ m # handling'[d]
                      /\ \A j \in 1..Len(queue'[d]) : queue'[d][j] = m => j = k
    BY DEF Waiting
  <2>1. /\ Owes(d, m) /\ m # handling[d]
        /\ \A j \in 1..Len(queue[d]) : queue[d][j] = m => j = k
    BY <1>1 DEF AnswerInv, Waiting
  <2>2. m \in Commands /\ m # 0
    <3>1. m \in 1..published
      BY <2>1 DEF Owes
    <3>2. published \in 0..MaxCommands /\ MaxCommands \in Nat
      BY SequenceCommandsAssumption DEF TypeOK
    <3> QED
      BY <3>1, <3>2 DEF Commands
  <2>3. Owes(d, m)'
    BY <1>3, <2>1, <2>2
  <2> QED
    BY <1>1, <2>1, <2>2, <2>3
<1>5. InHand'
  <2> SUFFICES ASSUME NEW d \in Consumers, NEW m, m = handling'[d], m # 0
               PROVE  Owes(d, m)'
    BY DEF InHand
  <2>1. d # c /\ m = handling[d] /\ Owes(d, m)
    BY <1>1 DEF AnswerInv, InHand
  <2>2. m \in Commands
    BY <2>1 DEF TypeOK, Commands
  <2> QED
    BY <1>3, <2>1, <2>2
<1>6. Unpublished'
  <2>1. \A m \in Commands : m > published => m # n
    BY <1>1
  <2> QED
    BY <1>1, <1>2, <2>1 DEF AnswerInv, Unpublished
<1>7. AnsweredOnce'
  <2> SUFFICES ASSUME NEW m \in Commands
               PROVE  /\ \A i \in 1..Len(answers'[m]) : answers'[m][i] \in recipients[m]
                      /\ \A i, j \in 1..Len(answers'[m]) :
                           answers'[m][i] = answers'[m][j] => i = j
    BY <1>1 DEF AnsweredOnce
  <2>1. /\ \A i \in 1..Len(answers[m]) : answers[m][i] \in recipients[m]
        /\ \A i, j \in 1..Len(answers[m]) : answers[m][i] = answers[m][j] => i = j
    BY DEF AnswerInv, AnsweredOnce
  <2>2. CASE m = n /\ answers'[m] = Append(answers[m], c)
    <3>1. /\ Len(answers[m]) \in Nat /\ Len(answers'[m]) = Len(answers[m]) + 1
          /\ \A i \in 1..Len(answers[m]) : answers'[m][i] = answers[m][i]
          /\ answers'[m][Len(answers[m]) + 1] = c
      BY <1>1, <2>2
    <3>2. c \in recipients[m] /\ \A i \in 1..Len(answers[m]) : answers[m][i] # c
      BY <1>1, <2>2 DEF Owes, Answered
    <3>3. \A i \in 1..Len(answers'[m]) :
            i \in 1..Len(answers[m]) \/ i = Len(answers[m]) + 1
      BY <3>1
    <3> QED
      BY <2>1, <3>1, <3>2, <3>3
  <2> QED
    BY <1>2, <2>1, <2>2
<1> QED
  BY <1>4, <1>5, <1>6, <1>7 DEF AnswerInv

LEMMA AnswerInvStep == TypeOK /\ AnswerInv /\ [Next]_vars => AnswerInv'
<1> SUFFICES ASSUME TypeOK, AnswerInv, [Next]_vars PROVE AnswerInv'
  OBVIOUS
<1>1. CASE Client \/ UNCHANGED vars
  <2>1. /\ UNCHANGED <<published, handling, recipients, answers>>
        /\ \A c \in Consumers : queue'[c] = queue[c] \/ queue'[c] = <<>>
    BY <1>1 DEF Client, CreateConsumer, CreateConsumerThrows, RegisterActivity,
                SubscribeReturns, vars, commandVars
  <2> QED
    BY <2>1, AnswerInvKept
<1>2. CASE \E t \in Topics, a \in Activities : Publish(t, a)
  BY <1>2, AnswerInvPublish
<1>3. CASE \E c \in Consumers : Dispatch(c)
  BY <1>3, AnswerInvOnMessage, AnswerInvReply DEF Dispatch
<1> QED
  BY <1>1, <1>2, <1>3 DEF Next

\* A consumer answers a command at most once, and only one it was sent, for any
\* number of commands and whatever is subscribed while they are handled.
THEOREM AlwaysAnsweredOnce == Spec => []AnsweredOnce
<1>1. Init => AnswerInv
  BY DEF Init, AnswerInv, Waiting, InHand, Unpublished, AnsweredOnce
<1>2. AnswerInv => AnsweredOnce
  BY DEF AnswerInv
<1> QED
  BY <1>1, <1>2, TypeCorrect, AnswerInvStep, PTL DEF Spec

-----------------------------------------------------------------------------
(* Consumers implement Delivery                                            *)

\* What the refinement needs of a state: queues are in the order of publication, a
\* consumer that was destroyed has an empty queue and is not in its handler, and the
\* consumer being stored is held by an entry when all its entries are written.
QueuesInOrder == \A c \in Consumers : InOrder(queue[c], published)

DeadAreSilent ==
  \A c \in Consumers : ~Alive(c) => queue[c] = <<>> /\ handling[c] = 0

Stored == registering # 0 /\ todo = <<>> => Registered(registering)

DeliveryInv == QueuesInOrder /\ DeadAreSilent /\ Stored

\* The state Delivery sees.
Living  == {c \in Consumers : Alive(c)}
Pending == [c \in Consumers |-> Range(queue[c])]

\* The constructor of a consumer: it joins.
LEMMA DeliveryCreate ==
  ASSUME TypeOK, HolderInv, DeliveryInv, NEW t \in Topics, NEW s \in ActivitySets,
         CreateConsumer(t, s)
  PROVE  DeliveryInv' /\ D!Join(created + 1)
<1> DEFINE n == created + 1
<1>1. /\ created \in Nat /\ n \in Consumers /\ n \notin 1..created
      /\ 1..created' = (1..created) \cup {n} /\ registering = 0 /\ registering' = n
      /\ UNCHANGED <<holder, queue, handling, published>> /\ todo' = Entries[s]
      /\ n # 0
  <2>1. /\ created' = created + 1 /\ created < MaxSubscriptions
        /\ registering = 0 /\ registering' = created + 1
        /\ UNCHANGED <<holder, queue, handling, published>> /\ todo' = Entries[s]
    BY Zenon DEF CreateConsumer, commandVars
  <2>2. MaxSubscriptions \in Nat /\ created \in 0..MaxSubscriptions
    BY SequenceCommandsAssumption DEF TypeOK
  <2>3. /\ created \in Nat /\ created + 1 \in 1..MaxSubscriptions /\ created + 1 # 0
        /\ created + 1 \notin 1..created
        /\ 1..(created + 1) = (1..created) \cup {created + 1}
    BY <2>1, <2>2
  <2> QED
    BY <2>1, <2>3, Zenon DEF Consumers
<1>2. Entries[s] # <<>>
  BY DEF Entries, ActivitySets, Selector
<1> HIDE DEF n
<1>3. \A c : Registered(c)' <=> Registered(c)
  BY <1>1 DEF Registered
<1>4. ~Registered(n)
  BY <1>1 DEF HolderInv, HolderReceives, Registered
<1>5. \A c : Alive(c)' <=> Alive(c) \/ c = n
  BY <1>1, <1>3 DEF Alive
<1>6. DeliveryInv'
  BY <1>1, <1>2, <1>5 DEF DeliveryInv, QueuesInOrder, DeadAreSilent, Stored
<1>7. Living' = Living \cup {n} /\ Pending' = Pending
  BY <1>1, <1>5 DEF Living, Pending
<1>8. D!Join(n)
  BY <1>1, <1>7 DEF D!Join, Living, Pending
<1> QED
  BY <1>6, <1>8 DEF n

\* An entry is overwritten: the consumer that loses its last reference leaves.
LEMMA DeliveryRegister ==
  ASSUME TypeOK, HolderInv, DeliveryInv, RegisterActivity
  PROVE  /\ DeliveryInv'
         /\ (\E d \in Consumers : D!Leave(d)) \/ UNCHANGED (D!vars)
<1> DEFINE r == registering
           t == topic[r]
           b == Head(todo)
           gone == Discarded(t, b)
<1>1. /\ r \in Consumers /\ r # 0 /\ t \in Topics /\ b \in Activities
      /\ r \in 1..created
      /\ UNCHANGED <<created, registering, handling, published>>
      /\ holder' = [holder EXCEPT ![t][b] = r]
      /\ \A c \in gone : handling[c] = 0
      /\ queue' = [c \in Consumers |-> IF c \in gone THEN <<>> ELSE queue[c]]
      /\ published \in Nat
  <2>1. b \in Activities
    BY HeadOrTail DEF RegisterActivity, TypeOK
  <2> QED
    BY <2>1, SequenceCommandsAssumption
    DEF RegisterActivity, TypeOK, Consumers, consumerVars, commandVars
<1>2. \A u \in Topics, a \in Activities :
        holder'[u][a] = IF u = t /\ a = b THEN r ELSE holder[u][a]
  BY <1>1 DEF TypeOK
<1>3. \A c : c \in gone <=>
        /\ c = holder[t][b] /\ c # 0 /\ c # r
        /\ \A u \in Topics, a \in Activities : ~(u = t /\ a = b) => holder[u][a] # c
  BY DEF Discarded
<1> HIDE DEF gone, t, b, r
<1>4. Registered(registering)'
  <2>1. holder'[t][b] = r /\ r = registering'
    BY <1>1, <1>2 DEF r
  <2> QED
    BY <1>1, <2>1 DEF Registered
<1>5. ASSUME NEW c \in 1..created
      PROVE  Alive(c)' <=> Alive(c) /\ c \notin gone
  <2>0. c # 0
    OBVIOUS
  <2>1. CASE c = r
    BY <1>1, <1>3, <2>1 DEF Alive, r
  <2>2. CASE c # r
    <3>1. Alive(c)' <=> Registered(c)'
      BY <1>1, <2>2 DEF Alive, r
    <3>2. Alive(c) <=> Registered(c)
      BY <2>2 DEF Alive, r
    <3>3. Registered(c)' <=> Registered(c) /\ c \notin gone
      BY <1>1, <1>2, <1>3, <2>0, <2>2 DEF Registered
    <3> QED
      BY <3>1, <3>2, <3>3
  <2> QED
    BY <2>1, <2>2
<1>6. \A c : Alive(c)' <=> Alive(c) /\ c \notin gone
  BY <1>1, <1>5 DEF Alive
<1>7. DeliveryInv'
  <2>1. QueuesInOrder'
    BY <1>1, QueueEmpty DEF DeliveryInv, QueuesInOrder
  <2>2. DeadAreSilent'
    BY <1>1, <1>6 DEF DeliveryInv, DeadAreSilent
  <2> QED
    BY <1>1, <1>4, <2>1, <2>2 DEF DeliveryInv, Stored, r
<1>8. CASE gone = {}
  <2>1. Living' = Living /\ Pending' = Pending
    BY <1>1, <1>6, <1>8 DEF Living, Pending
  <2> QED
    BY <1>1, <1>7, <2>1 DEF D!vars, Living, Pending
<1>9. CASE gone # {}
  <2>1. PICK d : d \in gone
    BY <1>9
  <2>2. gone = {d} /\ d = holder[t][b] /\ d # 0
    BY <1>3, <2>1
  <2>3. d \in 1..created /\ d \in Consumers /\ Alive(d)
    BY <1>1, <2>2, SequenceCommandsAssumption
    DEF HolderInv, HolderReceives, Alive, Registered, TypeOK, Consumers
  <2>4. Living' = Living \ {d}
    BY <1>6, <2>2 DEF Living
  <2>5. Pending' = [Pending EXCEPT ![d] = {}]
    BY <1>1, <2>2, <2>3, QueueEmpty DEF Pending
  <2>6. D!Leave(d)
    BY <1>1, <2>1, <2>3, <2>4, <2>5 DEF D!Leave, Living, Pending
  <2> QED
    BY <1>7, <2>3, <2>6
<1> QED
  BY <1>8, <1>9

\* The local pointer of a subscription goes away: the entries it wrote remain.
LEMMA DeliveryReturns ==
  ASSUME TypeOK, DeliveryInv, SubscribeReturns
  PROVE  DeliveryInv' /\ UNCHANGED (D!vars)
<1>1. /\ registering # 0 /\ todo = <<>> /\ registering' = 0
      /\ UNCHANGED <<created, holder, queue, handling, published>>
  BY DEF SubscribeReturns, consumerVars, commandVars
<1>2. \A c : Registered(c)' <=> Registered(c)
  BY <1>1 DEF Registered
<1>3. Registered(registering)
  BY <1>1 DEF DeliveryInv, Stored
<1>4. \A c : Alive(c)' <=> Alive(c)
  BY <1>1, <1>2, <1>3 DEF Alive
<1>5. DeliveryInv'
  BY <1>1, <1>4 DEF DeliveryInv, QueuesInOrder, DeadAreSilent, Stored
<1>6. Living' = Living /\ Pending' = Pending
  BY <1>1, <1>4 DEF Living, Pending
<1> QED
  BY <1>1, <1>5, <1>6 DEF D!vars, Living, Pending

LEMMA DeliveryPublish ==
  ASSUME TypeOK, DeliveryInv, NEW t \in Topics, NEW a \in Activities, Publish(t, a)
  PROVE  DeliveryInv' /\ \E to \in SUBSET Living : D!Publish(to)
<1> DEFINE to == Listeners(t, a)
<1>1. /\ published \in Nat /\ published' = published + 1
      /\ queue' = [c \in Consumers |-> IF c \in to THEN Append(queue[c], published + 1)
                                       ELSE queue[c]]
      /\ UNCHANGED <<created, holder, registering, todo, handling>>
  BY DEF Publish, TypeOK, consumerVars
<1>2. to \subseteq Living
  BY SequenceCommandsAssumption DEF Listeners, Living, TypeOK, Consumers
<1> HIDE DEF to
<1>3. \A c : Alive(c)' <=> Alive(c)
  BY <1>1 DEF Alive, Registered
<1>4. ASSUME NEW c \in Consumers
      PROVE  InOrder(queue'[c], published') /\
             Range(queue'[c]) = IF c \in to THEN Range(queue[c]) \cup {published + 1}
                                ELSE Range(queue[c])
  <2>1. InOrder(queue[c], published)
    BY DEF DeliveryInv, QueuesInOrder
  <2>2. /\ InOrder(queue[c], published + 1)
        /\ InOrder(Append(queue[c], published + 1), published + 1)
        /\ Range(Append(queue[c], published + 1)) = Range(queue[c]) \cup {published + 1}
    BY <1>1, <2>1, QueueAppend
  <2> QED
    BY <1>1, <2>2
<1>5. QueuesInOrder'
  BY <1>4 DEF QueuesInOrder
<1>6. DeadAreSilent'
  BY <1>1, <1>2, <1>3 DEF DeliveryInv, DeadAreSilent, Living
<1>7. DeliveryInv'
  BY <1>1, <1>5, <1>6 DEF DeliveryInv, Stored, Registered
<1>8. Living' = Living
  BY <1>3 DEF Living
<1>9. Pending' = [c \in Consumers |-> IF c \in to THEN Pending[c] \cup {published + 1}
                                      ELSE Pending[c]]
  BY <1>4 DEF Pending
<1>10. D!Publish(to)
  BY <1>1, <1>8, <1>9 DEF D!Publish, Living, Pending
<1> QED
  BY <1>2, <1>7, <1>10

\* The command taken is the first of those that wait.
LEMMA DeliveryOnMessage ==
  ASSUME TypeOK, DeliveryInv, NEW c \in Consumers, OnMessage(c)
  PROVE  DeliveryInv' /\ \E m \in Pending[c] : D!Handle(c, m)
<1> DEFINE m == Head(queue[c])
<1>1. /\ published \in Nat /\ handling[c] = 0 /\ queue[c] # <<>>
      /\ handling' = [handling EXCEPT ![c] = m]
      /\ queue' = [queue EXCEPT ![c] = Tail(queue[c])]
      /\ UNCHANGED <<created, holder, registering, todo, published>>
      /\ queue \in [Consumers -> Seq(Commands)]
      /\ handling \in [Consumers -> 0..MaxCommands]
  BY DEF OnMessage, TypeOK, consumerVars, commandVars
<1>2. /\ m \in Range(queue[c]) /\ \A n \in Range(queue[c]) : m <= n
      /\ InOrder(Tail(queue[c]), published)
      /\ Range(Tail(queue[c])) = Range(queue[c]) \ {m}
  BY <1>1, QueueTake DEF DeliveryInv, QueuesInOrder
<1> HIDE DEF m
<1>3. Alive(c)
  BY <1>1 DEF DeliveryInv, DeadAreSilent
<1>4. \A d : Alive(d)' <=> Alive(d)
  BY <1>1 DEF Alive, Registered
<1>5. \A d \in Consumers :
        /\ queue'[d] = IF d = c THEN Tail(queue[c]) ELSE queue[d]
        /\ handling'[d] = IF d = c THEN m ELSE handling[d]
  BY <1>1
<1>6. QueuesInOrder'
  BY <1>1, <1>2, <1>5 DEF DeliveryInv, QueuesInOrder
<1>7. DeadAreSilent'
  BY <1>3, <1>4, <1>5 DEF DeliveryInv, DeadAreSilent
<1>8. DeliveryInv'
  BY <1>1, <1>6, <1>7 DEF DeliveryInv, Stored, Registered
<1>9. Living' = Living /\ c \in Living
  BY <1>3, <1>4 DEF Living
<1>10. /\ Pending' = [Pending EXCEPT ![c] = Pending[c] \ {m}]
       /\ Pending[c] = Range(queue[c])
  BY <1>2, <1>5 DEF Pending
<1>11. D!Handle(c, m)
  BY <1>1, <1>2, <1>9, <1>10 DEF D!Handle, D!Takes, Living, Pending
<1> QED
  BY <1>2, <1>8, <1>10, <1>11

LEMMA DeliveryReply ==
  ASSUME TypeOK, DeliveryInv, NEW c \in Consumers, Reply(c) \/ ReplyThrows(c)
  PROVE  DeliveryInv' /\ D!Finish(c)
<1>1. /\ handling[c] # 0 /\ handling' = [handling EXCEPT ![c] = 0]
      /\ UNCHANGED <<created, holder, registering, todo, published, queue>>
      /\ handling \in [Consumers -> 0..MaxCommands]
  BY DEF Reply, ReplyThrows, TypeOK, consumerVars
<1>2. \A d : Alive(d)' <=> Alive(d)
  BY <1>1 DEF Alive, Registered
<1>3. DeliveryInv'
  BY <1>1, <1>2 DEF DeliveryInv, QueuesInOrder, DeadAreSilent, Stored, Registered
<1>4. Living' = Living /\ Pending' = Pending
  BY <1>1, <1>2 DEF Living, Pending
<1>5. D!Finish(c)
  BY <1>1, <1>4 DEF D!Finish, Living, Pending
<1> QED
  BY <1>3, <1>5

LEMMA DeliveryStep ==
  ASSUME TypeOK, HolderInv, DeliveryInv, [Next]_vars
  PROVE  DeliveryInv' /\ [D!Next]_(D!vars)
<1>1. ASSUME NEW t \in Topics, NEW s \in ActivitySets, CreateConsumer(t, s)
      PROVE  DeliveryInv' /\ [D!Next]_(D!vars)
  <2>1. created + 1 \in Consumers
    BY <1>1, SequenceCommandsAssumption DEF CreateConsumer, TypeOK, Consumers
  <2> QED
    BY <1>1, <2>1, DeliveryCreate DEF D!Next
<1>2. CASE RegisterActivity
  BY <1>2, DeliveryRegister DEF D!Next
<1>3. CASE SubscribeReturns
  BY <1>3, DeliveryReturns
<1>4. ASSUME NEW t \in Topics, NEW a \in Activities, Publish(t, a)
      PROVE  DeliveryInv' /\ [D!Next]_(D!vars)
  BY <1>4, DeliveryPublish DEF D!Next, Living
<1>5. ASSUME NEW c \in Consumers, OnMessage(c)
      PROVE  DeliveryInv' /\ [D!Next]_(D!vars)
  BY <1>5, DeliveryOnMessage DEF D!Next, Pending
<1>6. ASSUME NEW c \in Consumers, Reply(c) \/ ReplyThrows(c)
      PROVE  DeliveryInv' /\ [D!Next]_(D!vars)
  BY <1>6, DeliveryReply DEF D!Next
<1>7. CASE \/ UNCHANGED vars
           \/ \E t \in Topics, s \in ActivitySets : CreateConsumerThrows(t, s)
  <2>1. UNCHANGED <<created, holder, registering, todo, published, queue, handling>>
    BY <1>7 DEF vars, CreateConsumerThrows, consumerVars, commandVars
  <2>2. \A c : Alive(c)' <=> Alive(c)
    BY <2>1 DEF Alive, Registered
  <2>3. DeliveryInv'
    BY <2>1, <2>2 DEF DeliveryInv, QueuesInOrder, DeadAreSilent, Stored, Registered
  <2>4. Living' = Living /\ Pending' = Pending
    BY <2>1, <2>2 DEF Living, Pending
  <2> QED
    BY <2>1, <2>3, <2>4 DEF D!vars, Living, Pending
<1> QED
  BY <1>1, <1>2, <1>3, <1>4, <1>5, <1>6, <1>7 DEF Next, Client, Dispatch

\* Whatever is subscribed while commands arrive, and for any number of both, each
\* consumer hands its handler the commands published while it existed, in order, one
\* at a time and each of them once, and none after it was destroyed.
THEOREM CommandsImplementDelivery == Spec => ImplementsDelivery
<1>1. Init => DeliveryInv /\ D!Init
  <2> SUFFICES ASSUME Init PROVE DeliveryInv /\ D!Init
    OBVIOUS
  <2>1. /\ created = 0 /\ published = 0 /\ registering = 0 /\ 1..created = {}
        /\ queue = [c \in Consumers |-> <<>>]
        /\ handling = [c \in Consumers |-> 0]
    BY DEF Init
  <2>2. \A c : ~Alive(c)
    BY <2>1 DEF Alive
  <2>3. DeliveryInv
    BY <2>1, QueueEmpty DEF DeliveryInv, QueuesInOrder, DeadAreSilent, Stored
  <2>4. Living = {} /\ Pending = [c \in Consumers |-> {}]
    BY <2>1, <2>2, QueueEmpty DEF Living, Pending
  <2> QED
    BY <2>1, <2>3, <2>4 DEF D!Init, Living, Pending
<1>2. TypeOK /\ HolderInv /\ DeliveryInv /\ [Next]_vars
        => DeliveryInv' /\ [D!Next]_(D!vars)
  BY DeliveryStep
<1> QED
  BY <1>1, <1>2, HolderInvAlways, PTL DEF Spec, ImplementsDelivery, D!Spec
=============================================================================

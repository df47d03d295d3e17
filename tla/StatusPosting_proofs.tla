------------------------ MODULE StatusPosting_proofs ------------------------
(***************************************************************************)
(* Proofs about StatusPosting, for every set of items and threads and any  *)
(* number of calls.                                                        *)
(***************************************************************************)
EXTENDS StatusPosting, TLAPS

-----------------------------------------------------------------------------
(* Lemmas about sequences and records                                      *)

LEMMA HeadTail ==
  ASSUME NEW S, NEW s \in Seq(S), s # <<>>
  PROVE  /\ Head(s) \in S /\ Tail(s) \in Seq(S)
         /\ \A k \in 1..Len(s) :
              s[k] = Head(s) \/ \E j \in 1..Len(Tail(s)) : Tail(s)[j] = s[k]
<1>1. /\ Head(s) \in S /\ Tail(s) \in Seq(S) /\ Head(s) = s[1]
      /\ Len(s) \in Nat /\ Len(s) > 0 /\ Len(Tail(s)) = Len(s) - 1
      /\ \A i \in 1..Len(Tail(s)) : Tail(s)[i] = s[i + 1]
  OBVIOUS
<1>2. ASSUME NEW i \in 1..Len(s), i # 1
      PROVE  i - 1 \in 1..Len(Tail(s)) /\ Tail(s)[i - 1] = s[i]
  BY <1>1, <1>2
<1> QED
  BY <1>1, <1>2

LEMMA RangeAppend ==
  ASSUME NEW S, NEW s \in Seq(S), NEW x \in S
  PROVE  Range(Append(s, x)) = Range(s) \cup {x}
<1>1. /\ DOMAIN s = 1..Len(s) /\ Len(s) \in Nat
      /\ DOMAIN Append(s, x) = 1..(Len(s) + 1)
      /\ \A k \in 1..Len(s) : Append(s, x)[k] = s[k]
      /\ Append(s, x)[Len(s) + 1] = x
  OBVIOUS
<1> QED
  BY <1>1 DEF Range

LEMMA RangeInSeq ==
  ASSUME NEW S, NEW s \in Seq(S)
  PROVE  Range(s) \subseteq S
BY DEF Range

\* Writing a field of a record, with a value of that field.
LEMMA WriteField ==
  ASSUME NEW r \in Contents, NEW f \in Fields, NEW x \in Domains[f]
  PROVE  /\ [r EXCEPT ![f] = x] \in Contents
         /\ [r EXCEPT ![f] = x][f] = x
         /\ \A g \in Fields \ {f} : [r EXCEPT ![f] = x][g] = r[g]
<1>1. CASE f = "value"
  BY <1>1 DEF Contents, Fields, Domains
<1>2. CASE f = "severity"
  BY <1>2 DEF Contents, Fields, Domains
<1>3. CASE f = "cause"
  BY <1>3 DEF Contents, Fields, Domains
<1>4. CASE f = "message"
  BY <1>4 DEF Contents, Fields, Domains
<1> QED
  BY <1>1, <1>2, <1>3, <1>4 DEF Fields, Domains

LEMMA FieldOf ==
  ASSUME NEW r \in Contents, NEW f \in Fields
  PROVE  r[f] \in Domains[f]
BY DEF Contents, Fields, Domains

LEMMA SameFields ==
  ASSUME NEW r \in Contents, NEW s \in Contents, \A f \in Fields : r[f] = s[f]
  PROVE  r = s
BY DEF Contents, Fields, Domains

LEMMA InitialTyped == InitialContent \in Contents
BY DEF InitialContent, Contents, Values, Severities, Causes, Messages

LEMMA FieldNames == Fields = {"value", "severity", "cause", "message"}
BY DEF Fields, Domains

\* Whoever else is writing, a field read has a value of the field.
LEMMA SeenTyped ==
  ASSUME TypeOK, NEW i \in Items, NEW f \in Fields
  PROVE  Seen(i, f) \subseteq Domains[f]
BY FieldOf DEF TypeOK, Seen

\* A write keeps the contents typed and touches one field of one item.
LEMMA WriteTyped ==
  ASSUME TypeOK, NEW t \in Threads, NEW f \in Fields, NEW x \in Domains[f],
         Write(t, f, x)
  PROVE  /\ content' \in [Items -> Contents]
         /\ \A i \in Items : i # item[t] => content'[i] = content[i]
         /\ content'[item[t]] = [content[item[t]] EXCEPT ![f] = x]
<1>1. item[t] \in Items /\ content[item[t]] \in Contents
  BY DEF TypeOK
<1>2. [content[item[t]] EXCEPT ![f] = x] \in Contents
  BY <1>1, WriteField
<1>3. content' = [content EXCEPT ![item[t]] = [content[item[t]] EXCEPT ![f] = x]]
  BY DEF Write
<1> HIDE DEF Write
<1> QED
  BY <1>1, <1>2, <1>3 DEF TypeOK

\* What is in the item after a write.
LEMMA WriteReads ==
  ASSUME TypeOK, NEW t \in Threads, NEW f \in Fields, NEW x \in Domains[f],
         Write(t, f, x)
  PROVE  /\ content'[item[t]][f] = x
         /\ \A g \in Fields \ {f} : content'[item[t]][g] = content[item[t]][g]
<1>1. /\ content[item[t]] \in Contents
      /\ content'[item[t]] = [content[item[t]] EXCEPT ![f] = x]
  BY WriteTyped DEF TypeOK
<1> DEFINE r == content[item[t]]
           q == content'[item[t]]
<1>2. r \in Contents /\ q = [r EXCEPT ![f] = x]
  BY <1>1
<1> HIDE DEF r, q
<1>3. q[f] = x /\ \A g \in Fields \ {f} : q[g] = r[g]
  <2>1. CASE f = "value"
    BY <1>2, <2>1 DEF Contents, Fields, Domains
  <2>2. CASE f = "severity"
    BY <1>2, <2>2 DEF Contents, Fields, Domains
  <2>3. CASE f = "cause"
    BY <1>2, <2>3 DEF Contents, Fields, Domains
  <2>4. CASE f = "message"
    BY <1>2, <2>4 DEF Contents, Fields, Domains
  <2> QED
    BY <2>1, <2>2, <2>3, <2>4 DEF Fields, Domains
<1> QED
  BY <1>3 DEF r, q

-----------------------------------------------------------------------------
(* Type correctness                                                        *)

SetLabels == ValueLabels \cup AlarmLabels

\* What is being set is on the list: it makes TypeOK inductive.
SetsListed == \A t \in Threads : pc[t] \in SetLabels => item[t] \in Range(items)

\* A post past its check has an item left.
PostsListed ==
  \A t \in Threads : pc[t] \in {"clear", "serialize", "send"} => todo[t] # <<>>

TypeInv == TypeOK /\ SetsListed /\ PostsListed

\* The steps of the threads, as one list of actions.
StepCases(t) ==
  \/ \E i \in Items : CreateItem(t, i)
  \/ \E i \in Items, v \in Values : CompareValue(t, i, v)
  \/ MarkValue(t)
  \/ AssignValue(t)
  \/ \E i \in Items, s \in Severities, c \in Causes, m \in Messages :
       CompareAlarm(t, i, s, c, m)
  \/ AssignSeverity(t)
  \/ AssignCause(t)
  \/ AssignMessage(t)
  \/ MarkAlarm(t)
  \/ \E i \in Items : PostItem(t, i)
  \/ PostAll(t)
  \/ Check(t)
  \/ ClearChanged(t)
  \/ Serialize(t)
  \/ Send(t)
  \/ SendThrows(t)

LEMMA NextCases == [Next]_vars => UNCHANGED vars \/ \E t \in Threads : StepCases(t)
BY DEF Next, SetValue, SetAlarm, Post, StepCases, Threads

\* Steps that leave the list alone and do not begin a set.
LEMMA SetsListedKept ==
  ASSUME TypeOK, SetsListed, UNCHANGED <<items, item>>,
         \A u \in Threads : pc'[u] \in SetLabels => pc[u] \in SetLabels
  PROVE  SetsListed'
BY DEF SetsListed

LEMMA PostsListedKept ==
  ASSUME TypeOK, PostsListed, UNCHANGED todo,
         \A u \in Threads : pc'[u] \in {"clear", "serialize", "send"} =>
                              pc[u] \in {"clear", "serialize", "send"}
  PROVE  PostsListed'
BY DEF PostsListed

\* Marking an item that is on the list.
LEMMA MarkTyped ==
  ASSUME TypeOK, NEW i \in Range(items), Mark(i)
  PROVE  /\ marks' \in [Items -> Nat]
         /\ changed' \subseteq Range(items)
<1>1. Range(items) \subseteq Items
  BY RangeInSeq DEF TypeOK
<1> QED
  BY <1>1 DEF TypeOK, Mark

LEMMA TypeInvStep == TypeInv /\ [Next]_vars => TypeInv'
<1> SUFFICES ASSUME TypeInv, [Next]_vars PROVE TypeInv'
  OBVIOUS
<1> USE StatusPostingAssumption
    DEF TypeOK, TypeInv, Goto, setVars, postVars
<1>0. /\ SetLabels = {"mark value", "value", "severity", "cause", "message",
                      "clear message", "mark alarm"}
      /\ Labels = SetLabels \cup {"idle", "check", "clear", "serialize", "send"}
  BY DEF SetLabels, Labels, ValueLabels, AlarmLabels, PostLabels
<1>1. ASSUME NEW t \in Threads, NEW i \in Items, CreateItem(t, i) PROVE TypeInv'
  <2>1. Range(items') = Range(items) \cup {i} /\ items' \in Seq(Items)
    BY <1>1, RangeAppend DEF CreateItem
  <2>2. SetsListed' /\ PostsListed'
    BY <1>1, <2>1 DEF CreateItem, SetsListed, PostsListed
  <2> QED
    BY <1>1, <2>1, <2>2 DEF CreateItem, Mark
<1>2. ASSUME NEW t \in Threads, NEW i \in Items, NEW v \in Values,
             CompareValue(t, i, v)
      PROVE  TypeInv'
  <2>1. arg' \in [Threads -> Contents]
    <3>1. [arg[t] EXCEPT !.value = v] \in Contents
      BY DEF Contents
    <3>2. arg' = [arg EXCEPT ![t] = [arg[t] EXCEPT !.value = v]]
      BY <1>2 DEF CompareValue
    <3> QED
      BY <3>1, <3>2
  <2>2. /\ pc' \in [Threads -> Labels] /\ pc'[t] \in {"idle", "mark value"}
        /\ \A u \in Threads : u # t => pc'[u] = pc[u]
    BY <1>2, <1>0 DEF CompareValue
  <2>3. SetsListed' /\ PostsListed'
    BY <1>2, <2>2 DEF CompareValue, SetsListed, PostsListed
  <2>4. item' \in [Threads -> Items] /\ calls' \in 0..MaxCalls
    <3>1. /\ item' = [item EXCEPT ![t] = i]
          /\ calls < MaxCalls /\ calls' = calls + 1
      BY <1>2 DEF CompareValue
    <3>2. item' \in [Threads -> Items]
      BY <3>1
    <3>3. calls' \in 0..MaxCalls
      BY <3>1
    <3> QED
      BY <3>2, <3>3
  <2> QED
    BY <1>2, <2>1, <2>2, <2>3, <2>4 DEF CompareValue
<1>3. ASSUME NEW t \in Threads, MarkValue(t) PROVE TypeInv'
  <2>1. item[t] \in Range(items) /\ Mark(item[t])
    BY <1>0, <1>3 DEF MarkValue, SetsListed
  <2>2. marks' \in [Items -> Nat] /\ changed' \subseteq Range(items)
    BY <2>1, MarkTyped
  <2>3. SetsListed' /\ PostsListed'
    BY <1>0, <1>3, SetsListedKept, PostsListedKept DEF MarkValue
  <2> QED
    BY <1>0, <1>3, <2>2, <2>3 DEF MarkValue
<1>4. ASSUME NEW t \in Threads, AssignValue(t) PROVE TypeInv'
  <2>1. arg[t].value \in Domains["value"] /\ "value" \in Fields
    BY FieldOf, FieldNames
  <2>2. content' \in [Items -> Contents]
    BY <1>4, <2>1, WriteTyped DEF AssignValue
  <2>3. SetsListed' /\ PostsListed'
    BY <1>0, <1>4, SetsListedKept, PostsListedKept DEF AssignValue
  <2> QED
    BY <1>0, <1>4, <2>2, <2>3 DEF AssignValue
<1>5. ASSUME NEW t \in Threads, NEW i \in Items, NEW s \in Severities,
             NEW c \in Causes, NEW m \in Messages, CompareAlarm(t, i, s, c, m)
      PROVE  TypeInv'
  <2>1. arg' \in [Threads -> Contents]
    <3> DEFINE r1 == [arg[t] EXCEPT !.severity = s]
               r2 == [r1 EXCEPT !.cause = c]
               r3 == [r2 EXCEPT !.message = m]
    <3>1. r1 \in Contents
      BY DEF Contents
    <3>2. r2 \in Contents
      BY <3>1 DEF Contents
    <3>3. r3 \in Contents
      BY <3>2 DEF Contents
    <3>4. arg' = [arg EXCEPT ![t] = r3]
      BY <1>5 DEF CompareAlarm
    <3> QED
      BY <3>3, <3>4
  <2>2. /\ pc' \in [Threads -> Labels] /\ pc'[t] \in {"idle", "severity"}
        /\ \A u \in Threads : u # t => pc'[u] = pc[u]
    BY <1>5, <1>0 DEF CompareAlarm
  <2>3. SetsListed' /\ PostsListed'
    BY <1>5, <2>2 DEF CompareAlarm, SetsListed, PostsListed
  <2>4. /\ item' \in [Threads -> Items] /\ calls' \in 0..MaxCalls
        /\ initialized' \subseteq AlarmItems
    <3>1. /\ item' = [item EXCEPT ![t] = i]
          /\ calls < MaxCalls /\ calls' = calls + 1
          /\ i \in AlarmItems /\ initialized' = initialized \cup {i}
      BY <1>5 DEF CompareAlarm
    <3>2. item' \in [Threads -> Items]
      BY <3>1
    <3>3. calls' \in 0..MaxCalls
      BY <3>1
    <3> QED
      BY <3>1, <3>2, <3>3
  <2> QED
    BY <1>5, <2>1, <2>2, <2>3, <2>4 DEF CompareAlarm
<1>6. ASSUME NEW t \in Threads, AssignSeverity(t) PROVE TypeInv'
  <2>1. arg[t].severity \in Domains["severity"] /\ "severity" \in Fields
    BY FieldOf, FieldNames
  <2>2. content' \in [Items -> Contents]
    BY <1>6, <2>1, WriteTyped DEF AssignSeverity
  <2>3. SetsListed' /\ PostsListed'
    BY <1>0, <1>6, SetsListedKept, PostsListedKept DEF AssignSeverity
  <2> QED
    BY <1>0, <1>6, <2>2, <2>3 DEF AssignSeverity
<1>7. ASSUME NEW t \in Threads, AssignCause(t) PROVE TypeInv'
  <2>1. /\ arg[t].cause \in Domains["cause"] /\ "cause" \in Fields
        /\ "OK" \in Domains["cause"]
    BY FieldOf, FieldNames DEF Domains, Causes
  <2>2. content' \in [Items -> Contents]
    BY <1>7, <2>1, WriteTyped DEF AssignCause
  <2>3. SetsListed' /\ PostsListed'
    BY <1>0, <1>7, SetsListedKept, PostsListedKept DEF AssignCause
  <2> QED
    BY <1>0, <1>7, <2>2, <2>3 DEF AssignCause
<1>8. ASSUME NEW t \in Threads, AssignMessage(t) PROVE TypeInv'
  <2>1. /\ arg[t].message \in Domains["message"] /\ "message" \in Fields
        /\ "" \in Domains["message"]
    BY FieldOf, FieldNames DEF Domains, Messages
  <2>2. content' \in [Items -> Contents]
    BY <1>8, <2>1, WriteTyped DEF AssignMessage
  <2>3. SetsListed' /\ PostsListed'
    BY <1>0, <1>8, SetsListedKept, PostsListedKept DEF AssignMessage
  <2> QED
    BY <1>0, <1>8, <2>2, <2>3 DEF AssignMessage
<1>9. ASSUME NEW t \in Threads, MarkAlarm(t) PROVE TypeInv'
  <2>1. item[t] \in Range(items) /\ Mark(item[t])
    BY <1>0, <1>9 DEF MarkAlarm, SetsListed
  <2>2. marks' \in [Items -> Nat] /\ changed' \subseteq Range(items)
    BY <2>1, MarkTyped
  <2>3. SetsListed' /\ PostsListed'
    BY <1>0, <1>9, SetsListedKept, PostsListedKept DEF MarkAlarm
  <2> QED
    BY <1>0, <1>9, <2>2, <2>3 DEF MarkAlarm
<1>10. ASSUME NEW t \in Threads,
              PostAll(t) \/ \E i \in Items : PostItem(t, i)
       PROVE  TypeInv'
  <2>1. todo' \in [Threads -> Seq(Items)]
    <3>1. \A i \in Items : <<i>> \in Seq(Items)
      OBVIOUS
    <3>2. PICK s \in Seq(Items) : todo' = [todo EXCEPT ![t] = s]
      BY <1>10, <3>1 DEF PostAll, PostItem
    <3> QED
      BY <3>2
  <2>2. pc' \in [Threads -> Labels] /\ SetsListed'
    BY <1>0, <1>10, SetsListedKept DEF PostAll, PostItem
  <2>3. PostsListed'
    BY <1>10 DEF PostAll, PostItem, PostsListed
  <2> QED
    BY <1>10, <2>1, <2>2, <2>3 DEF PostAll, PostItem
<1>11. ASSUME NEW t \in Threads, Check(t) PROVE TypeInv'
  <2>1. todo[t] # <<>> => Tail(todo[t]) \in Seq(Items)
    BY HeadTail
  <2>2. todo' \in [Threads -> Seq(Items)]
    BY <1>11, <2>1 DEF Check
  <2>3. pc' \in [Threads -> Labels] /\ SetsListed'
    BY <1>0, <1>11, SetsListedKept DEF Check
  <2>4. PostsListed'
    BY <1>11 DEF Check, PostsListed
  <2> QED
    BY <1>11, <2>2, <2>3, <2>4 DEF Check
<1>12. ASSUME NEW t \in Threads, ClearChanged(t) PROVE TypeInv'
  <2>1. todo[t] # <<>> /\ Head(todo[t]) \in Items
    BY <1>12, HeadTail DEF ClearChanged, PostsListed
  <2>2. SerializedFields(Head(todo[t])) \in Seq(Fields)
    <3>1. /\ <<"value">> \in Seq(Fields)
          /\ <<"value", "cause", "severity", "message">> \in Seq(Fields)
      BY FieldNames
    <3> QED
      BY <3>1 DEF SerializedFields
  <2>3. pc' \in [Threads -> Labels] /\ SetsListed' /\ PostsListed'
    <3>1. SetsListed'
      BY <1>0, <1>12, SetsListedKept DEF ClearChanged
    <3>2. PostsListed'
      BY <1>12, <2>1 DEF ClearChanged, PostsListed
    <3> QED
      BY <1>0, <1>12, <3>1, <3>2 DEF ClearChanged
  <2>4. unread' \in [Threads -> Seq(Fields)]
    BY <1>12, <2>2 DEF ClearChanged
  <2>5. posts' \in [Items -> Nat]
    BY <1>12, <2>1 DEF ClearChanged
  <2> QED
    BY <1>12, <2>3, <2>4, <2>5 DEF ClearChanged
<1>13. ASSUME NEW t \in Threads, Serialize(t) PROVE TypeInv'
  <2>1. todo[t] # <<>> /\ Head(todo[t]) \in Items
    BY <1>13, HeadTail DEF Serialize, PostsListed
  <2>2. SetsListed'
    BY <1>0, <1>13, SetsListedKept DEF Serialize
  <2>3. pc' \in [Threads -> Labels] /\ PostsListed'
    BY <1>0, <1>13, <2>1 DEF Serialize, PostsListed
  <2>4. CASE unread[t] = <<>>
    BY <1>13, <2>2, <2>3, <2>4 DEF Serialize
  <2>5. CASE unread[t] # <<>>
    <3> DEFINE f == Head(unread[t])
    <3>1. f \in Fields /\ Tail(unread[t]) \in Seq(Fields)
      BY <2>5, HeadTail
    <3>2. PICK x \in Seen(Head(todo[t]), f) :
            msg' = [msg EXCEPT ![t] = [msg[t] EXCEPT ![f] = x]]
      BY <1>13, <2>5 DEF Serialize
    <3>3. x \in Domains[f]
      BY <2>1, <3>1, SeenTyped
    <3>4. [msg[t] EXCEPT ![f] = x] \in Contents
      BY <3>1, <3>3, WriteField
    <3>5. msg' \in [Threads -> Contents]
      BY <3>2, <3>4
    <3>6. unread' \in [Threads -> Seq(Fields)]
      BY <1>13, <2>5, <3>1 DEF Serialize
    <3> QED
      BY <1>13, <2>2, <2>3, <3>5, <3>6 DEF Serialize
  <2> QED
    BY <2>4, <2>5
<1>14. ASSUME NEW t \in Threads, Send(t) PROVE TypeInv'
  <2>1. Head(todo[t]) \in Items /\ Tail(todo[t]) \in Seq(Items)
    BY <1>14, HeadTail DEF Send, PostsListed
  <2>2. /\ todo' \in [Threads -> Seq(Items)]
        /\ published' \in [Items -> Contents \cup {None, Failed}]
    BY <1>14, <2>1 DEF Send
  <2>3. pc' \in [Threads -> Labels] /\ SetsListed'
    BY <1>0, <1>14, SetsListedKept DEF Send
  <2>4. PostsListed'
    BY <1>14 DEF Send, PostsListed
  <2> QED
    BY <1>14, <2>2, <2>3, <2>4, InitialTyped DEF Send
<1>15. ASSUME NEW t \in Threads, SendThrows(t) PROVE TypeInv'
  <2>1. todo' \in [Threads -> Seq(Items)]
    <3>1. <<>> \in Seq(Items)
      OBVIOUS
    <3> QED
      BY <1>15, <3>1 DEF SendThrows
  <2>4. published' \in [Items -> Contents \cup {None, Failed}]
    <3>1. Head(todo[t]) \in Items
      BY <1>15, HeadTail DEF SendThrows, PostsListed
    <3> QED
      BY <1>15, <3>1 DEF SendThrows
  <2>2. pc' \in [Threads -> Labels] /\ SetsListed'
    BY <1>0, <1>15, SetsListedKept DEF SendThrows
  <2>3. PostsListed'
    BY <1>15 DEF SendThrows, PostsListed
  <2> QED
    BY <1>15, <2>1, <2>2, <2>3, <2>4, InitialTyped DEF SendThrows
<1>16. CASE UNCHANGED vars
  BY <1>16 DEF vars, SetsListed, PostsListed
<1> QED
  BY <1>1, <1>2, <1>3, <1>4, <1>5, <1>6, <1>7, <1>8, <1>9, <1>10, <1>11,
     <1>12, <1>13, <1>14, <1>15, <1>16, NextCases DEF StepCases

LEMMA InitTyped == Init => TypeInv
<1> SUFFICES ASSUME Init PROVE TypeInv
  OBVIOUS
<1>1. /\ items \in Seq(Items) /\ changed \subseteq Range(items)
      /\ todo \in [Threads -> Seq(Items)] /\ unread \in [Threads -> Seq(Fields)]
  BY DEF Init
<1>2. pc \in [Threads -> Labels] /\ item \in [Threads -> Items]
  BY StatusPostingAssumption DEF Init, Labels
<1>3. /\ content \in [Items -> Contents] /\ arg \in [Threads -> Contents]
      /\ msg \in [Threads -> Contents]
      /\ published \in [Items -> Contents \cup {None, Failed}]
  BY InitialTyped DEF Init
<1>4. /\ marks \in [Items -> Nat] /\ posts \in [Items -> Nat]
      /\ calls \in 0..MaxCalls /\ failures \in 0..MaxSendFailures
      /\ initialized \subseteq AlarmItems
  BY StatusPostingAssumption DEF Init
<1>5. SetsListed /\ PostsListed
  BY DEF Init, SetsListed, PostsListed, SetLabels, ValueLabels, AlarmLabels
<1> QED
  BY <1>1, <1>2, <1>3, <1>4, <1>5 DEF TypeInv, TypeOK

\* Every step of every thread keeps every variable within its type.
THEOREM TypeCorrect == Spec => []TypeOK
<1>1. TypeInv => TypeOK
  BY DEF TypeInv
<1> QED
  BY <1>1, InitTyped, TypeInvStep, PTL DEF Spec

-----------------------------------------------------------------------------
(* Nothing is lost between setting and posting                             *)

\* One thread posts, and it is the only one that sets values.  Alarms are set by
\* any number of threads.
OnePoster(p) == Posters = {p} /\ ValueSetters \subseteq {p}

AlarmBeingSet(i) == \E t \in Threads : pc[t] \in AlarmLabels /\ item[t] = i

\* The message p is filling or sending is about item i.
InHand(p, i) == pc[p] \in {"serialize", "send"} /\ Head(todo[p]) = i

\* That message has what item i holds in every field that is not yet to be read.
Agrees(p, i) ==
  \A f \in Fields :
    \/ msg[p][f] = content[i][f]
    \/ pc[p] = "serialize" /\ \E k \in 1..Len(unread[p]) : unread[p][k] = f

\* Why item i is not lost: it is dirty, about to be, being sent as it is, or has
\* been sent as it is, unless its last post threw.
Accounted(p, i) ==
  \/ i \in changed
  \/ AlarmBeingSet(i)
  \/ InHand(p, i) /\ Agrees(p, i)
  \/ ~InHand(p, i) /\ published[i] \in {content[i], Failed}

\* Which thread is where, and what the fields hold that nobody sets.
Roles(p) ==
  /\ \A t \in Threads : pc[t] \in ValueLabels \cup PostLabels => t = p
  /\ \A t \in Threads : pc[t] \in AlarmLabels => item[t] \in AlarmItems
  /\ \A i \in Items \ AlarmItems, f \in Fields \ {"value"} :
       content[i][f] = InitialContent[f]

\* The strengthening of PublishedIsCurrent.  The flag goes up before the value
\* is assigned, so the value is safe because nobody else clears the flag; it goes
\* up after an alarm is assigned, so the alarm is safe because the flag comes.
PubInv(p) ==
  /\ Roles(p)
  /\ p \in Threads /\ pc[p] = "value" => item[p] \in changed
  /\ p \in Threads /\ pc[p] \notin {"serialize", "send"} => msg[p] = InitialContent
  /\ \A i \in Range(items) : Accounted(p, i)

\* The labels, spelled out.
LEMMA LabelSets ==
  /\ ValueLabels = {"mark value", "value"}
  /\ AlarmLabels = {"severity", "cause", "message", "clear message", "mark alarm"}
  /\ PostLabels = {"check", "clear", "serialize", "send"}
BY DEF ValueLabels, AlarmLabels, PostLabels

\* The fields a plain item has and its serializer skips keep their first value.
LEMMA FieldsRead ==
  ASSUME NEW i \in Items, NEW f \in Fields
  PROVE  \/ \E k \in 1..Len(SerializedFields(i)) : SerializedFields(i)[k] = f
         \/ i \notin AlarmItems /\ f # "value"
<1>1. CASE i \in AlarmItems
  <2>1. SerializedFields(i) = <<"value", "cause", "severity", "message">>
    BY <1>1 DEF SerializedFields
  <2> QED
    BY <2>1, FieldNames
<1>2. CASE i \notin AlarmItems
  <2>1. SerializedFields(i) = <<"value">>
    BY <1>2 DEF SerializedFields
  <2> QED
    BY <1>2, <2>1
<1> QED
  BY <1>1, <1>2

\* An item stays accounted for when a step leaves alone what accounts for it.
LEMMA AccountedKept ==
  ASSUME NEW p, NEW i, Accounted(p, i), UNCHANGED published,
         content'[i] = content[i],
         i \in changed => i \in changed',
         AlarmBeingSet(i) => AlarmBeingSet(i)',
         {pc[p], pc'[p]} \cap {"serialize", "send"} # {} =>
           UNCHANGED <<pc[p], todo[p], msg[p], unread[p]>>
  PROVE  Accounted(p, i)'
BY DEF Accounted, InHand, Agrees

\* The steps that set a value.
LEMMA PubInvValue ==
  ASSUME NEW p, OnePoster(p), TypeInv, TypeInv', PubInv(p), SetValue(p)
  PROVE  PubInv(p)'
<1> USE DEF Goto, Mark, setVars, postVars, OnePoster
<1>0. /\ p \in Threads /\ pc \in [Threads -> Labels] /\ item \in [Threads -> Items]
      /\ content \in [Items -> Contents] /\ items \in Seq(Items)
      /\ Range(items) \subseteq Items
  BY RangeInSeq DEF TypeInv, TypeOK, Threads
<1>1. ASSUME NEW i \in Items, CreateItem(p, i) PROVE PubInv(p)'
  <2>1. Range(items') = Range(items) \cup {i}
    BY <1>0, <1>1, RangeAppend DEF CreateItem
  <2>2. Roles(p)'
    BY <1>1 DEF CreateItem, PubInv, Roles
  <2>3. ASSUME NEW j \in Range(items) PROVE Accounted(p, j)'
    BY <1>1, <2>3 DEF CreateItem, PubInv, Accounted, InHand, Agrees, AlarmBeingSet
  <2>4. Accounted(p, i)'
    BY <1>1 DEF CreateItem, Accounted
  <2> QED
    BY <1>1, <2>1, <2>2, <2>3, <2>4 DEF CreateItem, PubInv
<1>2. ASSUME NEW i \in Items, NEW v \in Values, CompareValue(p, i, v)
      PROVE  PubInv(p)'
  <2>1. /\ pc[p] = "idle" /\ pc'[p] \in {"idle", "mark value"}
        /\ \A t \in Threads : t # p => pc'[t] = pc[t] /\ item'[t] = item[t]
        /\ UNCHANGED <<items, content, changed, msg, published>>
    BY <1>0, <1>2 DEF CompareValue
  <2>2. Roles(p)'
    BY <2>1, LabelSets DEF PubInv, Roles
  <2>3. ASSUME NEW j \in Range(items) PROVE Accounted(p, j)'
    <3>1. AlarmBeingSet(j) => AlarmBeingSet(j)'
      BY <2>1, LabelSets DEF AlarmBeingSet
    <3> QED
      BY <2>1, <3>1, AccountedKept DEF PubInv
  <2> QED
    BY <2>1, <2>2, <2>3 DEF PubInv
<1>3. CASE MarkValue(p)
  <2>1. /\ pc[p] = "mark value" /\ pc'[p] = "value"
        /\ \A t \in Threads : t # p => pc'[t] = pc[t]
        /\ changed' = changed \cup {item[p]}
        /\ UNCHANGED <<items, item, content, msg, published>>
    BY <1>0, <1>3 DEF MarkValue
  <2>2. Roles(p)'
    BY <2>1, LabelSets DEF PubInv, Roles
  <2>3. ASSUME NEW j \in Range(items) PROVE Accounted(p, j)'
    <3>1. AlarmBeingSet(j) => AlarmBeingSet(j)'
      BY <2>1, LabelSets DEF AlarmBeingSet
    <3> QED
      BY <2>1, <3>1, AccountedKept DEF PubInv
  <2> QED
    BY <2>1, <2>2, <2>3 DEF PubInv
<1>4. CASE AssignValue(p)
  <2>1. /\ pc[p] = "value" /\ pc'[p] = "idle"
        /\ \A t \in Threads : t # p => pc'[t] = pc[t]
        /\ UNCHANGED <<items, item, changed, msg, published>>
        /\ Write(p, "value", arg[p].value)
    BY <1>0, <1>4 DEF AssignValue
  <2>2. /\ \A i \in Items : i # item[p] => content'[i] = content[i]
        /\ \A f \in Fields \ {"value"} : content'[item[p]][f] = content[item[p]][f]
    <3>1. arg[p].value \in Domains["value"] /\ "value" \in Fields
      BY <1>0, FieldOf, FieldNames DEF TypeInv, TypeOK
    <3>2. /\ \A i \in Items : i # item[p] => content'[i] = content[i]
          /\ content'[item[p]] = [content[item[p]] EXCEPT !["value"] = arg[p].value]
      BY <1>0, <2>1, <3>1, WriteTyped DEF TypeInv
    <3> QED
      BY <1>0, <3>1, <3>2, WriteField
  <2>3. Roles(p)'
    <3>1. \A u \in Threads :
            /\ pc'[u] \in ValueLabels \cup PostLabels => u = p
            /\ pc'[u] \in AlarmLabels => item'[u] \in AlarmItems
      BY <2>1, LabelSets DEF PubInv, Roles
    <3>2. \A i \in Items \ AlarmItems, g \in Fields \ {"value"} :
            content'[i][g] = InitialContent[g]
      BY <2>2 DEF PubInv, Roles
    <3> QED
      BY <3>1, <3>2 DEF Roles
  <2>4. ASSUME NEW j \in Range(items) PROVE Accounted(p, j)'
    <3>1. CASE j = item[p]
      BY <1>0, <2>1, <3>1 DEF PubInv, Accounted
    <3>2. CASE j # item[p]
      <4>1. AlarmBeingSet(j) => AlarmBeingSet(j)'
        BY <2>1, LabelSets DEF AlarmBeingSet
      <4> QED
        BY <1>0, <2>1, <2>2, <3>2, <4>1, AccountedKept DEF PubInv
    <3> QED
      BY <3>1, <3>2
  <2> QED
    BY <2>1, <2>3, <2>4 DEF PubInv
<1> QED
  BY <1>1, <1>2, <1>3, <1>4 DEF SetValue

\* The steps that set an alarm, by any thread.
LEMMA PubInvAlarm ==
  ASSUME NEW p, OnePoster(p), TypeInv, TypeInv', PubInv(p),
         NEW t \in Threads, SetAlarm(t)
  PROVE  PubInv(p)'
<1> USE DEF Goto, Mark, setVars, postVars, OnePoster
<1>0. /\ p \in Threads /\ pc \in [Threads -> Labels] /\ item \in [Threads -> Items]
      /\ content \in [Items -> Contents] /\ items \in Seq(Items)
      /\ Range(items) \subseteq Items
  BY RangeInSeq DEF TypeInv, TypeOK, Threads
<1>1. ASSUME NEW i \in Items, NEW s \in Severities, NEW c \in Causes,
             NEW m \in Messages, CompareAlarm(t, i, s, c, m)
      PROVE  PubInv(p)'
  <2>1. /\ pc[t] = "idle" /\ pc'[t] \in {"idle", "severity"}
        /\ i \in AlarmItems /\ item'[t] = i
        /\ \A u \in Threads : u # t => pc'[u] = pc[u] /\ item'[u] = item[u]
        /\ UNCHANGED <<items, content, changed, msg, published, todo, unread>>
    BY <1>0, <1>1 DEF CompareAlarm
  <2>2. Roles(p)'
    BY <2>1, LabelSets DEF PubInv, Roles
  <2>3. ASSUME NEW j \in Range(items) PROVE Accounted(p, j)'
    <3>1. AlarmBeingSet(j) => AlarmBeingSet(j)'
      BY <2>1, LabelSets DEF AlarmBeingSet
    <3>2. {pc[p], pc'[p]} \cap {"serialize", "send"} # {} => pc'[p] = pc[p]
      BY <1>0, <2>1
    <3> QED
      BY <2>1, <3>1, <3>2, AccountedKept DEF PubInv
  <2>4. pc'[p] = "value" => pc[p] = "value" /\ item'[p] = item[p]
    BY <1>0, <2>1
  <2>5. pc'[p] \notin {"serialize", "send"} => pc[p] \notin {"serialize", "send"}
    BY <1>0, <2>1
  <2> QED
    BY <2>1, <2>2, <2>3, <2>4, <2>5 DEF PubInv
<1>2. ASSUME NEW f \in Fields \ {"value"}, NEW x \in Domains[f], Write(t, f, x),
             pc[t] \in AlarmLabels, pc'[t] \in AlarmLabels,
             \A u \in Threads : u # t => pc'[u] = pc[u],
             UNCHANGED <<items, item, changed, msg, published, todo, unread>>
      PROVE  PubInv(p)'
  <2>1. \A i \in Items : i # item[t] => content'[i] = content[i]
    BY <1>2, WriteTyped DEF TypeInv
  <2>2. item[t] \in AlarmItems
    BY <1>2 DEF PubInv, Roles
  <2>3. Roles(p)'
    <3>1. \A u \in Threads :
            /\ pc'[u] \in ValueLabels \cup PostLabels => u = p
            /\ pc'[u] \in AlarmLabels => item'[u] \in AlarmItems
      BY <1>2, <2>2, LabelSets DEF PubInv, Roles
    <3>2. \A i \in Items \ AlarmItems, g \in Fields \ {"value"} :
            content'[i][g] = InitialContent[g]
      BY <2>1, <2>2 DEF PubInv, Roles
    <3> QED
      BY <3>1, <3>2 DEF Roles
  <2>4. ASSUME NEW j \in Range(items) PROVE Accounted(p, j)'
    <3>1. CASE j = item[t]
      BY <1>2, <3>1 DEF Accounted, AlarmBeingSet
    <3>2. CASE j # item[t]
      <4>1. AlarmBeingSet(j) => AlarmBeingSet(j)'
        BY <1>2 DEF AlarmBeingSet
      <4>2. {pc[p], pc'[p]} \cap {"serialize", "send"} # {} => pc'[p] = pc[p]
        BY <1>0, <1>2, LabelSets
      <4> QED
        BY <1>0, <1>2, <2>1, <3>2, <4>1, <4>2, AccountedKept DEF PubInv
    <3> QED
      BY <3>1, <3>2
  <2>5. /\ pc'[p] = "value" => pc[p] = "value"
        /\ pc'[p] \notin {"serialize", "send"} => pc[p] \notin {"serialize", "send"}
    BY <1>0, <1>2, LabelSets
  <2> QED
    BY <1>2, <2>3, <2>4, <2>5 DEF PubInv
<1>3. /\ arg[t] \in Contents
      /\ "severity" \in Fields /\ "cause" \in Fields /\ "message" \in Fields
      /\ "OK" \in Domains["cause"] /\ "" \in Domains["message"]
  BY FieldNames DEF TypeInv, TypeOK, Domains, Causes, Messages
<1>4. CASE AssignSeverity(t)
  <2>1. arg[t].severity \in Domains["severity"]
    BY <1>3, FieldOf
  <2> QED
    BY <1>0, <1>2, <1>3, <1>4, <2>1, LabelSets DEF AssignSeverity
<1>5. CASE AssignCause(t)
  <2>1. arg[t].cause \in Domains["cause"]
    BY <1>3, FieldOf
  <2>2. PICK x \in Domains["cause"] : Write(t, "cause", x)
    BY <1>3, <1>5, <2>1 DEF AssignCause
  <2> QED
    BY <1>0, <1>2, <1>3, <1>5, <2>2, LabelSets DEF AssignCause
<1>6. CASE AssignMessage(t)
  <2>1. arg[t].message \in Domains["message"]
    BY <1>3, FieldOf
  <2>2. PICK x \in Domains["message"] : Write(t, "message", x)
    BY <1>3, <1>6, <2>1 DEF AssignMessage
  <2> QED
    BY <1>0, <1>2, <1>3, <1>6, <2>2, LabelSets DEF AssignMessage
<1>7. CASE MarkAlarm(t)
  <2>1. /\ pc[t] = "mark alarm" /\ pc'[t] = "idle"
        /\ \A u \in Threads : u # t => pc'[u] = pc[u]
        /\ changed' = changed \cup {item[t]}
        /\ UNCHANGED <<items, item, content, msg, published, todo, unread>>
    BY <1>0, <1>7 DEF MarkAlarm
  <2>2. Roles(p)'
    BY <2>1, LabelSets DEF PubInv, Roles
  <2>3. ASSUME NEW j \in Range(items) PROVE Accounted(p, j)'
    <3>1. CASE j = item[t]
      BY <2>1, <3>1 DEF Accounted
    <3>2. CASE j # item[t]
      <4>1. AlarmBeingSet(j) => AlarmBeingSet(j)'
        BY <2>1, <3>2 DEF AlarmBeingSet
      <4>2. {pc[p], pc'[p]} \cap {"serialize", "send"} # {} => pc'[p] = pc[p]
        BY <1>0, <2>1
      <4> QED
        BY <2>1, <4>1, <4>2, AccountedKept DEF PubInv
    <3> QED
      BY <3>1, <3>2
  <2>4. /\ pc'[p] = "value" => pc[p] = "value"
        /\ pc'[p] \notin {"serialize", "send"} => pc[p] \notin {"serialize", "send"}
    BY <1>0, <2>1
  <2> QED
    BY <2>1, <2>2, <2>3, <2>4 DEF PubInv
<1> QED
  BY <1>1, <1>4, <1>5, <1>6, <1>7 DEF SetAlarm

\* The steps of a post.
LEMMA PubInvPost ==
  ASSUME NEW p, OnePoster(p), TypeInv, TypeInv', PubInv(p), Post(p)
  PROVE  PubInv(p)'
<1> USE DEF Goto, setVars, OnePoster
<1>0. /\ p \in Threads /\ pc \in [Threads -> Labels]
      /\ todo \in [Threads -> Seq(Items)] /\ unread \in [Threads -> Seq(Fields)]
      /\ msg \in [Threads -> Contents] /\ content \in [Items -> Contents]
      /\ published \in [Items -> Contents \cup {None, Failed}]
      /\ items \in Seq(Items) /\ Range(items) \subseteq Items
  BY RangeInSeq DEF TypeInv, TypeOK, Threads
\* A step of p that leaves the items alone.
<1>1. ASSUME pc[p] \in {"idle", "check", "clear", "serialize", "send"},
             pc'[p] \in {"idle", "check", "clear", "serialize", "send"},
             \A t \in Threads : t # p => pc'[t] = pc[t],
             UNCHANGED <<items, item, content>>
      PROVE  /\ Roles(p)' /\ pc'[p] # "value"
             /\ \A j : AlarmBeingSet(j) => AlarmBeingSet(j)'
  BY <1>1, LabelSets DEF PubInv, Roles, AlarmBeingSet
<1>2. CASE PostAll(p) \/ (\E i \in Items : PostItem(p, i)) \/ Check(p)
  <2>1. /\ pc[p] \in {"idle", "check"} /\ pc'[p] \in {"idle", "check", "clear"}
        /\ \A t \in Threads : t # p => pc'[t] = pc[t]
        /\ UNCHANGED <<items, item, content, changed, msg, published>>
    BY <1>0, <1>2 DEF PostAll, PostItem, Check
  <2>2. \A j \in Range(items) : Accounted(p, j)'
    BY <1>1, <2>1, AccountedKept DEF PubInv
  <2> QED
    BY <1>0, <1>1, <2>1, <2>2 DEF PubInv
<1>3. CASE ClearChanged(p)
  <2> DEFINE i == Head(todo[p])
  <2>1. /\ pc[p] = "clear" /\ pc'[p] = "serialize"
        /\ \A t \in Threads : t # p => pc'[t] = pc[t]
        /\ UNCHANGED <<items, item, content, msg, published, todo>>
        /\ changed' = changed \ {i} /\ unread'[p] = SerializedFields(i)
    BY <1>0, <1>3 DEF ClearChanged
  <2>2. i \in Items /\ msg[p] = InitialContent
    BY <1>0, <2>1, HeadTail DEF TypeInv, PostsListed, PubInv
  <2>3. Accounted(p, i)'
    <3>1. ASSUME NEW f \in Fields
          PROVE  \/ msg'[p][f] = content'[i][f]
                 \/ \E k \in 1..Len(unread'[p]) : unread'[p][k] = f
      BY <2>1, <2>2, FieldsRead DEF PubInv, Roles
    <3> QED
      BY <2>1, <3>1 DEF Accounted, InHand, Agrees
  <2>4. ASSUME NEW j \in Range(items), j # i PROVE Accounted(p, j)'
    BY <1>1, <2>1, <2>4 DEF PubInv, Accounted, InHand
  <2> QED
    BY <1>0, <1>1, <2>1, <2>3, <2>4 DEF PubInv
<1>4. CASE Serialize(p) /\ unread[p] = <<>>
  <2>1. /\ pc[p] = "serialize" /\ pc'[p] = "send"
        /\ \A t \in Threads : t # p => pc'[t] = pc[t]
        /\ UNCHANGED <<items, item, content, changed, msg, published, todo>>
    BY <1>0, <1>4 DEF Serialize
  <2>2. 1..Len(unread[p]) = {}
    BY <1>4
  <2>3. ASSUME NEW j \in Range(items) PROVE Accounted(p, j)'
    <3>1. /\ InHand(p, j)' <=> InHand(p, j)
          /\ InHand(p, j) /\ Agrees(p, j) => Agrees(p, j)'
      BY <2>1, <2>2 DEF InHand, Agrees
    <3>2. AlarmBeingSet(j) => AlarmBeingSet(j)'
      BY <1>1, <2>1
    <3> QED
      BY <2>1, <3>1, <3>2 DEF PubInv, Accounted
  <2> QED
    BY <1>0, <1>1, <2>1, <2>3 DEF PubInv
<1>5. CASE Serialize(p) /\ unread[p] # <<>>
  <2> DEFINE i == Head(todo[p])
             g == Head(unread[p])
  <2>1. /\ pc[p] = "serialize" /\ pc'[p] = pc[p]
        /\ \A t \in Threads : t # p => pc'[t] = pc[t]
        /\ UNCHANGED <<items, item, content, changed, published, todo>>
        /\ unread'[p] = Tail(unread[p])
    BY <1>0, <1>5 DEF Serialize
  <2>2. /\ g \in Fields /\ i \in Items
        /\ \A k \in 1..Len(unread[p]) : unread[p][k] = g \/
             \E l \in 1..Len(unread'[p]) : unread'[p][l] = unread[p][k]
    <3>1. todo[p] # <<>> /\ todo[p] \in Seq(Items) /\ unread[p] \in Seq(Fields)
      BY <1>0, <2>1 DEF TypeInv, PostsListed
    <3>2. i \in Items
      BY <3>1, HeadTail
    <3>3. /\ g \in Fields
          /\ \A k \in 1..Len(unread[p]) : unread[p][k] = g \/
               \E l \in 1..Len(Tail(unread[p])) : Tail(unread[p])[l] = unread[p][k]
      BY <1>5, <3>1, HeadTail
    <3> QED
      BY <2>1, <3>2, <3>3
  <2>3. PICK x \in Seen(i, g) : msg' = [msg EXCEPT ![p] = [msg[p] EXCEPT ![g] = x]]
    BY <1>5 DEF Serialize
  <2>4. /\ msg'[p][g] = x
        /\ \A f \in Fields \ {g} : msg'[p][f] = msg[p][f]
    <3>1. x \in Domains[g] /\ msg'[p] = [msg[p] EXCEPT ![g] = x]
      BY <1>0, <2>2, <2>3, SeenTyped DEF TypeInv
    <3> QED
      BY <1>0, <2>2, <3>1, WriteField
  <2>5. AlarmBeingSet(i)' \/ x = content[i][g]
    <3>1. CASE \E t \in Threads : Writing(t, i, g)
      <4>1. PICK t \in Threads : Writing(t, i, g)
        BY <3>1
      <4>2. t # p
        BY <1>0, <2>1, <2>2, <4>1, FieldNames DEF Writing
      <4>3. pc[t] \in AlarmLabels /\ item[t] = i
        BY <2>2, <4>1, <4>2, FieldNames, LabelSets DEF Writing, PubInv, Roles
      <4> QED
        BY <1>1, <2>1, <4>3 DEF AlarmBeingSet
    <3>2. CASE ~\E t \in Threads : Writing(t, i, g)
      BY <2>3, <3>2 DEF Seen
    <3> QED
      BY <3>1, <3>2
  <2>6. ASSUME NEW j \in Range(items) PROVE Accounted(p, j)'
    <3>1. AlarmBeingSet(j) => AlarmBeingSet(j)'
      BY <1>1, <2>1
    <3>2. ASSUME InHand(p, j), Agrees(p, j), x = content[i][g]
          PROVE  Agrees(p, j)'
      <4>1. j = i
        BY <3>2 DEF InHand
      <4>2. ASSUME NEW f \in Fields
            PROVE  \/ msg'[p][f] = content[i][f]
                   \/ \E k \in 1..Len(unread'[p]) : unread'[p][k] = f
        BY <2>2, <2>4, <3>2, <4>1 DEF Agrees
      <4> QED
        BY <2>1, <4>1, <4>2 DEF Agrees
    <3>3. (InHand(p, j)' <=> InHand(p, j)) /\ (InHand(p, j) => j = i)
      BY <2>1 DEF InHand
    <3> QED
      BY <2>1, <2>5, <3>1, <3>2, <3>3 DEF PubInv, Accounted
  <2> QED
    BY <1>0, <1>1, <2>1, <2>6 DEF PubInv
<1>6. CASE Send(p)
  <2> DEFINE i == Head(todo[p])
  <2>1. /\ pc[p] = "send" /\ pc'[p] = "check"
        /\ \A t \in Threads : t # p => pc'[t] = pc[t]
        /\ UNCHANGED <<items, item, content, changed>>
        /\ published' = [published EXCEPT ![i] = msg[p]]
        /\ msg'[p] = InitialContent
    BY <1>0, <1>6 DEF Send
  <2>2. i \in Items
    BY <1>0, <2>1, HeadTail DEF TypeInv, PostsListed
  <2>3. ASSUME NEW j \in Range(items) PROVE Accounted(p, j)'
    <3>1. AlarmBeingSet(j) => AlarmBeingSet(j)'
      BY <1>1, <2>1
    <3>2. ASSUME InHand(p, j), Agrees(p, j) PROVE published'[j] = content'[j]
      <4>1. j = i /\ \A f \in Fields : msg[p][f] = content[i][f]
        BY <2>1, <3>2 DEF InHand, Agrees
      <4>2. msg[p] = content[i]
        BY <1>0, <2>2, <4>1, SameFields
      <4> QED
        BY <1>0, <2>1, <2>2, <4>1, <4>2
    <3>3. ASSUME ~InHand(p, j), published[j] \in {content[j], Failed}
          PROVE  published'[j] \in {content'[j], Failed}
      BY <1>0, <2>1, <3>3 DEF InHand
    <3>4. ~InHand(p, j)'
      BY <2>1 DEF InHand
    <3> QED
      BY <2>1, <3>1, <3>2, <3>3, <3>4 DEF PubInv, Accounted
  <2> QED
    BY <1>0, <1>1, <2>1, <2>3 DEF PubInv
<1>7. CASE SendThrows(p)
  <2> DEFINE i == Head(todo[p])
  <2>1. /\ pc[p] = "send" /\ pc'[p] = "idle"
        /\ \A t \in Threads : t # p => pc'[t] = pc[t]
        /\ UNCHANGED <<items, item, content, changed>>
        /\ published' = [published EXCEPT ![i] = Failed]
        /\ msg'[p] = InitialContent
    BY <1>0, <1>7 DEF SendThrows
  <2>2. i \in Items
    BY <1>0, <2>1, HeadTail DEF TypeInv, PostsListed
  <2>3. ASSUME NEW j \in Range(items) PROVE Accounted(p, j)'
    <3>1. AlarmBeingSet(j) => AlarmBeingSet(j)'
      BY <1>1, <2>1
    <3>2. ~InHand(p, j)' /\ (InHand(p, j) => j = i)
      BY <2>1 DEF InHand
    <3>3. j \in Items /\ (j = i => published'[j] = Failed)
      BY <1>0, <2>1, <2>2
    <3> QED
      BY <1>0, <2>1, <2>2, <3>1, <3>2, <3>3 DEF PubInv, Accounted
  <2> QED
    BY <1>0, <1>1, <2>1, <2>3 DEF PubInv
<1> QED
  BY <1>2, <1>3, <1>4, <1>5, <1>6, <1>7 DEF Post

LEMMA PubInvStep ==
  ASSUME NEW p, OnePoster(p), TypeInv, PubInv(p), [Next]_vars
  PROVE  PubInv(p)'
<1>1. TypeInv'
  BY TypeInvStep
<1>2. CASE \E t \in ValueSetters : SetValue(t)
  BY <1>1, <1>2, PubInvValue DEF OnePoster
<1>3. CASE \E t \in AlarmSetters : SetAlarm(t)
  BY <1>1, <1>3, PubInvAlarm DEF Threads
<1>4. CASE \E t \in Posters : Post(t)
  BY <1>1, <1>4, PubInvPost DEF OnePoster
<1>5. CASE UNCHANGED vars
  BY <1>5 DEF vars, PubInv, Roles, Accounted, AlarmBeingSet, InHand, Agrees
<1> QED
  BY <1>2, <1>3, <1>4, <1>5 DEF Next

\* As long as one thread posts, and no other one sets values, no update is lost
\* but by a post that throws, however many threads set alarms at once: an item
\* that is clean and left alone has been published as it is.
THEOREM NothingLost ==
  ASSUME NEW p, OnePoster(p)
  PROVE  Spec => []PublishedIsCurrent
<1>1. Init => TypeInv /\ PubInv(p)
  <2> SUFFICES ASSUME Init PROVE TypeInv /\ PubInv(p)
    OBVIOUS
  <2>1. Range(items) = {}
    BY DEF Init, Range
  <2>2. p \in Threads
    BY DEF OnePoster, Threads
  <2> QED
    BY <2>1, <2>2, InitTyped, LabelSets DEF Init, PubInv, Roles
<1>2. TypeInv /\ PubInv(p) /\ [Next]_vars => TypeInv' /\ PubInv(p)'
  BY TypeInvStep, PubInvStep
<1>3. TypeInv /\ PubInv(p) => PublishedIsCurrent
  <2> SUFFICES ASSUME TypeInv, PubInv(p), NEW i \in Range(items), i \notin changed,
                      ~BeingSet(i), ~BeingPosted(i)
               PROVE  published[i] \in {content[i], Failed}
    BY DEF PublishedIsCurrent
  <2>1. ~AlarmBeingSet(i)
    BY DEF AlarmBeingSet, BeingSet
  <2>2. ~InHand(p, i)
    BY DEF InHand, BeingPosted, OnePoster, Threads
  <2> QED
    BY <2>1, <2>2 DEF PubInv, Accounted
<1> QED
  BY <1>1, <1>2, <1>3, PTL DEF Spec

-----------------------------------------------------------------------------
(* No post without a mark                                                  *)

\* The mark of a dirty item is still to be used up, by the next post of it.
MarkInv(p) ==
  /\ \A i \in Items : posts[i] + (IF i \in changed THEN 1 ELSE 0) <= marks[i]
  /\ pc[p] = "clear" => Head(todo[p]) \in changed

\* Steps that neither mark nor clear.
LEMMA MarkInvKept ==
  ASSUME NEW p, MarkInv(p), UNCHANGED <<changed, marks, posts>>,
         pc'[p] = "clear" => pc[p] = "clear" /\ todo'[p] = todo[p]
  PROVE  MarkInv(p)'
BY DEF MarkInv

\* Steps that mark one item.
LEMMA MarkInvMark ==
  ASSUME NEW p, TypeInv, MarkInv(p), NEW i \in Items, Mark(i), UNCHANGED posts,
         pc'[p] = "clear" => pc[p] = "clear" /\ todo'[p] = todo[p]
  PROVE  MarkInv(p)'
<1>1. ASSUME NEW j \in Items
      PROVE  posts'[j] + (IF j \in changed' THEN 1 ELSE 0) <= marks'[j]
  <2>1. marks[j] \in Nat /\ posts[j] \in Nat
    BY DEF TypeInv, TypeOK
  <2>2. posts[j] + (IF j \in changed THEN 1 ELSE 0) <= marks[j]
    BY DEF MarkInv
  <2>3. /\ marks'[j] = IF j = i THEN marks[j] + 1 ELSE marks[j]
        /\ j \in changed' <=> j \in changed \/ j = i
    BY DEF Mark, TypeInv, TypeOK
  <2>4. CASE j = i
    BY <2>1, <2>2, <2>3, <2>4
  <2>5. CASE j # i
    BY <2>2, <2>3, <2>5
  <2> QED
    BY <2>4, <2>5
<1> QED
  BY <1>1 DEF MarkInv, Mark

LEMMA MarkInvStep ==
  ASSUME NEW p, Posters = {p}, TypeInv, MarkInv(p), [Next]_vars
  PROVE  MarkInv(p)'
<1> USE DEF Goto, setVars, postVars
<1>0. /\ p \in Threads /\ pc \in [Threads -> Labels] /\ item \in [Threads -> Items]
      /\ todo \in [Threads -> Seq(Items)] /\ posts \in [Items -> Nat]
      /\ marks \in [Items -> Nat]
  BY DEF TypeInv, TypeOK, Threads
<1>1. ASSUME NEW t \in ValueSetters, SetValue(t) PROVE MarkInv(p)'
  <2>0. t \in Threads
    BY DEF Threads
  <2>1. CASE MarkValue(t)
    <3>1. /\ Mark(item[t]) /\ item[t] \in Items /\ UNCHANGED <<posts, todo>>
          /\ pc'[p] = "clear" => pc[p] = "clear"
      BY <1>0, <2>0, <2>1 DEF MarkValue
    <3> QED
      BY <3>1, MarkInvMark
  <2>2. CASE \E i \in Items : CreateItem(t, i)
    <3>1. PICK i \in Items : CreateItem(t, i)
      BY <2>2
    <3>2. Mark(i) /\ UNCHANGED <<posts, todo, pc>>
      BY <3>1 DEF CreateItem
    <3> QED
      BY <3>2, MarkInvMark
  <2>3. CASE \E i \in Items, v \in Values : CompareValue(t, i, v)
    BY <1>0, <2>0, <2>3, MarkInvKept DEF CompareValue
  <2>4. CASE AssignValue(t)
    BY <1>0, <2>0, <2>4, MarkInvKept DEF AssignValue
  <2> QED
    BY <1>1, <2>1, <2>2, <2>3, <2>4 DEF SetValue
<1>2. ASSUME NEW t \in AlarmSetters, SetAlarm(t) PROVE MarkInv(p)'
  <2>0. t \in Threads
    BY DEF Threads
  <2>1. CASE MarkAlarm(t)
    <3>1. /\ Mark(item[t]) /\ item[t] \in Items /\ UNCHANGED <<posts, todo>>
          /\ pc'[p] = "clear" => pc[p] = "clear"
      BY <1>0, <2>0, <2>1 DEF MarkAlarm
    <3> QED
      BY <3>1, MarkInvMark
  <2>2. CASE \E i \in Items, s \in Severities, c \in Causes, m \in Messages :
               CompareAlarm(t, i, s, c, m)
    <3>1. PICK i \in Items, s \in Severities, c \in Causes, m \in Messages :
            CompareAlarm(t, i, s, c, m)
      BY <2>2
    <3>2. /\ UNCHANGED <<changed, marks, posts, todo>>
          /\ \E l \in {"idle", "severity"} : pc' = [pc EXCEPT ![t] = l]
      BY <3>1 DEF CompareAlarm
    <3> QED
      BY <1>0, <2>0, <3>2, MarkInvKept
  <2>3. CASE AssignSeverity(t) \/ AssignCause(t) \/ AssignMessage(t)
    <3>1. /\ UNCHANGED <<changed, marks, posts, todo>>
          /\ pc'[p] = "clear" => pc[p] = "clear"
      BY <1>0, <2>0, <2>3 DEF AssignSeverity, AssignCause, AssignMessage
    <3> QED
      BY <3>1, MarkInvKept
  <2> QED
    BY <1>2, <2>1, <2>2, <2>3 DEF SetAlarm
<1>3. ASSUME Post(p) PROVE MarkInv(p)'
  <2>1. CASE PostAll(p) \/ (\E i \in Items : PostItem(p, i)) \/ Serialize(p)
    BY <1>0, <2>1, MarkInvKept DEF PostAll, PostItem, Serialize
  <2>2. CASE Check(p)
    BY <1>0, <2>2 DEF Check, MarkInv
  <2>3. CASE ClearChanged(p)
    <3> DEFINE i == Head(todo[p])
    <3>1. /\ pc[p] = "clear" /\ pc'[p] = "serialize" /\ changed' = changed \ {i}
          /\ posts' = [posts EXCEPT ![i] = @ + 1] /\ UNCHANGED marks
      BY <1>0, <2>3 DEF ClearChanged
    <3>2. i \in Items /\ i \in changed
      BY <1>0, <3>1, HeadTail DEF TypeInv, PostsListed, MarkInv
    <3>3. ASSUME NEW j \in Items
          PROVE  posts'[j] + (IF j \in changed' THEN 1 ELSE 0) <= marks'[j]
      <4>1. posts[j] + (IF j \in changed THEN 1 ELSE 0) <= marks[j]
        BY DEF MarkInv
      <4>2. posts[j] \in Nat /\ posts'[j] = IF j = i THEN posts[j] + 1 ELSE posts[j]
        BY <1>0, <3>1, <3>2
      <4> QED
        BY <3>1, <3>2, <4>1, <4>2
    <3> QED
      BY <3>1, <3>3 DEF MarkInv
  <2>4. CASE Send(p) \/ SendThrows(p)
    BY <1>0, <2>4, MarkInvKept DEF Send, SendThrows
  <2> QED
    BY <1>3, <2>1, <2>2, <2>3, <2>4 DEF Post
<1>4. CASE UNCHANGED vars
  BY <1>4, MarkInvKept DEF vars
<1> QED
  BY <1>1, <1>2, <1>3, <1>4 DEF Next

\* One thread that posts never sends an item more often than it was marked, with
\* any number of threads setting values and alarms and any failures.
THEOREM EveryPostHasItsMark ==
  ASSUME NEW p, Posters = {p}
  PROVE  Spec => []PostedOnlyIfMarked
<1>1. Init => TypeInv /\ MarkInv(p)
  <2> SUFFICES ASSUME Init PROVE MarkInv(p)
    BY InitTyped
  <2>1. p \in Threads
    BY DEF Threads
  <2> QED
    BY <2>1 DEF Init, MarkInv
<1>2. TypeInv /\ MarkInv(p) /\ [Next]_vars => TypeInv' /\ MarkInv(p)'
  BY TypeInvStep, MarkInvStep
<1>3. TypeInv /\ MarkInv(p) => PostedOnlyIfMarked
  <2> SUFFICES ASSUME TypeInv, MarkInv(p), NEW i \in Items PROVE posts[i] <= marks[i]
    BY DEF PostedOnlyIfMarked
  <2>1. posts[i] \in Nat /\ marks[i] \in Nat
    BY DEF TypeInv, TypeOK
  <2>2. posts[i] + (IF i \in changed THEN 1 ELSE 0) <= marks[i]
    BY DEF MarkInv
  <2> QED
    BY <2>1, <2>2
<1> QED
  BY <1>1, <1>2, <1>3, PTL DEF Spec
-----------------------------------------------------------------------------
(* An alarm that is OK has nothing else to say                             *)

\* How far the one thread s that sets alarms is with the item it works on.
AlarmAt(s, i, label) == pc[s] = label /\ item[s] = i

\* The strengthening of OkAlarmIsClean.  Between the write of the severity and
\* the two resets the item may be OK with the cause and message of before; once
\* the branch with the message is taken the severity stays what it was.
AlarmInv(s) ==
  /\ \A t \in Threads : pc[t] \in AlarmLabels => t = s
  /\ \A i \in Items : content[i]["severity"] = "OK" =>
       /\ content[i]["cause"] = "OK" \/ AlarmAt(s, i, "cause")
       /\ content[i]["message"] = "" \/ AlarmAt(s, i, "cause")
                                     \/ AlarmAt(s, i, "clear message")
       /\ ~AlarmAt(s, i, "message")

\* Steps that leave the alarms alone, and leave s where it is or out of a call.
LEMMA AlarmInvKept ==
  ASSUME NEW s, AlarmInv(s),
         \A i \in Items, f \in Fields \ {"value"} : content'[i][f] = content[i][f],
         \A t \in Threads : pc'[t] \in AlarmLabels => pc[t] \in AlarmLabels,
         pc[s] \in {"cause", "message", "clear message"} \/
           pc'[s] \in {"cause", "message", "clear message"} =>
           UNCHANGED <<pc[s], item[s]>>
  PROVE  AlarmInv(s)'
<1>1. \A i \in Items, l \in {"cause", "message", "clear message"} :
        AlarmAt(s, i, l)' <=> AlarmAt(s, i, l)
  BY DEF AlarmAt
<1>2. \A t \in Threads : pc'[t] \in AlarmLabels => t = s
  BY DEF AlarmInv
<1>3. \A i \in Items :
        /\ content'[i]["severity"] = content[i]["severity"]
        /\ content'[i]["cause"] = content[i]["cause"]
        /\ content'[i]["message"] = content[i]["message"]
  BY FieldNames
<1> QED
  BY <1>1, <1>2, <1>3 DEF AlarmInv

\* The steps of s that write a field of an alarm.
LEMMA AlarmInvWrite ==
  ASSUME NEW s \in Threads, TypeInv, AlarmInv(s),
         AssignSeverity(s) \/ AssignCause(s) \/ AssignMessage(s)
  PROVE  AlarmInv(s)'
<1> USE DEF Goto, setVars
<1> DEFINE i == item[s]
<1>0. /\ pc \in [Threads -> Labels] /\ i \in Items /\ content[i] \in Contents
      /\ arg[s] \in Contents /\ TypeOK
      /\ "severity" \in Fields /\ "cause" \in Fields /\ "message" \in Fields
      /\ "OK" \in Domains["cause"] /\ "" \in Domains["message"]
  BY FieldNames DEF TypeInv, TypeOK, Domains, Causes, Messages
<1>1. /\ \A t \in Threads : t # s => pc'[t] = pc[t]
      /\ pc[s] \in AlarmLabels /\ UNCHANGED item
  BY <1>0, LabelSets DEF AssignSeverity, AssignCause, AssignMessage
<1>2. \A t \in Threads : pc'[t] \in AlarmLabels => t = s
  BY <1>1 DEF AlarmInv
\* One field f of item i gets the value x.
<1>3. ASSUME NEW f \in Fields, NEW x \in Domains[f], Write(s, f, x)
      PROVE  /\ \A j \in Items : j # i => content'[j] = content[j]
             /\ content'[i][f] = x
             /\ \A g \in Fields \ {f} : content'[i][g] = content[i][g]
  <2>1. TypeOK
    BY <1>0
  <2>2. \A j \in Items : j # i => content'[j] = content[j]
    BY <1>3, <2>1, WriteTyped
  <2>3. /\ content'[item[s]][f] = x
        /\ \A g \in Fields \ {f} : content'[item[s]][g] = content[item[s]][g]
    BY <1>3, <2>1, WriteReads
  <2> QED
    BY <2>2, <2>3
\* The other items are not touched.
<1>4. ASSUME NEW j \in Items, j # i, content'[j] = content[j],
             content'[j]["severity"] = "OK"
      PROVE  content'[j]["cause"] = "OK" /\ content'[j]["message"] = ""
  BY <1>4 DEF AlarmInv, AlarmAt
<1>5. CASE AssignSeverity(s)
  <2>1. arg[s].severity \in Domains["severity"]
    BY <1>0, FieldOf
  <2>2. \A j \in Items : j # i => content'[j] = content[j]
    BY <1>0, <1>3, <1>5, <2>1 DEF AssignSeverity
  <2>3. pc'[s] = "cause" /\ item'[s] = i
    BY <1>0, <1>1, <1>5 DEF AssignSeverity
  <2> QED
    BY <1>1, <1>2, <1>4, <2>2, <2>3 DEF AlarmInv, AlarmAt
<1>6. CASE AssignCause(s)
  <2>1. pc[s] = "cause" /\ item'[s] = i
    BY <1>1, <1>6 DEF AssignCause
  <2>2. Seen(i, "severity") = {content[i]["severity"]}
    BY <1>0, <2>1, LabelSets DEF Seen, Writing, AlarmInv
  <2>3. CASE content[i]["severity"] = "OK"
    <3>1. Write(s, "cause", "OK") /\ pc'[s] = "clear message"
      BY <1>0, <1>6, <2>2, <2>3 DEF AssignCause
    <3>2. /\ \A j \in Items : j # i => content'[j] = content[j]
          /\ content'[i]["cause"] = "OK"
      BY <1>0, <1>3, <3>1
    <3> QED
      BY <1>1, <1>2, <1>4, <2>1, <3>1, <3>2 DEF AlarmInv, AlarmAt
  <2>4. CASE content[i]["severity"] # "OK"
    <3>1. Write(s, "cause", arg[s].cause) /\ pc'[s] = "message"
      BY <1>0, <1>6, <2>2, <2>4 DEF AssignCause
    <3>2. arg[s].cause \in Domains["cause"]
      BY <1>0, FieldOf
    <3>3. /\ \A j \in Items : j # i => content'[j] = content[j]
          /\ content'[i]["severity"] # "OK"
      BY <1>0, <1>3, <2>4, <3>1, <3>2
    <3> QED
      BY <1>1, <1>2, <1>4, <2>1, <3>1, <3>3 DEF AlarmInv, AlarmAt
  <2> QED
    BY <2>3, <2>4
<1>7. CASE AssignMessage(s)
  <2>0. pc'[s] = "mark alarm" /\ item'[s] = i
    BY <1>0, <1>1, <1>7 DEF AssignMessage
  <2>1. CASE pc[s] = "message"
    <3>1. Write(s, "message", arg[s].message)
      BY <1>7, <2>1 DEF AssignMessage
    <3>2. arg[s].message \in Domains["message"]
      BY <1>0, FieldOf
    <3>3. content[i]["severity"] # "OK"
      BY <1>0, <2>1 DEF AlarmInv, AlarmAt
    <3>4. /\ \A j \in Items : j # i => content'[j] = content[j]
          /\ content'[i]["severity"] # "OK"
      BY <1>0, <1>3, <3>1, <3>2, <3>3
    <3> QED
      BY <1>1, <1>2, <1>4, <2>0, <3>4 DEF AlarmInv, AlarmAt
  <2>2. CASE pc[s] = "clear message"
    <3>1. Write(s, "message", "")
      BY <1>7, <2>2 DEF AssignMessage
    <3>2. /\ \A j \in Items : j # i => content'[j] = content[j]
          /\ content'[i]["message"] = ""
          /\ content'[i]["severity"] = content[i]["severity"]
          /\ content'[i]["cause"] = content[i]["cause"]
      BY <1>0, <1>3, <3>1
    <3>3. content[i]["severity"] = "OK" => content[i]["cause"] = "OK"
      BY <1>0, <2>2 DEF AlarmInv, AlarmAt
    <3> QED
      BY <1>1, <1>2, <1>4, <2>0, <3>2, <3>3 DEF AlarmInv, AlarmAt
  <2> QED
    BY <1>7, <2>1, <2>2 DEF AssignMessage
<1> QED
  BY <1>5, <1>6, <1>7

LEMMA AlarmInvStep ==
  ASSUME NEW s, AlarmSetters = {s}, TypeInv, AlarmInv(s), [Next]_vars
  PROVE  AlarmInv(s)'
<1> USE DEF Goto, setVars, postVars
<1>0. /\ s \in Threads /\ pc \in [Threads -> Labels] /\ item \in [Threads -> Items]
      /\ content \in [Items -> Contents] /\ arg \in [Threads -> Contents]
  BY DEF TypeInv, TypeOK, Threads
<1>1. ASSUME NEW t \in ValueSetters, SetValue(t) PROVE AlarmInv(s)'
  <2>0. t \in Threads
    BY DEF Threads
  <2>1. CASE (\E i \in Items : CreateItem(t, i)) \/ MarkValue(t)
    BY <1>0, <2>0, <2>1, LabelSets, AlarmInvKept DEF CreateItem, MarkValue
  <2>2. CASE \E i \in Items, v \in Values : CompareValue(t, i, v)
    BY <1>0, <2>0, <2>2, LabelSets, AlarmInvKept DEF CompareValue
  <2>3. CASE AssignValue(t)
    <3>1. /\ pc[t] = "value" /\ pc' = [pc EXCEPT ![t] = "idle"] /\ UNCHANGED item
          /\ Write(t, "value", arg[t].value)
      BY <2>3 DEF AssignValue
    <3>2. arg[t].value \in Domains["value"] /\ "value" \in Fields
      BY <1>0, <2>0, FieldNames, FieldOf
    <3>3. /\ \A i \in Items : i # item[t] => content'[i] = content[i]
          /\ content'[item[t]] = [content[item[t]] EXCEPT !["value"] = arg[t].value]
      BY <2>0, <3>1, <3>2, WriteTyped DEF TypeInv
    <3>4. \A f \in Fields \ {"value"} :
            [content[item[t]] EXCEPT !["value"] = arg[t].value][f] = content[item[t]][f]
      BY <1>0, <2>0, <3>2, WriteField
    <3>5. \A i \in Items, f \in Fields \ {"value"} : content'[i][f] = content[i][f]
      BY <3>3, <3>4, Zenon
    <3> QED
      BY <1>0, <2>0, <3>1, <3>5, LabelSets, AlarmInvKept
  <2> QED
    BY <1>1, <2>1, <2>2, <2>3 DEF SetValue
<1>2. ASSUME SetAlarm(s) PROVE AlarmInv(s)'
  <2>1. CASE \E i \in Items, v \in Severities, c \in Causes, m \in Messages :
               CompareAlarm(s, i, v, c, m)
    <3>0. /\ pc[s] = "idle" /\ UNCHANGED content
          /\ \E l \in {"idle", "severity"} : pc' = [pc EXCEPT ![s] = l]
      <4>1. PICK i \in Items, v \in Severities, c \in Causes, m \in Messages :
              CompareAlarm(s, i, v, c, m)
        BY <2>1
      <4> QED
        BY <4>1 DEF CompareAlarm
    <3>1. /\ pc[s] = "idle" /\ pc'[s] \in {"idle", "severity"} /\ UNCHANGED content
          /\ \A t \in Threads : t # s => pc'[t] = pc[t]
      BY <1>0, <3>0
    <3>2. \A t \in Threads : pc'[t] \in AlarmLabels => t = s
      BY <3>1 DEF AlarmInv
    <3> QED
      BY <3>1, <3>2 DEF AlarmInv, AlarmAt
  <2>2. CASE MarkAlarm(s)
    BY <1>0, <2>2, LabelSets, AlarmInvKept DEF MarkAlarm
  <2> QED
    BY <1>0, <1>2, <2>1, <2>2, AlarmInvWrite DEF SetAlarm
<1>3. ASSUME NEW t \in Posters, Post(t) PROVE AlarmInv(s)'
  <2>0. t \in Threads
    BY DEF Threads
  <2>1. /\ UNCHANGED <<item, content>>
        /\ pc[t] \in {"idle", "check", "clear", "serialize", "send"}
        /\ pc'[t] \in {"idle", "check", "clear", "serialize", "send"}
        /\ \A u \in Threads : u # t => pc'[u] = pc[u]
    BY <1>0, <1>3, <2>0
       DEF Post, PostItem, PostAll, Check, ClearChanged, Serialize, Send, SendThrows
  <2> QED
    BY <1>0, <2>0, <2>1, LabelSets, AlarmInvKept
<1>4. CASE UNCHANGED vars
  BY <1>4, AlarmInvKept DEF vars
<1> QED
  BY <1>1, <1>2, <1>3, <1>4 DEF Next

\* With one thread setting alarms an alarm that is OK has no cause and no message,
\* whatever is asked for and however the other threads set values and post.
THEOREM AlarmsReset ==
  ASSUME NEW s, AlarmSetters = {s}
  PROVE  Spec => []OkAlarmIsClean
<1>1. Init => TypeInv /\ AlarmInv(s)
  <2> SUFFICES ASSUME Init PROVE AlarmInv(s)
    BY InitTyped
  <2>1. \A i \in Items : content[i]["cause"] = "OK" /\ content[i]["message"] = ""
    BY DEF Init, InitialContent
  <2>2. \A t \in Threads : pc[t] \notin AlarmLabels
    BY LabelSets DEF Init
  <2>3. s \in Threads
    BY DEF Threads
  <2> QED
    BY <2>1, <2>2, <2>3, LabelSets DEF AlarmInv, AlarmAt
<1>2. TypeInv /\ AlarmInv(s) /\ [Next]_vars => TypeInv' /\ AlarmInv(s)'
  BY TypeInvStep, AlarmInvStep
<1>3. TypeInv /\ AlarmInv(s) => OkAlarmIsClean
  <2> SUFFICES ASSUME TypeInv, AlarmInv(s), NEW i \in AlarmItems,
                      content[i].severity = "OK", ~BeingSet(i)
               PROVE  content[i].cause = "OK" /\ content[i].message = ""
    BY DEF OkAlarmIsClean
  <2>1. i \in Items /\ s \in Threads
    BY StatusPostingAssumption DEF Threads
  <2>2. ~AlarmAt(s, i, "cause") /\ ~AlarmAt(s, i, "clear message")
    BY <2>1, LabelSets DEF BeingSet, AlarmAt
  <2> QED
    BY <2>1, <2>2 DEF AlarmInv
<1> QED
  BY <1>1, <1>2, <1>3, PTL DEF Spec
=============================================================================

---------------------------- MODULE StatusPosting ----------------------------
(***************************************************************************)
(* The status items of StatusUtil: threads create items, set their values  *)
(* and alarms, and post the items that changed.  Command handlers run on   *)
(* dispatch threads of their own and call all of this too, and no call is  *)
(* locked, so the steps of a set and of a post interleave.                 *)
(*                                                                         *)
(* A set writes the fields of an item one by one.  A thread that reads a   *)
(* field while another one writes it gets any value of the field.  Items   *)
(* are created by one thread: two that create at once race on the map the  *)
(* items are in, which has no outcome in terms of the items.  An item      *)
(* stands for its name, which is not empty; AlarmItems are created as      *)
(* alarm items, the others as plain or health items, which differ only in  *)
(* how they are sent.  All have a type that has a setter.                  *)
(***************************************************************************)
EXTENDS Naturals, Sequences, Functions

CONSTANTS
  Items,           \* the names of status items
  AlarmItems,      \* those among them created as alarm items
  ValueSetters,    \* threads that set values
  Creator,         \* the one among them that creates items
  AlarmSetters,    \* threads that set and clear alarms
  Posters,         \* threads that post
  None,            \* an item has not been posted yet
  Failed,          \* the last post of an item threw
  MaxCalls,        \* bound: calls that set a value or an alarm
  MaxSendFailures  \* bound: posts that end in a PostException

Values     == {0, 1}
Severities == {"OK", "WARNING"}
Causes     == {"OK", "OTHER"} \* a cause but OTHER needs no message, like OK
Messages   == {"", "text"}

\* What an item holds, and what a message about it carries.
Contents == [value: Values, severity: Severities, cause: Causes,
             message: Messages]

InitialContent == [value |-> 0, severity |-> "OK", cause |-> "OK", message |-> ""]

Domains == [value |-> Values, severity |-> Severities, cause |-> Causes,
            message |-> Messages]

Fields == DOMAIN Domains

Threads == ValueSetters \cup AlarmSetters \cup Posters

ASSUME StatusPostingAssumption ==
  /\ Items # {}
  /\ AlarmItems \subseteq Items
  /\ {None, Failed} \cap Contents = {}
  /\ None # Failed
  /\ MaxCalls \in Nat
  /\ MaxSendFailures \in Nat

VARIABLES
  items,       \* _statusItemList, in order of creation
  content,     \* the fields of each item
  initialized, \* alarm items with _initialized
  changed,     \* items with _changedFlag
  pc,          \* what each thread does next
  item,        \* the item a thread set last
  arg,         \* the arguments of that call
  todo,        \* the items a thread has yet to post
  unread,      \* fields the serializer of a thread has yet to read
  msg,         \* the message it fills
  published,   \* history: what the last post of each item sent, or Failed
  marks,       \* history: how often each item was marked
  posts,       \* history: how often each item was found changed by a post
  calls,       \* number of calls that set something
  failures     \* number of posts that threw

vars == <<items, content, initialized, changed, pc, item, arg, todo, unread,
          msg, published, marks, posts, calls, failures>>

setVars  == <<item, arg, calls>>
postVars == <<todo, unread, msg, published, posts, failures>>

-----------------------------------------------------------------------------
Goto(t, label) == pc' = [pc EXCEPT ![t] = label]

\* A thread writes field f of item i.
Writing(t, i, f) ==
  /\ item[t] = i
  /\ pc[t] = f \/ (f = "message" /\ pc[t] = "clear message")

\* What reading field f of item i may return.
Seen(i, f) ==
  IF \E t \in Threads : Writing(t, i, f) THEN Domains[f] ELSE {content[i][f]}

\* _mark: the item is dirty.
Mark(i) ==
  /\ changed' = changed \cup {i}
  /\ marks' = [marks EXCEPT ![i] = @ + 1]

Write(t, f, x) == content' = [content EXCEPT ![item[t]][f] = x]

Init ==
  /\ items = <<>>
  /\ content = [i \in Items |-> InitialContent]
  /\ initialized = {}
  /\ changed = {}
  /\ pc = [t \in Threads |-> "idle"]
  /\ item = [t \in Threads |-> CHOOSE i \in Items : TRUE]
  /\ arg = [t \in Threads |-> InitialContent]
  /\ todo = [t \in Threads |-> <<>>]
  /\ unread = [t \in Threads |-> <<>>]
  /\ msg = [t \in Threads |-> InitialContent]
  /\ published = [i \in Items |-> None]
  /\ marks = [i \in Items |-> 0]
  /\ posts = [i \in Items |-> 0]
  /\ calls = 0
  /\ failures = 0

-----------------------------------------------------------------------------
(* Creating and setting                                                    *)

\* Mutation of CreateItem: the item does not get into the list.
CreateItemUnlisted(t, i) ==
  /\ pc[t] = "idle"
  /\ i \notin Range(items)
  /\ Mark(i)
  /\ UNCHANGED <<items, content, initialized, pc, setVars, postVars>>

\* A name that exists already is refused with ERROR; a new item is dirty.
CreateItem(t, i) ==
  /\ pc[t] = "idle"
  /\ i \notin Range(items)
  /\ items' = Append(items, i)
  /\ Mark(i)
  /\ UNCHANGED <<content, initialized, pc, setVars, postVars>>

\* setValueAs...: a value that equals the current one is ignored.
CompareValue(t, i, v) ==
  /\ pc[t] = "idle"
  /\ i \in Range(items)
  /\ calls < MaxCalls
  /\ calls' = calls + 1
  /\ \E x \in Seen(i, "value") :
       Goto(t, IF x = v THEN "idle" ELSE "mark value")
  /\ item' = [item EXCEPT ![t] = i]
  /\ arg' = [arg EXCEPT ![t].value = v]
  /\ UNCHANGED <<items, content, initialized, changed, marks, postVars>>

\* Mutation of MarkValue: the call to _mark is missing.
MarkValueForgotten(t) ==
  /\ pc[t] = "mark value"
  /\ Goto(t, "value")
  /\ UNCHANGED <<items, content, initialized, changed, marks, setVars, postVars>>

\* The flag goes up before the value changes.
MarkValue(t) ==
  /\ pc[t] = "mark value"
  /\ Mark(item[t])
  /\ Goto(t, "value")
  /\ UNCHANGED <<items, content, initialized, setVars, postVars>>

AssignValue(t) ==
  /\ pc[t] = "value"
  /\ Write(t, "value", arg[t].value)
  /\ Goto(t, "idle")
  /\ UNCHANGED <<items, initialized, changed, marks, setVars, postVars>>

\* setAlarmState: a call with cause OTHER and no message is an ERROR, one that
\* repeats the state of an initialized item is ignored.
CompareAlarm(t, i, s, c, m) ==
  /\ pc[t] = "idle"
  /\ i \in Range(items) \cap AlarmItems
  /\ ~(c = "OTHER" /\ m = "")
  /\ calls < MaxCalls
  /\ calls' = calls + 1
  /\ \E x \in Seen(i, "severity"), y \in Seen(i, "cause"), z \in Seen(i, "message") :
       Goto(t, IF i \in initialized /\ <<x, y, z>> = <<s, c, m>> THEN "idle"
               ELSE "severity")
  /\ initialized' = initialized \cup {i}
  /\ item' = [item EXCEPT ![t] = i]
  /\ arg' = [arg EXCEPT ![t].severity = s, ![t].cause = c, ![t].message = m]
  /\ UNCHANGED <<items, content, changed, marks, postVars>>

AssignSeverity(t) ==
  /\ pc[t] = "severity"
  /\ Write(t, "severity", arg[t].severity)
  /\ Goto(t, "cause")
  /\ UNCHANGED <<items, initialized, changed, marks, setVars, postVars>>

\* Mutation of AssignCause: no reset when the severity is OK.
AssignCauseKept(t) ==
  /\ pc[t] = "cause"
  /\ Write(t, "cause", arg[t].cause)
  /\ Goto(t, "message")
  /\ UNCHANGED <<items, initialized, changed, marks, setVars, postVars>>

\* When the severity (of the item, read again) is OK the arguments are ignored.
AssignCause(t) ==
  /\ pc[t] = "cause"
  /\ \E x \in Seen(item[t], "severity") :
       IF x = "OK"
         THEN Write(t, "cause", "OK") /\ Goto(t, "clear message")
         ELSE Write(t, "cause", arg[t].cause) /\ Goto(t, "message")
  /\ UNCHANGED <<items, initialized, changed, marks, setVars, postVars>>

AssignMessage(t) ==
  /\ \/ pc[t] = "message" /\ Write(t, "message", arg[t].message)
     \/ pc[t] = "clear message" /\ Write(t, "message", "")
  /\ Goto(t, "mark alarm")
  /\ UNCHANGED <<items, initialized, changed, marks, setVars, postVars>>

\* The flag goes up after the alarm changed.
MarkAlarm(t) ==
  /\ pc[t] = "mark alarm"
  /\ Mark(item[t])
  /\ Goto(t, "idle")
  /\ UNCHANGED <<items, content, initialized, setVars, postVars>>

-----------------------------------------------------------------------------
(* Posting                                                                 *)

\* postStatus(name) of an existing item; another name is an ERROR.
PostItem(t, i) ==
  /\ pc[t] = "idle"
  /\ i \in Range(items)
  /\ todo' = [todo EXCEPT ![t] = <<i>>]
  /\ Goto(t, "check")
  /\ UNCHANGED <<items, content, initialized, changed, marks, setVars, unread,
                 msg, published, posts, failures>>

\* postStatus() works on a copy of the list.
PostAll(t) ==
  /\ pc[t] = "idle"
  /\ items # <<>>
  /\ todo' = [todo EXCEPT ![t] = items]
  /\ Goto(t, "check")
  /\ UNCHANGED <<items, content, initialized, changed, marks, setVars, unread,
                 msg, published, posts, failures>>

\* doPost begins: an item that is not changed is skipped.
Check(t) ==
  /\ pc[t] = "check"
  /\ IF todo[t] = <<>>
       THEN Goto(t, "idle") /\ UNCHANGED todo
       ELSE IF Head(todo[t]) \in changed
       THEN Goto(t, "clear") /\ UNCHANGED todo
       ELSE todo' = [todo EXCEPT ![t] = Tail(@)] /\ UNCHANGED pc
  /\ UNCHANGED <<items, content, initialized, changed, marks, setVars, unread,
                 msg, published, posts, failures>>

\* The fields in the order in which the serializer gets them.
SerializedFields(i) ==
  IF i \in AlarmItems THEN <<"value", "cause", "severity", "message">>
                      ELSE <<"value">>

\* Mutation of ClearChanged: the flag is left alone.
ClearChangedForgotten(t) ==
  /\ pc[t] = "clear"
  /\ LET i == Head(todo[t]) IN
       /\ posts' = [posts EXCEPT ![i] = @ + 1]
       /\ unread' = [unread EXCEPT ![t] = SerializedFields(i)]
  /\ Goto(t, "serialize")
  /\ UNCHANGED <<items, content, initialized, changed, marks, setVars, todo, msg,
                 published, failures>>

\* doPost marks the item clean before it is sent.
ClearChanged(t) ==
  /\ pc[t] = "clear"
  /\ LET i == Head(todo[t]) IN
       /\ changed' = changed \ {i}
       /\ posts' = [posts EXCEPT ![i] = @ + 1]
       /\ unread' = [unread EXCEPT ![t] = SerializedFields(i)]
  /\ Goto(t, "serialize")
  /\ UNCHANGED <<items, content, initialized, marks, setVars, todo, msg,
                 published, failures>>

\* The serializer reads one field.
Serialize(t) ==
  /\ pc[t] = "serialize"
  /\ IF unread[t] = <<>>
       THEN Goto(t, "send") /\ UNCHANGED <<unread, msg>>
       ELSE /\ \E x \in Seen(Head(todo[t]), Head(unread[t])) :
                 msg' = [msg EXCEPT ![t][Head(unread[t])] = x]
            /\ unread' = [unread EXCEPT ![t] = Tail(@)]
            /\ UNCHANGED pc
  /\ UNCHANGED <<items, content, initialized, changed, marks, setVars, todo,
                 published, posts, failures>>

Send(t) ==
  /\ pc[t] = "send"
  /\ published' = [published EXCEPT ![Head(todo[t])] = msg[t]]
  /\ todo' = [todo EXCEPT ![t] = Tail(@)]
  /\ msg' = [msg EXCEPT ![t] = InitialContent]
  /\ Goto(t, "check")
  /\ UNCHANGED <<items, content, initialized, changed, marks, setVars, unread,
                 posts, failures>>

\* PostException: it leaves postStatus, with the rest of the list not posted.
SendThrows(t) ==
  /\ pc[t] = "send"
  /\ failures < MaxSendFailures
  /\ failures' = failures + 1
  /\ published' = [published EXCEPT ![Head(todo[t])] = Failed]
  /\ todo' = [todo EXCEPT ![t] = <<>>]
  /\ msg' = [msg EXCEPT ![t] = InitialContent]
  /\ Goto(t, "idle")
  /\ UNCHANGED <<items, content, initialized, changed, marks, setVars, unread,
                 posts>>

-----------------------------------------------------------------------------
SetValue(t) ==
  \/ t = Creator /\ \E i \in Items : CreateItem(t, i)
  \/ \E i \in Items, v \in Values : CompareValue(t, i, v)
  \/ MarkValue(t)
  \/ AssignValue(t)

SetAlarm(t) ==
  \/ \E i \in Items, s \in Severities, c \in Causes, m \in Messages :
       CompareAlarm(t, i, s, c, m)
  \/ AssignSeverity(t)
  \/ AssignCause(t)
  \/ AssignMessage(t)
  \/ MarkAlarm(t)

Post(t) ==
  \/ \E i \in Items : PostItem(t, i)
  \/ PostAll(t)
  \/ Check(t)
  \/ ClearChanged(t)
  \/ Serialize(t)
  \/ Send(t)
  \/ SendThrows(t)

Next ==
  \/ \E t \in ValueSetters : SetValue(t)
  \/ \E t \in AlarmSetters : SetAlarm(t)
  \/ \E t \in Posters : Post(t)

Spec == Init /\ [][Next]_vars

-----------------------------------------------------------------------------
(* Properties                                                              *)

ValueLabels == {"mark value", "value"}
AlarmLabels == {"severity", "cause", "message", "clear message", "mark alarm"}
PostLabels  == {"check", "clear", "serialize", "send"}
Labels      == {"idle"} \cup ValueLabels \cup AlarmLabels \cup PostLabels

\* Every variable keeps its type.
TypeOK ==
  /\ items \in Seq(Items)
  /\ content \in [Items -> Contents]
  /\ initialized \subseteq AlarmItems
  /\ changed \subseteq Range(items)
  /\ pc \in [Threads -> Labels]
  /\ item \in [Threads -> Items]
  /\ arg \in [Threads -> Contents]
  /\ todo \in [Threads -> Seq(Items)]
  /\ unread \in [Threads -> Seq(Fields)]
  /\ msg \in [Threads -> Contents]
  /\ published \in [Items -> Contents \cup {None, Failed}]
  /\ marks \in [Items -> Nat]
  /\ posts \in [Items -> Nat]
  /\ calls \in 0..MaxCalls
  /\ failures \in 0..MaxSendFailures

\* A thread is setting item i, or posting it and past the check.
BeingSet(i)    == \E t \in Threads : pc[t] \in ValueLabels \cup AlarmLabels /\ item[t] = i
BeingPosted(i) == \E t \in Threads : pc[t] \in {"serialize", "send"} /\ Head(todo[t]) = i

\* A clean item that nobody works on has been published as it is, unless its last
\* post threw: "pending statuses are those whose value has changed since last
\* time posted", so no later postStatus() would make up for an update that
\* slipped through.
PublishedIsCurrent ==
  \A i \in Range(items) :
    i \notin changed /\ ~BeingSet(i) /\ ~BeingPosted(i) =>
      published[i] \in {content[i], Failed}

\* "The status item will be sent only if it has been modified since the last time
\* it was posted": every post of an item takes up a mark of its own.
PostedOnlyIfMarked == \A i \in Items : posts[i] <= marks[i]

\* With severity OK the cause and the message are reset whatever was asked for,
\* also across several calls, unless a call is under way.
OkAlarmIsClean ==
  \A i \in AlarmItems :
    content[i].severity = "OK" /\ ~BeingSet(i) =>
      content[i].cause = "OK" /\ content[i].message = ""
=============================================================================

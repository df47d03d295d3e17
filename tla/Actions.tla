------------------------------- MODULE Actions -------------------------------
(***************************************************************************)
(* What the GMP may see of the actions it starts in an instrument.  Each   *)
(* action is answered once at most.  An action that is going on sends      *)
(* observation events, in the order of their numbers, and its completion   *)
(* after them; it is answered STARTED if it is answered at all, and the    *)
(* answer may be overtaken by anything the action sends.                   *)
(***************************************************************************)
EXTENDS Naturals, Sequences

CONSTANTS
  Ids,   \* the actions
  Events \* the observation events, natural numbers in their order

\* The answers a handler can give, and those among them that complete an action.
Responses   == {"ACCEPTED", "STARTED", "COMPLETED", "ERROR"}
Completions == {"COMPLETED", "ERROR"}

VARIABLES
  issued,     \* the actions the GMP has started
  answer,     \* the answer to each, or "none"
  completion, \* the completion info of each, or "none"
  events      \* the observation events of each so far

vars == <<issued, answer, completion, events>>

Init ==
  /\ issued = {}
  /\ answer = [m \in Ids |-> "none"]
  /\ completion = [m \in Ids |-> "none"]
  /\ events = [m \in Ids |-> <<>>]

Issue(m) ==
  /\ m \notin issued
  /\ issued' = issued \cup {m}
  /\ UNCHANGED <<answer, completion, events>>

Silent(m) == completion[m] = "none" /\ events[m] = <<>>

Answer(m, r) ==
  /\ m \in issued
  /\ answer[m] = "none"
  /\ r = "STARTED" \/ Silent(m)
  /\ answer' = [answer EXCEPT ![m] = r]
  /\ UNCHANGED <<issued, completion, events>>

\* An action goes on until it is completed or gets another answer than STARTED.
GoesOn(m) ==
  /\ m \in issued
  /\ completion[m] = "none"
  /\ answer[m] \in {"none", "STARTED"}

Observe(m, e) ==
  /\ GoesOn(m)
  /\ \A i \in 1..Len(events[m]) : events[m][i] < e
  /\ events' = [events EXCEPT ![m] = Append(@, e)]
  /\ UNCHANGED <<issued, answer, completion>>

Complete(m, r) ==
  /\ GoesOn(m)
  /\ completion' = [completion EXCEPT ![m] = r]
  /\ UNCHANGED <<issued, answer, events>>

Next == \E m \in Ids :
  \/ Issue(m)
  \/ \E r \in Responses : Answer(m, r)
  \/ \E e \in Events : Observe(m, e)
  \/ \E r \in Completions : Complete(m, r)

Spec == Init /\ [][Next]_vars
=============================================================================

------------------------------ MODULE Requests ------------------------------
(***************************************************************************)
(* What a call that sends something to the GMP promises the program that   *)
(* makes it.  It sends its message once at most.  It returns one result,   *)
(* and nothing is sent or taken for it afterwards.  What it returns has a  *)
(* reason: its arguments were rejected, and then nothing was sent; its     *)
(* message was sent, and is one that is not answered; the GMP's answer to  *)
(* this very request arrived, and the result is what such an answer means; *)
(* it was sent and no answer was taken; or the library failed.  The GMP    *)
(* answers a request once at most, and answers may be lost.                *)
(***************************************************************************)
CONSTANTS
  Calls,    \* the calls
  Kinds,    \* the methods
  OneWay,   \* those whose messages are not answered
  MethodOf, \* what distinguishes the methods
  Contents, \* what an answer may contain
  Results,  \* what a call may return or throw
  Failures, \* the exceptions of a library that cannot reach the GMP
  None      \* no message, no result

VARIABLES
  begun,    \* the calls made so far
  kind,     \* the method each of them calls
  sent,     \* those whose message was sent
  pending,  \* those whose request the GMP has yet to answer
  underway, \* answers of the GMP nobody has taken
  reply,    \* the answer each call took
  result    \* what each call returned or threw

vars == <<begun, kind, sent, pending, underway, reply, result>>

Init ==
  /\ begun = {}
  /\ kind \in [Calls -> Kinds]
  /\ sent = {}
  /\ pending = {}
  /\ underway = {}
  /\ reply = [n \in Calls |-> None]
  /\ result = [n \in Calls |-> None]

Begin(n, k) ==
  /\ n \notin begun
  /\ begun' = begun \cup {n}
  /\ kind' = [kind EXCEPT ![n] = k]
  /\ UNCHANGED <<sent, pending, underway, reply, result>>

Working(n) == n \in begun /\ result[n] = None

\* Send a request.
Ask(n) ==
  /\ Working(n)
  /\ kind[n] \notin OneWay
  /\ n \notin sent
  /\ sent' = sent \cup {n}
  /\ pending' = pending \cup {n}
  /\ UNCHANGED <<begun, kind, underway, reply, result>>

\* Send what is not answered, and return.
Tell(n) ==
  /\ Working(n)
  /\ kind[n] \in OneWay
  /\ n \notin sent
  /\ sent' = sent \cup {n}
  /\ result' = [result EXCEPT ![n] = "OK"]
  /\ UNCHANGED <<begun, kind, pending, underway, reply>>

\* The GMP answers, and the answer gets under way or is lost.
Answer(n, c) ==
  /\ n \in pending
  /\ pending' = pending \ {n}
  /\ underway' \in {underway, underway \cup {[to |-> n, content |-> c]}}
  /\ UNCHANGED <<begun, kind, sent, reply, result>>

\* The answers to ns are lost.
Lose(ns) ==
  /\ underway' = {m \in underway : m.to \notin ns}
  /\ UNCHANGED <<begun, kind, sent, pending, reply, result>>

Take(n, m) ==
  /\ Working(n)
  /\ m \in underway
  /\ m.to = n
  /\ reply[n] = None
  /\ reply' = [reply EXCEPT ![n] = m]
  /\ underway' = underway \ {m}
  /\ UNCHANGED <<begun, kind, sent, pending, result>>

-----------------------------------------------------------------------------
(* Why call n may return r                                                 *)

Rejected(n, r) ==
  /\ n \notin sent
  /\ MethodOf[kind[n]].rejects # {}
  /\ r = MethodOf[kind[n]].rejected

Answered(n, r) ==
  /\ reply[n] # None
  /\ r \in MethodOf[kind[n]].answers[reply[n].content]

Unanswered(n, r) ==
  /\ n \in sent
  /\ reply[n] = None
  /\ r = MethodOf[kind[n]].unanswered

Return(n, r) ==
  /\ Working(n)
  /\ Rejected(n, r) \/ Answered(n, r) \/ Unanswered(n, r) \/ r \in Failures
  /\ result' = [result EXCEPT ![n] = r]
  /\ UNCHANGED <<begun, kind, sent, pending, underway, reply>>

-----------------------------------------------------------------------------
Next ==
  \/ \E n \in Calls, k \in Kinds : Begin(n, k)
  \/ \E n \in Calls : Ask(n) \/ Tell(n)
  \/ \E n \in Calls, c \in Contents : Answer(n, c)
  \/ \E ns \in SUBSET Calls : Lose(ns)
  \/ \E n \in Calls, m \in underway : Take(n, m)
  \/ \E n \in Calls, r \in Results : Return(n, r)

Spec == Init /\ [][Next]_vars
=============================================================================

------------------------------ MODULE Delivery ------------------------------
(***************************************************************************)
(* What a consumer of this library promises the handler it was made for,   *)
(* whether it is one of sequence commands or one of updates of an EPICS    *)
(* channel.  The handler is called for messages published while the        *)
(* consumer exists, in the order they were published, for one message at a *)
(* time and for none of them twice.  A consumer that is destroyed is not   *)
(* inside its handler, and never calls it again.                           *)
(***************************************************************************)
EXTENDS Naturals

CONSTANT Receivers \* the consumers

VARIABLES
  joined,    \* receivers created so far
  active,    \* those that have not been destroyed
  published, \* number of messages published so far
  pending,   \* the messages each receiver has yet to take
  handling   \* the message the handler of each works on, or 0

vars == <<joined, active, published, pending, handling>>

Init ==
  /\ joined = {}
  /\ active = {}
  /\ published = 0
  /\ pending = [r \in Receivers |-> {}]
  /\ handling = [r \in Receivers |-> 0]

Join(r) ==
  /\ r \notin joined
  /\ joined' = joined \cup {r}
  /\ active' = active \cup {r}
  /\ UNCHANGED <<published, pending, handling>>

\* What the receiver has yet to take is dropped.
Leave(r) ==
  /\ r \in active
  /\ handling[r] = 0
  /\ active' = active \ {r}
  /\ pending' = [pending EXCEPT ![r] = {}]
  /\ UNCHANGED <<joined, published, handling>>

Publish(to) ==
  /\ published' = published + 1
  /\ pending' = [r \in Receivers |-> IF r \in to THEN pending[r] \cup {published + 1}
                                     ELSE pending[r]]
  /\ UNCHANGED <<joined, active, handling>>

\* Receiver r is free, and m comes next.
Takes(r, m) ==
  /\ r \in active
  /\ handling[r] = 0
  /\ m \in pending[r]
  /\ \A n \in pending[r] : m <= n
  /\ pending' = [pending EXCEPT ![r] = @ \ {m}]
  /\ UNCHANGED <<joined, active, published>>

Handle(r, m) == Takes(r, m) /\ handling' = [handling EXCEPT ![r] = m]

\* A message that is not one for the handler.
Skip(r, m) == Takes(r, m) /\ UNCHANGED handling

Finish(r) ==
  /\ handling[r] # 0
  /\ handling' = [handling EXCEPT ![r] = 0]
  /\ UNCHANGED <<joined, active, published, pending>>

\* The connection is lost, with all that has not been taken.
Lose ==
  /\ pending' = [r \in Receivers |-> {}]
  /\ UNCHANGED <<joined, active, published, handling>>

Next ==
  \/ \E r \in Receivers :
       Join(r) \/ Leave(r) \/ Finish(r) \/ \E m \in pending[r] : Handle(r, m) \/ Skip(r, m)
  \/ \E to \in SUBSET active : Publish(to)
  \/ Lose

Spec == Init /\ [][Next]_vars
=============================================================================

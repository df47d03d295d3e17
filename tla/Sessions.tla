------------------------------ MODULE Sessions ------------------------------
(***************************************************************************)
(* What the ConnectionManager promises the parts of the library that open  *)
(* sessions through it, and what the models of those parts assume of it.   *)
(* Sessions are opened on the one connection that is in place and works.   *)
(* A session ends because its owner closes it, or with its connection,     *)
(* which fails or is closed after it was dropped or replaced: then all its *)
(* sessions end, and no session of another connection does.  A connection  *)
(* that is put in place has none.                                          *)
(***************************************************************************)
CONSTANTS
  Owners, \* those who open sessions
  Conns,  \* the connections
  None    \* no connection

VARIABLES
  current, \* the connection that is in place, if it works
  home     \* the connection of an owner's open session

vars == <<current, home>>

Init == current = None /\ home = [o \in Owners |-> None]

Open(o) ==
  /\ current # None
  /\ home' = [home EXCEPT ![o] = current]
  /\ UNCHANGED current

Close(o) ==
  /\ home[o] # None
  /\ home' = [home EXCEPT ![o] = None]
  /\ UNCHANGED current

\* Another connection takes the place of the one there is, if any.
Install(c) ==
  /\ \A o \in Owners : home[o] # c
  /\ current' = c
  /\ UNCHANGED home

\* The connection is dropped; its sessions work until it is closed.
Drop ==
  /\ current' = None
  /\ UNCHANGED home

\* Connection c fails or is closed.
End(c) ==
  /\ home' = [o \in Owners |-> IF home[o] = c THEN None ELSE home[o]]
  /\ current' = IF current = c THEN None ELSE current

Next ==
  \/ \E o \in Owners : Open(o) \/ Close(o)
  \/ \E c \in Conns : Install(c) \/ End(c)
  \/ Drop

Spec == Init /\ [][Next]_vars
=============================================================================

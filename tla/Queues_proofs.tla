---------------------------- MODULE Queues_proofs ----------------------------
(***************************************************************************)
(* Lemmas about a queue that messages enter in the order of their numbers, *)
(* for the proofs that the consumers implement Delivery: the queue stands  *)
(* for the set of its elements, and its head is the smallest of them.      *)
(***************************************************************************)
EXTENDS Naturals, Sequences, Functions, TLAPS

\* q has messages up to n, in the order of their numbers.
InOrder(q, n) ==
  /\ q \in Seq(1..n)
  /\ \A i, j \in 1..Len(q) : i < j => q[i] < q[j]

\* A queue that is dropped has nothing in it.
LEMMA QueueEmpty ==
  ASSUME NEW n \in Nat
  PROVE  InOrder(<<>>, n) /\ Range(<<>>) = {}
BY DEF InOrder, Range

\* The next message goes behind all that wait, and adds itself to them.
LEMMA QueueAppend ==
  ASSUME NEW n \in Nat, NEW q, InOrder(q, n)
  PROVE  /\ InOrder(q, n + 1)
         /\ InOrder(Append(q, n + 1), n + 1)
         /\ Range(Append(q, n + 1)) = Range(q) \cup {n + 1}
<1> DEFINE p == Append(q, n + 1)
<1>1. /\ q \in Seq(1..n) /\ Len(q) \in Nat
      /\ \A i \in 1..Len(q) : q[i] \in 1..n
      /\ \A i, j \in 1..Len(q) : i < j => q[i] < q[j]
  BY DEF InOrder
<1>2. q \in Seq(Nat) /\ n + 1 \in Nat
  BY <1>1
<1>3. /\ Len(p) = Len(q) + 1 /\ p[Len(q) + 1] = n + 1
      /\ \A i \in 1..Len(q) : p[i] = q[i]
  BY <1>2
<1>4. q \in Seq(1..(n + 1)) /\ p \in Seq(1..(n + 1))
  <2>1. \A m \in 1..n : m \in 1..(n + 1)
    OBVIOUS
  <2>2. q \in Seq(1..(n + 1))
    BY <1>1, <2>1
  <2> QED
    BY <2>2
<1>5. \A i, j \in 1..Len(p) : i < j => p[i] < p[j]
  <2> SUFFICES ASSUME NEW i \in 1..Len(p), NEW j \in 1..Len(p), i < j
               PROVE  p[i] < p[j]
    OBVIOUS
  <2>1. i \in 1..Len(q) /\ (j \in 1..Len(q) \/ j = Len(q) + 1)
    BY <1>1, <1>3
  <2> QED
    BY <1>1, <1>3, <2>1
<1>6. Range(p) = Range(q) \cup {n + 1}
  <2>1. DOMAIN p = 1..Len(p) /\ DOMAIN q = 1..Len(q)
    BY <1>1, <1>4
  <2>2. 1..Len(p) = 1..Len(q) \cup {Len(q) + 1}
    BY <1>1, <1>3
  <2> HIDE DEF p
  <2> QED
    BY <1>3, <2>1, <2>2 DEF Range
<1> QED
  BY <1>1, <1>4, <1>5, <1>6 DEF InOrder

\* The head is the smallest message in the queue, and no other element equals it.
LEMMA QueueTake ==
  ASSUME NEW n \in Nat, NEW q, InOrder(q, n), q # <<>>
  PROVE  /\ Head(q) \in 1..n /\ Head(q) \in Range(q)
         /\ \A m \in Range(q) : Head(q) <= m
         /\ InOrder(Tail(q), n)
         /\ Range(Tail(q)) = Range(q) \ {Head(q)}
<1> DEFINE p == Tail(q)
<1>1. /\ q \in Seq(1..n) /\ Len(q) \in Nat /\ Len(q) > 0
      /\ \A i \in 1..Len(q) : q[i] \in 1..n
      /\ \A i, j \in 1..Len(q) : i < j => q[i] < q[j]
      /\ p \in Seq(1..n) /\ Len(p) = Len(q) - 1
      /\ \A i \in 1..Len(p) : p[i] = q[i + 1]
      /\ Head(q) = q[1]
  BY DEF InOrder
<1>2. DOMAIN p = 1..Len(p) /\ DOMAIN q = 1..Len(q)
  BY <1>1
<1> HIDE DEF p
<1>3. /\ 1 \in 1..Len(q)
      /\ \A i \in 1..Len(p) : i + 1 \in 1..Len(q) /\ 1 < i + 1
      /\ \A i \in 1..Len(q) : i = 1 \/ (i - 1 \in 1..Len(p) /\ (i - 1) + 1 = i)
      /\ \A i \in 1..Len(q) : i = 1 \/ 1 < i
  BY <1>1
<1>4. \A i \in 1..Len(q) : q[1] <= q[i] /\ (i # 1 => q[i] # q[1])
  BY <1>1, <1>3
<1>5. InOrder(p, n)
  <2> SUFFICES ASSUME NEW i \in 1..Len(p), NEW j \in 1..Len(p), i < j
               PROVE  p[i] < p[j]
    BY <1>1 DEF InOrder
  <2>1. p[i] = q[i + 1] /\ p[j] = q[j + 1]
    BY <1>1
  <2>2. i + 1 \in 1..Len(q) /\ j + 1 \in 1..Len(q) /\ i + 1 < j + 1
    BY <1>3
  <2>3. PICK k \in 1..Len(q), l \in 1..Len(q) : k = i + 1 /\ l = j + 1
    BY <2>2
  <2> QED
    BY <1>1, <2>1, <2>2, <2>3
<1>6. Range(p) = Range(q) \ {q[1]}
  <2>1. ASSUME NEW m \in Range(p) PROVE m \in Range(q) /\ m # q[1]
    <3>1. PICK i \in 1..Len(p) : p[i] = m
      BY <1>2 DEF Range
    <3>2. PICK j \in 1..Len(q) : j = i + 1 /\ j # 1
      BY <1>3
    <3>3. q[j] = m
      BY <1>1, <3>1, <3>2
    <3> QED
      BY <1>2, <1>4, <3>2, <3>3 DEF Range
  <2>2. ASSUME NEW m \in Range(q), m # q[1] PROVE m \in Range(p)
    <3>1. PICK i \in 1..Len(q) : q[i] = m
      BY <1>2 DEF Range
    <3>2. i - 1 \in 1..Len(p) /\ p[i - 1] = m
      BY <1>1, <1>3, <2>2, <3>1
    <3> QED
      BY <1>2, <3>2 DEF Range
  <2> QED
    BY <2>1, <2>2
<1>7. q[1] \in Range(q)
  BY <1>2, <1>3 DEF Range
<1>8. ASSUME NEW m \in Range(q) PROVE q[1] <= m
  <2>1. PICK i \in 1..Len(q) : q[i] = m
    BY <1>2 DEF Range
  <2> QED
    BY <1>4, <2>1
<1>9. Head(q) = q[1] /\ q[1] \in 1..n /\ p = Tail(q)
  BY <1>1, <1>3 DEF p
<1> QED
  BY <1>5, <1>6, <1>7, <1>8, <1>9
=============================================================================
